------------------------------ MODULE PasteData ------------------------------
(***************************************************************************)
(* PasteData and PasteDataRecord (framework/innerkits/src/paste_data.cpp,  *)
(* paste_data_record.cpp): the operations on a list of records, and what   *)
(* becomes of a list that is marshalled into a parcel and rebuilt from it. *)
(* The objects that hold such lists are in NapiPasteData.tla.              *)
(***************************************************************************)
EXTENDS Naturals, Sequences, SequencesExt

CONSTANTS
    MimeType,      \* the MIME types of records: text/html, text/plain, text/uri, text/want
    TextType,      \* those NewRecord bounds the payload of: text/html and text/plain
    Payload,       \* payloads of records
    TooLong,       \* payloads of MAX_TEXT_LEN or more
    NullRecord,    \* a null shared_ptr in place of a record
    MaxRecordNum   \* MAX_RECORD_NUM

ASSUME TextTypeAssumption == TextType \subseteq MimeType /\ TooLong \subseteq Payload
ASSUME MaxRecordNumAssumption == MaxRecordNum \in Nat \ {0}
ASSUME NullRecordAssumption == NullRecord \notin [mime : MimeType, payload : Payload]

Record == {r \in [mime : MimeType, payload : Payload] :
              ~ (r.mime \in TextType /\ r.payload \in TooLong)}

Records == Seq(Record \cup {NullRecord})

-----------------------------------------------------------------------------
\* Mutant: a text of any length makes a record.
NewRecordOfAnyLength(mime, payload) == [mime |-> mime, payload |-> payload]

\* NewHtmlRecord, NewPlaintTextRecord, NewUriRecord and NewWantRecord; a text of
\* MAX_TEXT_LEN or more makes no record.
NewRecord(mime, payload) ==
    IF mime \in TextType /\ payload \in TooLong THEN NullRecord
    ELSE [mime |-> mime, payload |-> payload]

\* The records a loop over the list finds: it skips the null ones.
Kept(list, r) == IF r = NullRecord THEN list ELSE Append(list, r)
NonNull(list) == FoldLeft(Kept, <<>>, list)

\* RefreshMimeProp, the last step of every change of the list.
MimeTypesOf(list) == [i \in 1..Len(NonNull(list)) |-> NonNull(list)[i].mime]

\* Mutant: the record goes behind the others.
AddedBehind(list, r) ==
    IF r = NullRecord \/ Len(list) >= MaxRecordNum THEN list ELSE Append(list, r)

\* Mutant: AddRecord without its null check.
AddedUnchecked(list, r) ==
    IF Len(list) = MaxRecordNum THEN <<r>> \o Front(list) ELSE <<r>> \o list

\* AddRecord: a null is ignored, a record goes to the front, and a list that is then
\* too long loses its last record.
Added(list, r) ==
    IF r = NullRecord THEN list
    ELSE LET longer == <<r>> \o list
         IN  IF Len(longer) > MaxRecordNum THEN Front(longer) ELSE longer

\* The operations below count from 0, as in the source.
Index(list) == 0..Len(list) - 1

\* RemoveRecordAt calls vector::emplace: it inserts a null record in front of the
\* indexed one.
Removed(list, n) == SubSeq(list, 1, n) \o <<NullRecord>> \o SubSeq(list, n + 1, Len(list))

Replaced(list, n, r) == [list EXCEPT ![n + 1] = r]

At(list, n) == IF n \in Index(list) THEN list[n + 1] ELSE NullRecord

\* GetPrimaryHtml, GetPrimaryWant, GetPrimaryText, GetPrimaryUri, HasMimeType and
\* GetMimeTypes dereference every record, up to the first of a MIME type they look for.
ReadsNull(list, sought) ==
    \E i \in DOMAIN list :
        /\ list[i] = NullRecord
        /\ \A j \in 1..(i - 1) : list[j] # NullRecord /\ list[j].mime \notin sought

\* Unmarshalling makes a record of what it reads, and ReadFromParcel skips what is none.
ReadRecord(list, r) == IF r = NullRecord THEN list ELSE Added(list, r)

\* Mutant: ReadFromParcel keeps the null records.
ReadWithNulls(parcel) == Reverse(parcel)

\* ReadFromParcel adds the records of a parcel to an empty list, one by one.
ReadFromParcel(parcel) == FoldLeft(ReadRecord, <<>>, parcel)

=============================================================================
