---------------------------- MODULE NapiPasteData ----------------------------
(***************************************************************************)
(* The PasteData and PasteDataRecord objects of the JavaScript API         *)
(* (interfaces/kits/napi/src/napi_pastedata.cpp, napi_pastedata_record.cpp *)
(* and the create functions and works of napi_pasteboard.cpp): how a       *)
(* script builds them, what setPasteData and convertToText do with them on *)
(* a thread of the libuv pool while the script goes on, and what another   *)
(* getPasteData finds.                                                     *)
(*                                                                         *)
(* A work keeps a raw pointer to the C++ half of its object.  The garbage  *)
(* collector (external) may take any object the script has let go of, and  *)
(* an object created later may be given the same address.                  *)
(***************************************************************************)
EXTENDS PasteData

CONSTANTS
    Object,      \* addresses of PasteDataNapi objects
    WantType,    \* the MIME type text/want, whose payload is not a string
    Lengthy,     \* payloads of STR_MAX_SIZE bytes or more
    Stub,        \* what the first STR_MAX_SIZE - 1 bytes of such a payload are
    Input,       \* the MIME types and payloads the script makes records of
    NoObject,    \* the script has no PasteDataRecord object
    NoData,      \* no PasteData
    RecordCap,   \* bound of the model: removeRecordAt stops at this length
    MaxCalls,    \* bound of the model: calls that make or change PasteData or queue a work
    MaxWorks     \* bound of the model: works of setPasteData at a time

ASSUME PayloadAssumption ==
    /\ TooLong \subseteq Lengthy /\ Lengthy \subseteq Payload /\ Stub \in Payload \ Lengthy
    /\ Input \subseteq MimeType \X Payload
ASSUME NoObjectAssumption ==
    /\ NoObject \notin [mime : MimeType, payload : Payload] \cup {NullRecord}
    /\ NoData \notin Records
ASSUME BoundsAssumption == RecordCap \in Nat /\ MaxCalls \in Nat /\ MaxWorks \in Nat

VARIABLES
    alive,       \* the application's process has not ended
    live,        \* the addresses in use
    held,        \* those of them whose object the script can reach
    records,     \* records[o]: records_ of the PasteData at address o
    mimeTypes,   \* mimeTypes[o]: its props_.mimeTypes
    record,      \* value_ of the PasteDataRecord object the script has, or NoObject
    conversion,  \* the work of a convertToText, and what became of its object
    works,       \* the works of setPasteData that have not written the clipboard
    served,      \* records_ of the service's copy, or NoData
    copied,      \* what that copy was made of, as the script gave it, or NoData
    exposed,     \* the script has done something that may end its process
    calls        \* how many calls it made, of those that are counted

objects == <<live, held, records, mimeTypes>>
vars == <<alive, objects, record, conversion, works, served, copied, exposed, calls>>

\* One setPasteData: the object by its address, the records it had when the script
\* passed it, what of them is in the parcel, and whether the object was since left
\* alone ("whole"), edited before it was read ("edited"), or edited while it was read
\* or collected ("torn").
Work ==
    [object : Object, given : Records, stage : {"queued", "writing"},
     length : Nat, parcel : Records, fate : {"whole", "edited", "torn"}]

TypeOK ==
    /\ alive \in BOOLEAN
    /\ held \subseteq live /\ live \subseteq Object
    /\ records \in [Object -> Records]
    /\ mimeTypes \in [Object -> Seq(MimeType)]
    /\ record \in Record \cup {NullRecord, NoObject}
    /\ conversion \in {"none", "called", "dropped", "collected"}
    /\ works \in Seq(Work) /\ Len(works) <= MaxWorks
    /\ \A w \in DOMAIN works : Len(works[w].parcel) <= works[w].length
    /\ served \in Records \cup {NoData}
    /\ copied \in Records \cup {NoData}
    /\ exposed \in BOOLEAN
    /\ calls \in 0..MaxCalls

Init ==
    /\ alive = TRUE
    /\ live = {} /\ held = {}
    /\ records = [o \in Object |-> <<>>]
    /\ mimeTypes = [o \in Object |-> <<>>]
    /\ record = NoObject
    /\ conversion = "none"
    /\ works = <<>>
    /\ served = NoData /\ copied = NoData
    /\ exposed = FALSE
    /\ calls = 0

Called ==
    /\ alive
    /\ calls < MaxCalls
    /\ calls' = calls + 1

\* A null pointer or freed memory is used: the process may end there.
Crash ==
    /\ alive' = FALSE
    /\ UNCHANGED <<objects, record, conversion, works, served, copied, exposed, calls>>

-----------------------------------------------------------------------------
\* PasteData objects.

\* A string argument of a PasteData method is read into a buffer of STR_MAX_SIZE bytes.
InBuffer(payload) == IF payload \in Lengthy THEN Stub ELSE payload

\* An object is made at an address that is free.
NewAt(o, list) ==
    /\ Called
    /\ o \notin live
    /\ live' = live \cup {o}
    /\ held' = held \cup {o}
    /\ records' = [records EXCEPT ![o] = list]
    /\ mimeTypes' = [mimeTypes EXCEPT ![o] = MimeTypesOf(list)]
    /\ UNCHANGED <<alive, record, conversion, works, exposed>>

\* new PasteData()
New(o) ==
    /\ NewAt(o, <<>>)
    /\ UNCHANGED <<served, copied>>

\* createHtmlData, createPlainTextData, createUriData and createWantData; the string
\* is read whole.
CreateData(o, mime, payload) ==
    /\ NewAt(o, Added(<<>>, NewRecord(mime, payload)))
    /\ UNCHANGED <<served, copied>>

\* The script lets go of an object ...
Drop(o) ==
    /\ alive
    /\ held' = held \ {o}
    /\ UNCHANGED <<alive, live, records, mimeTypes, record, conversion, works,
                   served, copied, exposed, calls>>

\* The works after object o was edited, or lost to the collector.
Disturbed(o, lost) ==
    [w \in DOMAIN works |->
        IF works[w].object # o THEN works[w]
        ELSE [works[w] EXCEPT !.fate =
                IF lost \/ works[w].stage = "writing" \/ @ = "torn" THEN "torn" ELSE "edited"]]

\* ... and the collector takes it (Destructor).  The freed memory keeps its content
\* until it is used again.
Collect(o) ==
    /\ alive
    /\ o \in live \ held
    /\ live' = live \ {o}
    /\ LET pending == \E w \in DOMAIN works : works[w].object = o
       IN  /\ exposed' = (exposed \/ pending)
           /\ records' = IF pending THEN records ELSE [records EXCEPT ![o] = <<>>]
    /\ mimeTypes' = [mimeTypes EXCEPT ![o] = MimeTypesOf(records'[o])]
    /\ works' = Disturbed(o, TRUE)
    /\ UNCHANGED <<alive, held, record, conversion, served, copied, calls>>

\* The script changes the list of object o; risky if the list then has a null record.
Edit(o, list, risky) ==
    /\ Called
    /\ o \in held
    /\ records' = [records EXCEPT ![o] = list]
    /\ mimeTypes' = [mimeTypes EXCEPT ![o] = MimeTypesOf(list)]
    /\ works' = Disturbed(o, FALSE)
    /\ exposed' = (exposed \/ risky
                     \/ \E w \in DOMAIN works : works[w].object = o /\ works[w].stage = "writing")
    /\ UNCHANGED <<alive, live, held, record, conversion, served, copied>>

\* addHtmlRecord, addTextRecord, addUriRecord
AddStringRecord(o, mime, payload) ==
    /\ mime # WantType
    /\ Edit(o, Added(records[o], NewRecord(mime, InBuffer(payload))), FALSE)

AddWantRecord(o, payload) == Edit(o, Added(records[o], NewRecord(WantType, payload)), FALSE)

\* addRecord, with the record object the script has.
AddRecord(o) ==
    /\ record # NoObject
    /\ Edit(o, Added(records[o], record), FALSE)

\* removeRecordAt; other indices, a negative one among them, are answered false.
RemoveRecordAt(o, n) ==
    /\ n \in Index(records[o])
    /\ Len(records[o]) < RecordCap
    /\ Edit(o, Removed(records[o], n), TRUE)

\* replaceRecordAt takes a record object without a record, too.
ReplaceRecordAt(o, n) ==
    /\ record # NoObject
    /\ n \in Index(records[o])
    /\ Edit(o, Replaced(records[o], n, record), record = NullRecord)

\* A getter dereferences the records of o until it finds one of a MIME type sought; one
\* that meets no null record changes nothing.
Dereference(o, sought) ==
    /\ alive
    /\ o \in held
    /\ ReadsNull(records[o], sought)
    /\ Crash

\* getPrimaryHtml, getPrimaryText, getPrimaryUri and hasMimeType; getPrimaryWant;
\* getPrimaryMimeType; getMimeTypes.
GetPrimary(o, mime) == Dereference(o, {mime})
GetPrimaryWant(o) == Dereference(o, {WantType})
GetPrimaryMimeType(o) == Dereference(o, MimeType)
GetMimeTypes(o) == Dereference(o, {})

-----------------------------------------------------------------------------
\* PasteDataRecord objects.

\* The script has another record object from now on, with the record r or none.
Obtain(r) ==
    /\ alive
    /\ record' = r
    /\ conversion' = IF conversion = "called" THEN "dropped" ELSE conversion
    /\ UNCHANGED <<alive, objects, works, served, copied, exposed, calls>>

\* createHtmlTextRecord, createPlainTextRecord, createUriRecord and createWantRecord: of
\* a text that is too long, an object without a record.
CreateRecord(mime, payload) == Obtain(NewRecord(mime, payload))

\* getRecordAt makes an object of what it finds, a record or none.
GetRecordAt(o, n) ==
    /\ o \in held
    /\ Obtain(At(records[o], n))

\* convertToText queues a work with a pointer to the object.
ConvertToText ==
    /\ Called
    /\ record # NoObject
    /\ conversion = "none"
    /\ conversion' = "called"
    /\ UNCHANGED <<alive, objects, record, works, served, copied, exposed>>

\* The collector takes the object before the work has run.
CollectRecord ==
    /\ alive
    /\ conversion = "dropped"
    /\ conversion' = "collected"
    /\ exposed' = TRUE
    /\ UNCHANGED <<alive, objects, record, works, served, copied, calls>>

\* The work runs and its promise settles, with the text or, without a record, an error.
Converted ==
    /\ alive
    /\ conversion # "none"
    /\ conversion' = "none"
    /\ UNCHANGED <<alive, objects, record, works, served, copied, exposed, calls>>

ConvertDestroyed ==
    /\ alive
    /\ conversion = "collected"
    /\ Crash

-----------------------------------------------------------------------------
\* The works of setPasteData.

\* setPasteData queues a work with a pointer to the object and returns.
SetPasteData(o) ==
    /\ Called
    /\ o \in held
    /\ Len(works) < MaxWorks
    /\ works' = Append(works,
                       [object |-> o, given |-> records[o], stage |-> "queued",
                        length |-> 0, parcel |-> <<>>, fate |-> "whole"])
    /\ UNCHANGED <<alive, objects, record, conversion, served, copied, exposed>>

InWork(w) == alive /\ w \in DOMAIN works

\* The work is taken by a pool thread.  Marshalling first writes the number of records ...
WriteLength(w) ==
    /\ InWork(w)
    /\ works[w].stage = "queued"
    /\ works' = [works EXCEPT ![w].stage = "writing", ![w].length = Len(records[works[w].object])]
    /\ UNCHANGED <<alive, objects, record, conversion, served, copied, exposed, calls>>

\* ... and then each record, a null one as such.
WriteRecord(w) ==
    /\ InWork(w)
    /\ LET list == records[works[w].object]
           next == Len(works[w].parcel) + 1
       IN  /\ works[w].stage = "writing"
           /\ next <= works[w].length
           /\ next \in DOMAIN list
           /\ works' = [works EXCEPT ![w].parcel = Append(@, list[next])]
    /\ UNCHANGED <<alive, objects, record, conversion, served, copied, exposed, calls>>

\* A list that was changed under the iterator, or freed, cannot safely be read.
ReadTorn(w) ==
    /\ InWork(w)
    /\ works[w].fate = "torn"
    /\ Crash

\* The parcel is sent, and the service replaces its copy by what it reads of it.
Serve(w) ==
    /\ InWork(w)
    /\ works[w].stage = "writing"
    /\ Len(works[w].parcel) = works[w].length
    /\ served' = ReadFromParcel(works[w].parcel)
    /\ copied' = IF works[w].fate = "whole" THEN works[w].given ELSE NoData
    /\ works' = RemoveAt(works, w)
    /\ UNCHANGED <<alive, objects, record, conversion, exposed, calls>>

\* The service marshals its copy in turn.
Pasted == IF served = NoData THEN <<>> ELSE ReadFromParcel(served)

\* The completion of getPasteData makes a new object of what the service sends.
GetPasteData(o) ==
    /\ NewAt(o, Pasted)
    /\ UNCHANGED <<served, copied>>

Clear ==
    /\ alive
    /\ served' = NoData
    /\ copied' = NoData
    /\ UNCHANGED <<alive, objects, record, conversion, works, exposed, calls>>

-----------------------------------------------------------------------------
UseData(o) ==
    \/ New(o) \/ Drop(o) \/ Collect(o)
    \/ \E in \in Input : CreateData(o, in[1], in[2]) \/ AddStringRecord(o, in[1], in[2])
    \/ \E in \in Input : in[1] = WantType /\ AddWantRecord(o, in[2])
    \/ AddRecord(o)
    \/ \E n \in Index(records[o]) : RemoveRecordAt(o, n) \/ ReplaceRecordAt(o, n)
    \/ \E mime \in MimeType : GetPrimary(o, mime)
    \/ GetPrimaryWant(o) \/ GetPrimaryMimeType(o) \/ GetMimeTypes(o)
    \/ SetPasteData(o) \/ GetPasteData(o)

UseRecord ==
    \/ \E in \in Input : CreateRecord(in[1], in[2])
    \/ \E o \in Object : \E n \in 0..Len(records[o]) : GetRecordAt(o, n)
    \/ ConvertToText \/ CollectRecord \/ Converted \/ ConvertDestroyed

Next ==
    \/ \E o \in Object : UseData(o)
    \/ UseRecord
    \/ Clear
    \/ \E w \in 1..MaxWorks : WriteLength(w) \/ WriteRecord(w) \/ ReadTorn(w) \/ Serve(w)

Spec == Init /\ [][Next]_vars

-----------------------------------------------------------------------------
\* Properties.

\* The last n elements of a list, or all of it.
LastOf(list, n) == IF Len(list) <= n THEN list ELSE SubSeq(list, Len(list) - n + 1, Len(list))

\* What is pasted is what the script had when it called setPasteData, record for record
\* and in order, without its null records, if it has neither edited the object nor lost
\* it to the collector before the call settled; of a list that is longer than the limit
\* the oldest records survive.  (AddRecord reverses the list on each of two crossings.)
PastedIsCopied ==
    copied # NoData => served # NoData /\ Pasted = LastOf(NonNull(copied), MaxRecordNum)

\* No null record reaches the service or an application that pastes, whose getters
\* dereference every record (GetMimeTypes in DunmpData, GetDataSize, GetPrimaryText).
NullsStayLocal ==
    \A list \in {served, Pasted} \ {NoData} : NonNull(list) = list

\* The process ends only after the script called removeRecordAt, put an empty record
\* object in the place of a record, or edited or lost an object while a work used it:
\* no other use of the objects makes a getter or a work meet a null or freed record.
OnlyExposedCrash == ~alive => exposed

\* "Removes a Record based on a specified index": a record that is removed is gone.
RemoveRecordRemoves ==
    [][\A o \in Object : \A n \in Index(records[o]) :
         RemoveRecordAt(o, n) => Len(records'[o]) = Len(records[o]) - 1]_vars

=============================================================================
