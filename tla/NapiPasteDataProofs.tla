------------------------- MODULE NapiPasteDataProofs -------------------------
(***************************************************************************)
(* Theorems about PasteData and NapiPasteData: what the operations on a    *)
(* list of records do with every list, what becomes of a list that is read *)
(* from parcels, that a process ends only after its script took a risk,    *)
(* and that what is pasted is what was copied.                             *)
(***************************************************************************)
EXTENDS NapiPasteData, SequenceTheorems, TLAPS

\* A record that NewRecord makes is one of Record, or there is none.
LEMMA NewRecordType ==
    ASSUME NEW mime \in MimeType, NEW payload \in Payload
    PROVE  NewRecord(mime, payload) \in Record \cup {NullRecord}
BY DEF NewRecord, Record

-----------------------------------------------------------------------------
\* PasteData::AddRecord (paste_data.cpp:63), whatever the list and however long: the record
\* becomes the first and the others follow in their order.  The list grows by one below the
\* limit and keeps its length from there on, because one record at most is dropped: a list
\* within the limit stays within it, and one that removeRecordAt has made longer stays so.
THEOREM AddGoesToFront ==
    ASSUME NEW S, NEW list \in Seq(S), NEW r \in S, r # NullRecord
    PROVE  /\ Added(list, r) \in Seq(S)
           /\ Len(Added(list, r)) = IF Len(list) < MaxRecordNum THEN Len(list) + 1 ELSE Len(list)
           /\ Added(list, r)[1] = r
           /\ \A i \in 2..Len(Added(list, r)) : Added(list, r)[i] = list[i - 1]
<1> DEFINE longer == <<r>> \o list
<1>1. <<r>> \in Seq(S) /\ Len(<<r>>) = 1 /\ <<r>>[1] = r
  OBVIOUS
<1>2. /\ longer \in Seq(S)
      /\ Len(longer) = Len(list) + 1
      /\ \A i \in 1..(Len(list) + 1) : longer[i] = IF i <= 1 THEN <<r>>[i] ELSE list[i - 1]
  <2>1. /\ longer \in Seq(S)
        /\ Len(longer) = Len(<<r>>) + Len(list)
        /\ \A i \in 1..Len(<<r>>) + Len(list) :
             longer[i] = IF i <= Len(<<r>>) THEN <<r>>[i] ELSE list[i - Len(<<r>>)]
    BY <1>1, ConcatProperties
  <2> QED BY <1>1, <2>1
<1>3. MaxRecordNum \in Nat \ {0} /\ Len(list) \in Nat
  BY MaxRecordNumAssumption, LenProperties
<1>4. Added(list, r) = IF Len(longer) > MaxRecordNum THEN Front(longer) ELSE longer
  BY DEF Added
<1>5. CASE Len(list) >= MaxRecordNum
  <2>1. Added(list, r) = SubSeq(longer, 1, Len(list))
    BY <1>2, <1>3, <1>4, <1>5 DEF Front
  <2>2. \A i \in 1..Len(list) : longer[i] \in S
    BY <1>2, <1>3, ElementOfSeq
  <2>3. /\ SubSeq(longer, 1, Len(list)) \in Seq(S)
        /\ Len(SubSeq(longer, 1, Len(list))) = Len(list)
        /\ \A i \in 1..Len(list) : SubSeq(longer, 1, Len(list))[i] = longer[i]
    <3> DEFINE n == Len(list)
    <3>1. n \in Nat \ {0}
      BY <1>3, <1>5
    <3> HIDE DEF longer, n
    <3>2. /\ SubSeq(longer, 1, n) \in Seq(S)
          /\ Len(SubSeq(longer, 1, n)) = IF 1 <= n THEN n - 1 + 1 ELSE 0
          /\ \A i \in 1..(n - 1 + 1) : SubSeq(longer, 1, n)[i] = longer[1 + i - 1]
      BY <2>2, <3>1, SubSeqProperties DEF n
    <3>3. /\ Len(SubSeq(longer, 1, n)) = n
          /\ \A i \in 1..n : SubSeq(longer, 1, n)[i] = longer[i]
      BY <3>1, <3>2
    <3> QED BY <3>2, <3>3 DEF n
  <2> HIDE DEF longer
  <2> QED BY <1>1, <1>2, <1>3, <1>5, <2>1, <2>3
<1>6. CASE Len(list) < MaxRecordNum
  <2>1. Added(list, r) = longer
    BY <1>2, <1>3, <1>4, <1>6
  <2> HIDE DEF longer
  <2> QED BY <1>1, <1>2, <1>3, <1>6, <2>1
<1> QED BY <1>3, <1>5, <1>6

\* RemoveRecordAt (paste_data.cpp:157) removes nothing from any list at any index: the
\* list is longer by one, the index holds a null record, and every record is still there.
THEOREM RemoveNeverRemoves ==
    ASSUME NEW list \in Records, NEW n \in Index(list)
    PROVE  /\ Removed(list, n) \in Records
           /\ Len(Removed(list, n)) = Len(list) + 1
           /\ At(Removed(list, n), n) = NullRecord
           /\ \A i \in DOMAIN list :
                Removed(list, n)[IF i <= n THEN i ELSE i + 1] = list[i]
<1> DEFINE S == Record \cup {NullRecord}
           before == SubSeq(list, 1, n)
           after == SubSeq(list, n + 1, Len(list))
           left == before \o <<NullRecord>>
<1>1. list \in Seq(S) /\ Len(list) \in Nat /\ n \in Nat /\ n < Len(list) /\ DOMAIN list = 1..Len(list)
  BY LenProperties DEF Records, Index
<1>2. \A i \in 1..Len(list) : list[i] \in S
  BY <1>1, ElementOfSeq
<1>3. /\ before \in Seq(S) /\ Len(before) = n
      /\ \A i \in 1..n : before[i] = list[i]
  <2>1. \A i \in 1..n : list[i] \in S
    BY <1>1, <1>2
  <2>2. /\ before \in Seq(S) /\ Len(before) = IF 1 <= n THEN n - 1 + 1 ELSE 0
        /\ \A i \in 1..(n - 1 + 1) : before[i] = list[1 + i - 1]
    BY <1>1, <2>1, SubSeqProperties
  <2> HIDE DEF before
  <2> QED BY <1>1, <2>2
<1>4. /\ after \in Seq(S) /\ Len(after) = Len(list) - n
      /\ \A i \in 1..(Len(list) - n) : after[i] = list[n + i]
  <2>1. \A i \in (n + 1)..Len(list) : list[i] \in S
    BY <1>1, <1>2
  <2>2. /\ after \in Seq(S)
        /\ Len(after) = IF n + 1 <= Len(list) THEN Len(list) - (n + 1) + 1 ELSE 0
        /\ \A i \in 1..(Len(list) - (n + 1) + 1) : after[i] = list[n + 1 + i - 1]
    BY <1>1, <2>1, SubSeqProperties
  <2> HIDE DEF after
  <2>3. Len(list) - (n + 1) + 1 = Len(list) - n /\ n + 1 <= Len(list)
    BY <1>1
  <2>4. \A i \in 1..(Len(list) - n) : n + 1 + i - 1 = n + i
    BY <1>1
  <2> QED BY <2>2, <2>3, <2>4
<1>5. <<NullRecord>> \in Seq(S) /\ Len(<<NullRecord>>) = 1 /\ <<NullRecord>>[1] = NullRecord
  OBVIOUS
<1> HIDE DEF S, before, after
<1>6. /\ left \in Seq(S) /\ Len(left) = n + 1
      /\ \A i \in 1..n : left[i] = list[i]
      /\ left[n + 1] = NullRecord
  <2>1. /\ left \in Seq(S) /\ Len(left) = Len(before) + Len(<<NullRecord>>)
        /\ \A i \in 1..Len(before) + Len(<<NullRecord>>) :
             left[i] = IF i <= Len(before) THEN before[i] ELSE <<NullRecord>>[i - Len(before)]
    BY <1>3, <1>5, ConcatProperties
  <2> HIDE DEF left
  <2>2. \A i \in 1..(n + 1) : left[i] = IF i <= n THEN before[i] ELSE <<NullRecord>>[i - n]
    BY <1>3, <1>5, <2>1
  <2>3. n + 1 - n = 1 /\ n + 1 \in 1..(n + 1)
    BY <1>1
  <2> QED BY <1>1, <1>3, <1>5, <2>1, <2>2, <2>3
<1> HIDE DEF left
<1>7. /\ left \o after \in Seq(S) /\ Len(left \o after) = Len(list) + 1
      /\ \A i \in 1..(Len(list) + 1) :
           (left \o after)[i] = IF i <= n + 1 THEN left[i] ELSE after[i - (n + 1)]
  <2>1. /\ left \o after \in Seq(S) /\ Len(left \o after) = Len(left) + Len(after)
        /\ \A i \in 1..Len(left) + Len(after) :
             (left \o after)[i] = IF i <= Len(left) THEN left[i] ELSE after[i - Len(left)]
    BY <1>4, <1>6, ConcatProperties
  <2>2. Len(left) + Len(after) = Len(list) + 1
    BY <1>1, <1>4, <1>6
  <2> QED BY <1>6, <2>1, <2>2
<1>8. Removed(list, n) = left \o after
  BY DEF Removed, left, before, after
<1>9. At(Removed(list, n), n) = NullRecord
  <2>1. n \in Index(left \o after)
    BY <1>1, <1>7 DEF Index
  <2>2. (left \o after)[n + 1] = NullRecord
    BY <1>1, <1>6, <1>7
  <2> QED BY <1>8, <2>1, <2>2 DEF At
<1>10. ASSUME NEW i \in DOMAIN list
       PROVE  (left \o after)[IF i <= n THEN i ELSE i + 1] = list[i]
  <2> HIDE DEF before, left, after
  <2>1. CASE i <= n
    BY <1>1, <1>6, <1>7, <2>1
  <2>2. CASE ~ (i <= n)
    <3>1. i - n \in 1..(Len(list) - n) /\ i + 1 - (n + 1) = i - n /\ n + (i - n) = i
      BY <1>1, <2>2
    <3> DEFINE j == i + 1
    <3>2. j \in 1..(Len(list) + 1) /\ ~ (j <= n + 1) /\ j - (n + 1) = i - n
      BY <1>1, <2>2
    <3> HIDE DEF j
    <3>3. (left \o after)[j] = IF j <= n + 1 THEN left[j] ELSE after[j - (n + 1)]
      BY <1>7, <3>2
    <3>4. (left \o after)[j] = after[i - n]
      BY <3>2, <3>3
    <3> QED BY <1>4, <2>2, <3>1, <3>4 DEF j
  <2> QED BY <2>1, <2>2
<1> QED BY <1>7, <1>8, <1>9, <1>10 DEF S, Records

\* ReplaceRecordAt (paste_data.cpp:165) changes the indexed record alone.
THEOREM ReplaceKeepsOthers ==
    ASSUME NEW list \in Records, NEW n \in Index(list), NEW r \in Record \cup {NullRecord}
    PROVE  /\ Replaced(list, n, r) \in Records
           /\ Len(Replaced(list, n, r)) = Len(list)
           /\ At(Replaced(list, n, r), n) = r
           /\ \A m \in Index(list) \ {n} : At(Replaced(list, n, r), m) = At(list, m)
<1>1. Len(list) \in Nat /\ n + 1 \in 1..Len(list) /\ \A m \in Index(list) : m + 1 \in 1..Len(list)
  BY LenProperties DEF Records, Index
<1>2. /\ Replaced(list, n, r) \in Records
      /\ Len(Replaced(list, n, r)) = Len(list)
      /\ \A j \in 1..Len(list) : Replaced(list, n, r)[j] = IF j = n + 1 THEN r ELSE list[j]
  BY <1>1, ExceptSeq DEF Records, Replaced
<1>3. \A m \in Index(list) : At(Replaced(list, n, r), m) = IF m = n THEN r ELSE list[m + 1]
  BY <1>1, <1>2 DEF At, Index
<1> QED BY <1>2, <1>3 DEF At

-----------------------------------------------------------------------------
\* The loops over a list of records are folds, and FoldTheorems has their equations.
Loop == INSTANCE FoldTheorems WITH Op <- Kept, Base <- <<>>
Parcel == INSTANCE FoldTheorems WITH Op <- ReadRecord, Base <- <<>>

\* Lists without null records.
Sound == Seq(Record)

LEMMA SoundRecords == Sound \subseteq Records
BY SeqMonotonic DEF Sound, Records

LEMMA NonNullEquations ==
    /\ NonNull(<<>>) = <<>>
    /\ \A list \in Records, r \in Record \cup {NullRecord} :
         NonNull(Append(list, r)) = Kept(NonNull(list), r)
<1>1. ASSUME NEW list
      PROVE  NonNull(list) = Loop!Fold(list)
  BY DEF NonNull, Loop!Fold, Loop!FoldLeft, Loop!MapThenFoldSet, Loop!Max,
         FoldLeft, MapThenFoldSet, Max
<1>2. Loop!Fold(<<>>) = <<>>
  BY Loop!FoldOfEmpty
<1>3. ASSUME NEW list \in Records, NEW r \in Record \cup {NullRecord}
      PROVE  Loop!Fold(Append(list, r)) = Kept(Loop!Fold(list), r)
  BY Loop!FoldOfAppend DEF Records
<1> QED BY <1>1, <1>2, <1>3

LEMMA ReadEquations ==
    /\ ReadFromParcel(<<>>) = <<>>
    /\ \A parcel \in Records, r \in Record \cup {NullRecord} :
         ReadFromParcel(Append(parcel, r)) = ReadRecord(ReadFromParcel(parcel), r)
<1>1. ASSUME NEW parcel
      PROVE  ReadFromParcel(parcel) = Parcel!Fold(parcel)
  BY DEF ReadFromParcel, Parcel!Fold, Parcel!FoldLeft, Parcel!MapThenFoldSet, Parcel!Max,
         FoldLeft, MapThenFoldSet, Max
<1>2. Parcel!Fold(<<>>) = <<>>
  BY Parcel!FoldOfEmpty
<1>3. ASSUME NEW parcel \in Records, NEW r \in Record \cup {NullRecord}
      PROVE  Parcel!Fold(Append(parcel, r)) = ReadRecord(Parcel!Fold(parcel), r)
  BY Parcel!FoldOfAppend DEF Records
<1> QED BY <1>1, <1>2, <1>3

\* A loop that skips null records finds no others.
LEMMA NonNullType ==
    ASSUME NEW list \in Records
    PROVE  NonNull(list) \in Sound /\ Len(NonNull(list)) <= Len(list)
<1> DEFINE S == Record \cup {NullRecord}
           T == {l \in Records : NonNull(l) \in Sound /\ Len(NonNull(l)) <= Len(l)}
<1>1. <<>> \in T
  <2>1. <<>> \in Seq(S) /\ <<>> \in Seq(Record) /\ Len(<<>>) = 0
    BY EmptySeq
  <2>2. NonNull(<<>>) = <<>>
    BY NonNullEquations
  <2>3. NonNull(<<>>) \in Sound /\ <<>> \in Records
    BY <2>1, <2>2 DEF Records, Sound
  <2>4. Len(NonNull(<<>>)) <= Len(<<>>)
    <3>1. Len(NonNull(<<>>)) = 0
      BY <2>1, <2>2
    <3> QED BY <2>1, <3>1
  <2> QED BY <2>3, <2>4
<1>2. ASSUME NEW l \in T, NEW r \in S
      PROVE  Append(l, r) \in T
  <2>1. /\ l \in Seq(S) /\ NonNull(l) \in Seq(Record) /\ Len(NonNull(l)) <= Len(l)
        /\ Len(l) \in Nat /\ Len(NonNull(l)) \in Nat
    BY LenProperties DEF Records, Sound
  <2>2. Append(l, r) \in Seq(S) /\ Len(Append(l, r)) = Len(l) + 1
    BY <2>1, AppendProperties
  <2>3. NonNull(Append(l, r)) = Kept(NonNull(l), r)
    BY NonNullEquations
  <2>4. CASE r = NullRecord
    BY <2>1, <2>2, <2>3, <2>4 DEF Kept, Records, Sound
  <2>5. CASE r # NullRecord
    <3>1. NonNull(Append(l, r)) = Append(NonNull(l), r) /\ r \in Record
      BY <2>3, <2>5 DEF Kept
    <3>2. Append(NonNull(l), r) \in Seq(Record) /\ Len(Append(NonNull(l), r)) = Len(NonNull(l)) + 1
      BY <2>1, <3>1, AppendProperties
    <3>3. Len(NonNull(Append(l, r))) <= Len(Append(l, r))
      BY <2>1, <2>2, <3>1, <3>2
    <3>4. NonNull(Append(l, r)) \in Sound /\ Append(l, r) \in Records
      BY <2>2, <3>1, <3>2 DEF Records, Sound
    <3> QED BY <3>3, <3>4
  <2> QED BY <2>4, <2>5
<1>3. T = Records
  <2>1. T \in SUBSET Seq(S)
    BY DEF Records
  <2> HIDE DEF T
  <2> QED BY <1>1, <1>2, <2>1, Loop!SequenceInduction DEF Records
<1> QED BY <1>3

\* A list has no null record exactly if a loop that skips them finds all of it.
LEMMA SoundIsNonNull ==
    ASSUME NEW list \in Records
    PROVE  NonNull(list) = list <=> list \in Sound
<1> DEFINE T == {l \in Sound : NonNull(l) = l}
<1>1. <<>> \in T
  BY EmptySeq, NonNullEquations DEF Sound
<1>2. ASSUME NEW l \in T, NEW r \in Record
      PROVE  Append(l, r) \in T
  <2>1. l \in Records /\ r # NullRecord
    BY SoundRecords, NullRecordAssumption DEF Record
  <2>2. NonNull(Append(l, r)) = Append(l, r)
    BY <2>1, NonNullEquations DEF Kept
  <2> QED BY <2>2, AppendProperties DEF Sound
<1>3. T = Sound
  <2>1. T \in SUBSET Seq(Record)
    BY DEF Sound
  <2> HIDE DEF T
  <2> QED BY <1>1, <1>2, <2>1, Loop!SequenceInduction DEF Sound
<1> QED BY <1>3, NonNullType

LEMMA ReverseProperties ==
    ASSUME NEW S, NEW list \in Seq(S)
    PROVE  /\ Reverse(list) \in Seq(S)
           /\ Len(Reverse(list)) = Len(list)
           /\ \A i \in 1..Len(list) : Reverse(list)[i] = list[Len(list) - i + 1]
<1>1. Len(list) \in Nat
  BY LenProperties
<1>2. \A i \in 1..Len(list) : Len(list) - i + 1 \in 1..Len(list)
  BY <1>1
<1>3. \A i \in 1..Len(list) : list[Len(list) - i + 1] \in S
  BY <1>2, ElementOfSeq
<1>4. Reverse(list) \in [1..Len(list) -> S]
  BY <1>3 DEF Reverse
<1>5. Reverse(list) \in Seq(S)
  BY <1>1, <1>4, SeqDef
<1> QED BY <1>1, <1>4, <1>5, LenProperties DEF Reverse

LEMMA ReverseTwice ==
    ASSUME NEW S, NEW list \in Seq(S)
    PROVE  Reverse(Reverse(list)) = list
<1> DEFINE back == Reverse(list)
<1>1. /\ back \in Seq(S) /\ Len(back) = Len(list) /\ Len(list) \in Nat
      /\ \A i \in 1..Len(list) : back[i] = list[Len(list) - i + 1]
  BY ReverseProperties, LenProperties
<1> HIDE DEF back
<1>2. /\ Reverse(back) \in Seq(S) /\ Len(Reverse(back)) = Len(list)
      /\ \A i \in 1..Len(list) : Reverse(back)[i] = back[Len(list) - i + 1]
  BY <1>1, ReverseProperties
<1>3. ASSUME NEW i \in 1..Len(list)
      PROVE  Reverse(back)[i] = list[i]
  <2>1. Len(list) - i + 1 \in 1..Len(list) /\ Len(list) - (Len(list) - i + 1) + 1 = i
    BY <1>1
  <2> QED BY <1>1, <1>2, <2>1
<1>4. Reverse(back) = list
  BY <1>1, <1>2, <1>3, SeqEqual
<1> QED BY <1>4 DEF back

LEMMA LastOfProperties ==
    ASSUME NEW S, NEW list \in Seq(S), NEW n \in Nat
    PROVE  /\ LastOf(list, n) \in Seq(S)
           /\ Len(LastOf(list, n)) = IF Len(list) <= n THEN Len(list) ELSE n
           /\ \A i \in 1..Len(LastOf(list, n)) :
                LastOf(list, n)[i] = list[Len(list) - Len(LastOf(list, n)) + i]
<1>1. Len(list) \in Nat
  BY LenProperties
<1>2. CASE Len(list) <= n
  <2>1. LastOf(list, n) = list
    BY <1>2 DEF LastOf
  <2>2. \A i \in 1..Len(list) : Len(list) - Len(list) + i = i
    BY <1>1
  <2> QED BY <1>2, <2>1, <2>2
<1>3. CASE ~ (Len(list) <= n)
  <2> DEFINE first == Len(list) - n + 1
             last == SubSeq(list, first, Len(list))
  <2>1. first \in Int /\ Len(list) \in Int /\ first <= Len(list) + 1 /\ 1 <= first
    BY <1>1, <1>3
  <2>2. Len(list) - first + 1 = n
    BY <1>1
  <2>3. \A i \in first..Len(list) : list[i] \in S
    <3>1. \A i \in first..Len(list) : i \in 1..Len(list)
      BY <1>1, <2>1
    <3> QED BY <3>1, ElementOfSeq
  <2>4. LastOf(list, n) = last
    BY <1>3 DEF LastOf
  <2> HIDE DEF first
  <2>5. /\ last \in Seq(S)
        /\ Len(last) = IF first <= Len(list) THEN Len(list) - first + 1 ELSE 0
        /\ \A i \in 1..(Len(list) - first + 1) : last[i] = list[first + i - 1]
    BY <2>1, <2>3, SubSeqProperties
  <2>6. \A i \in 1..n : first + i - 1 = Len(list) - n + i
    BY <1>1 DEF first
  <2>7. Len(last) = n
    BY <1>1, <2>1, <2>2, <2>5
  <2> HIDE DEF last
  <2> QED BY <1>3, <2>2, <2>4, <2>5, <2>6, <2>7
<1> QED BY <1>2, <1>3

\* A record that is added to the last ones of a list, in reverse, gives the last ones of
\* the list with the record behind it, in reverse.
LEMMA AddedToReverse ==
    ASSUME NEW list \in Sound, NEW r \in Record
    PROVE  Added(Reverse(LastOf(list, MaxRecordNum)), r)
             = Reverse(LastOf(Append(list, r), MaxRecordNum))
<1> DEFINE M == MaxRecordNum
           old == LastOf(list, M)
           back == Reverse(old)
           longer == Append(list, r)
           new == LastOf(longer, M)
           n == Len(list)
           k == Len(old)
           m == Len(new)
<1>1. M \in Nat \ {0} /\ n \in Nat /\ list \in Seq(Record) /\ r # NullRecord
  BY MaxRecordNumAssumption, LenProperties, NullRecordAssumption DEF Sound, Record
<1>2. /\ longer \in Seq(Record) /\ Len(longer) = n + 1
      /\ longer[n + 1] = r /\ \A i \in 1..n : longer[i] = list[i]
  BY <1>1, AppendProperties
<1>3. /\ old \in Seq(Record) /\ k = (IF n <= M THEN n ELSE M)
      /\ \A i \in 1..k : old[i] = list[n - k + i]
  BY <1>1, LastOfProperties
<1> HIDE DEF longer
<1>4. /\ new \in Seq(Record) /\ m = (IF n + 1 <= M THEN n + 1 ELSE M)
      /\ \A i \in 1..m : new[i] = longer[n + 1 - m + i]
  <2>1. /\ new \in Seq(Record) /\ m = (IF Len(longer) <= M THEN Len(longer) ELSE M)
        /\ \A i \in 1..m : new[i] = longer[Len(longer) - m + i]
    <3>1. longer \in Seq(Record) /\ M \in Nat
      BY <1>1, <1>2
    <3> QED BY <3>1, LastOfProperties
  <2> HIDE DEF new
  <2> QED BY <1>2, <2>1
<1> HIDE DEF old, new
<1>5. /\ back \in Seq(Record) /\ Len(back) = k
      /\ \A i \in 1..k : back[i] = old[k - i + 1]
  BY <1>3, ReverseProperties
<1>6. /\ Reverse(new) \in Seq(Record) /\ Len(Reverse(new)) = m
      /\ \A i \in 1..m : Reverse(new)[i] = new[m - i + 1]
  BY <1>4, ReverseProperties
<1> HIDE DEF back
<1>7. /\ Added(back, r) \in Seq(Record)
      /\ Len(Added(back, r)) = IF Len(back) < M THEN Len(back) + 1 ELSE Len(back)
      /\ Added(back, r)[1] = r
      /\ \A i \in 2..Len(Added(back, r)) : Added(back, r)[i] = back[i - 1]
  BY <1>1, <1>5, AddGoesToFront
<1>8. Len(Added(back, r)) = m
  BY <1>1, <1>3, <1>4, <1>5, <1>7
<1> HIDE DEF M, n, k, m
<1>9. /\ k \in Nat /\ m \in Nat \ {0} /\ m <= n + 1 /\ m - 1 <= k /\ k <= n
  BY <1>1, <1>3, <1>4
<1>10. ASSUME NEW i \in 1..m
       PROVE  Added(back, r)[i] = Reverse(new)[i]
  <2>1. m - i + 1 \in 1..m /\ n + 1 - m + (m - i + 1) = n + 2 - i
    BY <1>1, <1>9
  <2>2. Reverse(new)[i] = longer[n + 2 - i]
    BY <1>4, <1>6, <2>1
  <2>3. CASE i = 1
    <3>1. n + 2 - i = n + 1
      BY <1>1, <2>3
    <3> QED BY <1>2, <1>7, <2>2, <2>3, <3>1
  <2>4. CASE i # 1
    <3>1. i \in 2..m /\ i - 1 \in 1..k /\ n + 2 - i \in 1..n
      BY <1>1, <1>9, <2>4
    <3>2. k - (i - 1) + 1 \in 1..k /\ n - k + (k - (i - 1) + 1) = n + 2 - i
      BY <1>1, <1>9, <3>1
    <3>3. Added(back, r)[i] = back[i - 1]
      BY <1>7, <1>8, <3>1
    <3>4. back[i - 1] = old[k - (i - 1) + 1]
      BY <1>5, <3>1
    <3>5. old[k - (i - 1) + 1] = list[n + 2 - i]
      BY <1>3, <3>2
    <3> QED BY <1>2, <2>2, <3>1, <3>3, <3>4, <3>5
  <2> QED BY <2>3, <2>4
<1>11. Added(back, r) = Reverse(new)
  BY <1>6, <1>7, <1>8, <1>10, SeqEqual
<1> QED BY <1>11 DEF back, new, old, longer, M

\* A list without one of its elements has the others.
LEMMA RemovedAt ==
    ASSUME NEW S, NEW list \in Seq(S), NEW w \in DOMAIN list
    PROVE  /\ RemoveAt(list, w) \in Seq(S)
           /\ Len(RemoveAt(list, w)) = Len(list) - 1
           /\ \A i \in DOMAIN RemoveAt(list, w) :
                \E u \in DOMAIN list : RemoveAt(list, w)[i] = list[u]
<1> DEFINE n == Len(list)
           before == SubSeq(list, 1, w - 1)
           after == SubSeq(list, w + 1, n)
<1>1. n \in Nat /\ DOMAIN list = 1..n /\ w \in 1..n /\ \A i \in 1..n : list[i] \in S
  BY ElementOfSeq, LenProperties
<1>2. RemoveAt(list, w) = before \o after
  BY DEF RemoveAt
<1>3. /\ before \in Seq(S) /\ Len(before) = w - 1
      /\ \A i \in 1..(w - 1) : before[i] = list[i]
  <2>1. w - 1 \in Int /\ \A i \in 1..(w - 1) : list[i] \in S
    BY <1>1
  <2>2. /\ before \in Seq(S)
        /\ Len(before) = IF 1 <= w - 1 THEN w - 1 - 1 + 1 ELSE 0
        /\ \A i \in 1..(w - 1 - 1 + 1) : before[i] = list[1 + i - 1]
    BY <2>1, SubSeqProperties
  <2> HIDE DEF before
  <2> QED BY <1>1, <2>2
<1>4. /\ after \in Seq(S) /\ Len(after) = n - w
      /\ \A i \in 1..(n - w) : after[i] = list[w + 1 + i - 1]
  <2>1. w + 1 \in Int /\ n \in Int /\ \A i \in (w + 1)..n : list[i] \in S
    BY <1>1
  <2>2. /\ after \in Seq(S)
        /\ Len(after) = IF w + 1 <= n THEN n - (w + 1) + 1 ELSE 0
        /\ \A i \in 1..(n - (w + 1) + 1) : after[i] = list[w + 1 + i - 1]
    BY <2>1, SubSeqProperties
  <2>3. n - (w + 1) + 1 = n - w
    BY <1>1
  <2> HIDE DEF after, n
  <2> QED BY <1>1, <2>2, <2>3
<1> HIDE DEF before, after, n
<1>5. /\ before \o after \in Seq(S)
      /\ Len(before \o after) = n - 1
      /\ \A i \in 1..(n - 1) :
           (before \o after)[i] = IF i <= w - 1 THEN before[i] ELSE after[i - (w - 1)]
  <2>1. /\ before \o after \in Seq(S)
        /\ Len(before \o after) = Len(before) + Len(after)
        /\ \A i \in 1..Len(before) + Len(after) :
             (before \o after)[i] = IF i <= Len(before) THEN before[i] ELSE after[i - Len(before)]
    BY <1>3, <1>4, ConcatProperties
  <2>2. Len(before) + Len(after) = n - 1
    BY <1>1, <1>3, <1>4
  <2> QED BY <1>3, <2>1, <2>2
<1>6. ASSUME NEW i \in 1..(n - 1)
      PROVE  \E u \in 1..n : (before \o after)[i] = list[u]
  <2>1. CASE i <= w - 1
    <3>1. i \in 1..(w - 1) /\ i \in 1..n
      BY <1>1, <2>1
    <3> QED BY <1>3, <1>5, <2>1, <3>1
  <2>2. CASE ~ (i <= w - 1)
    <3>1. i - (w - 1) \in 1..(n - w) /\ w + 1 + (i - (w - 1)) - 1 = i + 1 /\ i + 1 \in 1..n
      BY <1>1, <2>2
    <3>2. after[i - (w - 1)] = list[i + 1]
      BY <1>4, <3>1
    <3> QED BY <1>5, <2>2, <3>1, <3>2
  <2> QED BY <2>1, <2>2
<1>7. DOMAIN (before \o after) = 1..(n - 1)
  BY <1>5, LenProperties
<1> QED BY <1>1, <1>2, <1>5, <1>6, <1>7 DEF n

\* ReadFromParcel (paste_data.cpp:229) reverses a parcel, of whatever length: it skips
\* the null records, and of more than the limit it keeps the last.
THEOREM ReadIsReversal ==
    ASSUME NEW parcel \in Records
    PROVE  /\ ReadFromParcel(parcel) = Reverse(LastOf(NonNull(parcel), MaxRecordNum))
           /\ ReadFromParcel(parcel) \in Sound
           /\ Len(ReadFromParcel(parcel)) <= MaxRecordNum
<1> DEFINE S == Record \cup {NullRecord}
           Read(p) == Reverse(LastOf(NonNull(p), MaxRecordNum))
           T == {p \in Records : ReadFromParcel(p) = Read(p)}
<1>1. <<>> \in T
  <2>1. <<>> \in Seq(Record) /\ <<>> \in Records /\ Len(<<>>) = 0 /\ MaxRecordNum \in Nat
    BY EmptySeq, MaxRecordNumAssumption DEF Records
  <2>2. LastOf(<<>>, MaxRecordNum) = <<>>
    BY <2>1 DEF LastOf
  <2>3. Reverse(<<>>) \in Seq(Record) /\ Len(Reverse(<<>>)) = 0
    BY <2>1, ReverseProperties
  <2>4. Reverse(<<>>) = <<>>
    BY <2>3, EmptySeq
  <2> QED BY <2>1, <2>2, <2>4, NonNullEquations, ReadEquations
<1>2. ASSUME NEW p \in T, NEW r \in S
      PROVE  Append(p, r) \in T
  <2>1. p \in Records /\ ReadFromParcel(p) = Read(p) /\ Append(p, r) \in Records
    BY AppendProperties DEF Records
  <2>2. /\ NonNull(Append(p, r)) = Kept(NonNull(p), r)
        /\ ReadFromParcel(Append(p, r)) = ReadRecord(ReadFromParcel(p), r)
    BY <2>1, NonNullEquations, ReadEquations
  <2>3. CASE r = NullRecord
    BY <2>1, <2>2, <2>3 DEF Kept, ReadRecord
  <2>4. CASE r # NullRecord
    <3>1. NonNull(p) \in Sound /\ r \in Record
      BY <2>1, <2>4, NonNullType
    <3>2. Added(Read(p), r) = Reverse(LastOf(Append(NonNull(p), r), MaxRecordNum))
      BY <3>1, AddedToReverse
    <3> QED BY <2>1, <2>2, <2>4, <3>2 DEF Kept, ReadRecord
  <2> QED BY <2>3, <2>4
<1>3. T = Records
  <2>1. T \in SUBSET Seq(S)
    BY DEF Records
  <2> HIDE DEF T
  <2> QED BY <1>1, <1>2, <2>1, Loop!SequenceInduction DEF Records
<1>4. ReadFromParcel(parcel) = Read(parcel)
  BY <1>3
<1>5. NonNull(parcel) \in Seq(Record) /\ Len(NonNull(parcel)) \in Nat /\ MaxRecordNum \in Nat
  BY NonNullType, LenProperties, MaxRecordNumAssumption DEF Sound
<1> DEFINE last == LastOf(NonNull(parcel), MaxRecordNum)
<1>6. last \in Seq(Record) /\ Len(last) <= MaxRecordNum
  BY <1>5, LastOfProperties
<1> HIDE DEF last
<1>7. Reverse(last) \in Seq(Record) /\ Len(Reverse(last)) = Len(last)
  BY <1>6, ReverseProperties
<1> QED BY <1>4, <1>6, <1>7 DEF last, Sound

\* Two crossings, to the service and on to an application, restore the order: what is
\* pasted is the list itself without its null records, and of more than the limit the
\* last, which are the ones added first.
THEOREM TwoCrossingsRestore ==
    ASSUME NEW list \in Records
    PROVE  ReadFromParcel(ReadFromParcel(list)) = LastOf(NonNull(list), MaxRecordNum)
<1> DEFINE last == LastOf(NonNull(list), MaxRecordNum)
           once == ReadFromParcel(list)
<1>1. once = Reverse(last) /\ once \in Sound /\ Len(once) <= MaxRecordNum
  BY ReadIsReversal
<1>2. last \in Seq(Record)
  BY NonNullType, LastOfProperties, MaxRecordNumAssumption DEF Sound
<1> HIDE DEF last, once
<1>3. once \in Records /\ NonNull(once) = once
  BY <1>1, SoundRecords, SoundIsNonNull
<1>4. LastOf(once, MaxRecordNum) = once
  BY <1>1 DEF LastOf
<1>5. ReadFromParcel(once) = Reverse(once)
  BY <1>3, <1>4, ReadIsReversal
<1>6. Reverse(once) = last
  BY <1>1, <1>2, ReverseTwice
<1> QED BY <1>5, <1>6 DEF last, once

-----------------------------------------------------------------------------
\* What the steps do to the objects: they make one, edit one, lose one to the collector,
\* or leave them all alone.
LEMMA ObjectSteps ==
    ASSUME [Next]_vars
    PROVE  \/ \E o \in Object : \E list : NewAt(o, list)
           \/ \E o \in Object : \E list, risky : Edit(o, list, risky)
           \/ \E o \in Object : Collect(o)
           \/ UNCHANGED <<live, records, mimeTypes>>
<1>1. CASE UNCHANGED vars
  BY <1>1 DEF vars, objects
<1>2. CASE \E o \in Object : UseData(o)
  <2>1. PICK o \in Object : UseData(o)
    BY <1>2
  <2>2. CASE New(o) \/ GetPasteData(o)
    BY <2>2 DEF New, GetPasteData
  <2>3. CASE Drop(o) \/ SetPasteData(o)
    BY <2>3 DEF Drop, SetPasteData, objects
  <2>4. CASE Collect(o)
    BY <2>4
  <2>5. CASE \E in \in Input : CreateData(o, in[1], in[2])
    BY <2>5 DEF CreateData
  <2>6. CASE \E in \in Input : AddStringRecord(o, in[1], in[2])
    BY <2>6 DEF AddStringRecord
  <2>7. CASE \E in \in Input : in[1] = WantType /\ AddWantRecord(o, in[2])
    BY <2>7 DEF AddWantRecord
  <2>8. CASE AddRecord(o)
    BY <2>8 DEF AddRecord
  <2>9. CASE \E n \in Index(records[o]) : RemoveRecordAt(o, n) \/ ReplaceRecordAt(o, n)
    BY <2>9 DEF RemoveRecordAt, ReplaceRecordAt
  <2>10. CASE \E sought : Dereference(o, sought)
    BY <2>10 DEF Dereference, Crash, objects
  <2> QED
    BY <2>1, <2>2, <2>3, <2>4, <2>5, <2>6, <2>7, <2>8, <2>9, <2>10
    DEF UseData, GetPrimary, GetPrimaryWant, GetPrimaryMimeType, GetMimeTypes
<1>3. CASE UseRecord
  BY <1>3 DEF UseRecord, CreateRecord, GetRecordAt, Obtain, ConvertToText, CollectRecord,
              Converted, ConvertDestroyed, Crash, objects
<1>4. CASE Clear
  BY <1>4 DEF Clear, objects
<1>5. CASE \E w \in 1..MaxWorks : WriteLength(w) \/ WriteRecord(w) \/ ReadTorn(w) \/ Serve(w)
  BY <1>5 DEF WriteLength, WriteRecord, ReadTorn, Serve, Crash, objects
<1> QED BY <1>1, <1>2, <1>3, <1>4, <1>5 DEF Next

-----------------------------------------------------------------------------
\* A list is in one of three forms when a step makes it; Added and NewRecord type them.
LEMMA AddedType ==
    ASSUME NEW S, NEW list \in Seq(S), NEW r \in S \cup {NullRecord}
    PROVE  Added(list, r) \in Seq(S)
<1> DEFINE longer == <<r>> \o list
<1>1. CASE r = NullRecord
  BY <1>1 DEF Added
<1>2. CASE r # NullRecord
  <2>1. longer \in Seq(S) /\ Len(longer) = 1 + Len(list)
    BY <1>2, ConcatProperties
  <2>2. Len(longer) - 1 \in Nat
    BY <2>1, LenProperties
  <2>3. \A i \in 1..(Len(longer) - 1) : longer[i] \in S
    BY <2>1, <2>2, ElementOfSeq
  <2> HIDE DEF longer
  <2>4. Front(longer) \in Seq(S)
    BY <2>2, <2>3, SubSeqProperties DEF Front
  <2> QED BY <1>2, <2>1, <2>4 DEF Added, longer
<1> QED BY <1>1, <1>2

\* While the script has not exposed itself, no list has a null record, and no work uses
\* memory that was edited or freed.
Unharmed ==
    /\ \A o \in Object : records[o] \in Sound
    /\ \A w \in DOMAIN works : works[w].fate # "torn"
    /\ conversion # "collected"

CrashInv ==
    /\ records \in [Object -> Records]
    /\ record \in Record \cup {NullRecord, NoObject}
    /\ works \in Seq(Work)
    /\ served \in Sound \cup {NoData}
    /\ ~ exposed => Unharmed
    /\ OnlyExposedCrash

\* Disturbed changes the fate of works only.
LEMMA DisturbedFields ==
    ASSUME works \in Seq(Work), NEW o, NEW lost \in BOOLEAN
    PROVE  /\ Disturbed(o, lost) \in Seq(Work)
           /\ Len(Disturbed(o, lost)) = Len(works)
           /\ \A w \in DOMAIN Disturbed(o, lost) :
                /\ w \in DOMAIN works
                /\ works[w].object # o => Disturbed(o, lost)[w] = works[w]
                /\ works[w].object = o =>
                     \E fate \in {"edited", "torn"} :
                       /\ Disturbed(o, lost)[w] = [works[w] EXCEPT !.fate = fate]
                       /\ lost \/ works[w].fate = "torn" => fate = "torn"
                /\ Disturbed(o, lost)[w].fate = "torn" =>
                     \/ works[w].fate = "torn"
                     \/ works[w].object = o /\ (lost \/ works[w].stage = "writing")
<1>1. \A w \in DOMAIN works : works[w] \in Work
  BY ElementOfSeq, LenProperties
<1>2. DOMAIN works = 1..Len(works) /\ Len(works) \in Nat
  BY LenProperties
<1>3. DOMAIN Disturbed(o, lost) = 1..Len(works)
  BY <1>2 DEF Disturbed
<1>4. ASSUME NEW w \in DOMAIN works
      PROVE  /\ Disturbed(o, lost)[w] \in Work
             /\ works[w].object # o => Disturbed(o, lost)[w] = works[w]
             /\ works[w].object = o =>
                  \E fate \in {"edited", "torn"} :
                    /\ Disturbed(o, lost)[w] = [works[w] EXCEPT !.fate = fate]
                    /\ lost \/ works[w].fate = "torn" => fate = "torn"
             /\ Disturbed(o, lost)[w].fate = "torn" =>
                  \/ works[w].fate = "torn"
                  \/ works[w].object = o /\ (lost \/ works[w].stage = "writing")
  <2>1. works[w] \in Work
    BY <1>1
  <2> DEFINE fate == IF lost \/ works[w].stage = "writing" \/ works[w].fate = "torn"
                     THEN "torn" ELSE "edited"
  <2>2. Disturbed(o, lost)[w] =
          IF works[w].object # o THEN works[w] ELSE [works[w] EXCEPT !.fate = fate]
    BY DEF Disturbed
  <2>3. /\ fate \in {"whole", "edited", "torn"} /\ fate \in {"edited", "torn"}
        /\ (lost \/ works[w].fate = "torn" => fate = "torn")
    OBVIOUS
  <2>4. [works[w] EXCEPT !.fate = fate] \in Work /\ [works[w] EXCEPT !.fate = fate].fate = fate
    <3> HIDE DEF fate
    <3> QED BY <2>1, <2>3 DEF Work
  <2>5. \/ works[w].object # o /\ Disturbed(o, lost)[w] = works[w]
        \/ works[w].object = o /\ Disturbed(o, lost)[w] = [works[w] EXCEPT !.fate = fate]
    BY <2>2
  <2>6. fate = "torn" => lost \/ works[w].stage = "writing" \/ works[w].fate = "torn"
    OBVIOUS
  <2> HIDE DEF fate
  <2> QED BY <2>1, <2>3, <2>4, <2>5, <2>6
<1>5. Disturbed(o, lost) \in [1..Len(works) -> Work]
  BY <1>2, <1>3, <1>4 DEF Disturbed
<1>6. Disturbed(o, lost) \in Seq(Work)
  BY <1>2, <1>5, SeqDef
<1>7. Len(Disturbed(o, lost)) = Len(works)
  BY <1>2, <1>3, <1>6, LenProperties
<1> QED BY <1>2, <1>3, <1>4, <1>6, <1>7

LEMMA DisturbedWorks ==
    ASSUME works \in Seq(Work), NEW o, NEW lost \in BOOLEAN
    PROVE  /\ Disturbed(o, lost) \in Seq(Work)
           /\ \A w \in DOMAIN Disturbed(o, lost) :
                /\ w \in DOMAIN works
                /\ Disturbed(o, lost)[w].fate = "torn" =>
                     \/ works[w].fate = "torn"
                     \/ works[w].object = o /\ (lost \/ works[w].stage = "writing")
<1>1. Disturbed(o, lost) \in Seq(Work)
  BY DisturbedFields
<1>2. ASSUME NEW w \in DOMAIN Disturbed(o, lost)
      PROVE  /\ w \in DOMAIN works
             /\ Disturbed(o, lost)[w].fate = "torn" =>
                  \/ works[w].fate = "torn"
                  \/ works[w].object = o /\ (lost \/ works[w].stage = "writing")
  BY DisturbedFields
<1> QED BY <1>1, <1>2

LEMMA CrashInvInit == Init => CrashInv
<1> SUFFICES ASSUME Init PROVE CrashInv
  OBVIOUS
<1>1. <<>> \in Records /\ <<>> \in Sound /\ <<>> \in Seq(Work)
  BY EmptySeq DEF Records, Sound
<1>2. DOMAIN works = {}
  BY DEF Init
<1> QED BY <1>1, <1>2 DEF Init, CrashInv, Unharmed, OnlyExposedCrash

\* A new object has a sound list.
LEMMA NewAtKeeps ==
    ASSUME CrashInv, NEW o \in Object, NEW list \in Sound, NewAt(o, list),
           served' \in Sound \cup {NoData}
    PROVE  CrashInv'
<1>1. list \in Records
  BY SoundRecords
<1> QED BY <1>1 DEF CrashInv, Unharmed, OnlyExposedCrash, NewAt, Called

\* An edit whose list is sound whenever the old one is, or that is risky.
LEMMA EditKeeps ==
    ASSUME CrashInv, NEW o \in Object, NEW list \in Records, NEW risky \in BOOLEAN,
           records[o] \in Sound /\ ~ risky => list \in Sound,
           Edit(o, list, risky)
    PROVE  CrashInv'
<1>1. works \in Seq(Work) /\ works' = Disturbed(o, FALSE)
  BY DEF Edit, CrashInv
<1>2. /\ works' \in Seq(Work)
      /\ \A w \in DOMAIN works' :
           /\ w \in DOMAIN works
           /\ works'[w].fate = "torn" =>
                \/ works[w].fate = "torn"
                \/ works[w].object = o /\ works[w].stage = "writing"
  <2>1. /\ Disturbed(o, FALSE) \in Seq(Work)
        /\ \A w \in DOMAIN Disturbed(o, FALSE) :
             /\ w \in DOMAIN works
             /\ Disturbed(o, FALSE)[w].fate = "torn" =>
                  \/ works[w].fate = "torn"
                  \/ works[w].object = o /\ (FALSE \/ works[w].stage = "writing")
    BY <1>1, DisturbedWorks
  <2> QED BY <1>1, <2>1
<1>3. records' \in [Object -> Records]
  BY DEF Edit, CrashInv
<1>4. ASSUME ~ exposed'
      PROVE  Unharmed'
  <2>1. /\ Unharmed /\ ~ risky
        /\ ~ \E w \in DOMAIN works : works[w].object = o /\ works[w].stage = "writing"
    BY <1>4 DEF Edit, CrashInv
  <2>2. \A p \in Object : records'[p] \in Sound
    BY <2>1 DEF Edit, CrashInv, Unharmed
  <2>3. \A w \in DOMAIN works' : works'[w].fate # "torn"
    BY <1>2, <2>1 DEF Unharmed
  <2>4. conversion' # "collected"
    BY <2>1 DEF Unharmed, Edit
  <2> QED BY <2>2, <2>3, <2>4 DEF Unharmed
<1>5. alive' = TRUE /\ UNCHANGED <<record, served>>
  BY DEF Edit, Called
<1> QED BY <1>2, <1>3, <1>4, <1>5 DEF CrashInv, OnlyExposedCrash

\* Collecting an object tears the works that use it, which exposes the script.
LEMMA CollectKeeps ==
    ASSUME CrashInv, NEW o \in Object, Collect(o)
    PROVE  CrashInv'
<1> DEFINE pending == \E w \in DOMAIN works : works[w].object = o
<1>1. /\ works \in Seq(Work) /\ works' = Disturbed(o, TRUE)
      /\ exposed' = (exposed \/ pending)
      /\ records' = IF pending THEN records ELSE [records EXCEPT ![o] = <<>>]
      /\ UNCHANGED <<alive, record, conversion, served>>
      /\ alive
  BY DEF Collect, CrashInv
<1>2. /\ works' \in Seq(Work)
      /\ \A w \in DOMAIN works' :
           /\ w \in DOMAIN works
           /\ works'[w].fate = "torn" => works[w].fate = "torn" \/ works[w].object = o
  BY <1>1, DisturbedWorks
<1>3. <<>> \in Records /\ <<>> \in Sound
  BY EmptySeq DEF Records, Sound
<1> HIDE DEF pending
<1>4. records' \in [Object -> Records]
  BY <1>1, <1>3 DEF CrashInv
<1>5. ASSUME ~ exposed'
      PROVE  Unharmed'
  <2>1. Unharmed /\ ~ pending
    BY <1>1, <1>5 DEF CrashInv
  <2>2. \A p \in Object : records'[p] \in Sound
    BY <1>1, <1>3, <2>1 DEF Unharmed, CrashInv
  <2>3. \A w \in DOMAIN works' : works'[w].fate # "torn"
    BY <1>2, <2>1 DEF Unharmed, pending
  <2> QED BY <1>1, <2>1, <2>2, <2>3 DEF Unharmed
<1> QED BY <1>1, <1>2, <1>4, <1>5 DEF CrashInv, OnlyExposedCrash

\* A crash needs what Unharmed excludes.
LEMMA CrashKeeps ==
    ASSUME CrashInv, Crash, ~ Unharmed
    PROVE  CrashInv'
BY DEF CrashInv, Crash, objects, Unharmed, OnlyExposedCrash

LEMMA DereferenceKeeps ==
    ASSUME CrashInv, NEW o \in Object, NEW sought, Dereference(o, sought)
    PROVE  CrashInv'
<1>1. PICK i \in DOMAIN records[o] : records[o][i] = NullRecord
  BY DEF Dereference, ReadsNull
<1>2. NullRecord \notin Record
  BY NullRecordAssumption DEF Record
<1>3. records[o] \notin Sound
  BY <1>1, <1>2, ElementOfSeq, LenProperties DEF Sound
<1> QED BY <1>3, CrashKeeps DEF Dereference, Unharmed

\* The lists the script makes by editing.
LEMMA ScriptEdits ==
    ASSUME CrashInv, NEW o \in Object,
           \/ \E in \in Input : AddStringRecord(o, in[1], in[2])
           \/ \E in \in Input : in[1] = WantType /\ AddWantRecord(o, in[2])
           \/ AddRecord(o)
           \/ \E n \in Index(records[o]) : RemoveRecordAt(o, n) \/ ReplaceRecordAt(o, n)
    PROVE  CrashInv'
<1>1. records[o] \in Records /\ record \in Record \cup {NullRecord, NoObject}
  BY DEF CrashInv
<1>2. ASSUME NEW r \in Record \cup {NullRecord}, Edit(o, Added(records[o], r), FALSE)
      PROVE  CrashInv'
  <2>1. Added(records[o], r) \in Records
    BY <1>1, AddedType DEF Records
  <2>2. records[o] \in Sound => Added(records[o], r) \in Sound
    BY AddedType DEF Sound
  <2> QED BY <1>2, <2>1, <2>2, EditKeeps
<1>3. CASE \E in \in Input : AddStringRecord(o, in[1], in[2])
  <2>1. PICK in \in Input : AddStringRecord(o, in[1], in[2])
    BY <1>3
  <2>2. in[1] \in MimeType /\ InBuffer(in[2]) \in Payload
    BY PayloadAssumption DEF InBuffer
  <2> QED BY <1>2, <2>1, <2>2, NewRecordType DEF AddStringRecord
<1>4. CASE \E in \in Input : in[1] = WantType /\ AddWantRecord(o, in[2])
  <2>1. PICK in \in Input : in[1] = WantType /\ AddWantRecord(o, in[2])
    BY <1>4
  <2>2. WantType \in MimeType /\ in[2] \in Payload
    BY <2>1, PayloadAssumption
  <2> QED BY <1>2, <2>1, <2>2, NewRecordType DEF AddWantRecord
<1>5. CASE AddRecord(o)
  BY <1>1, <1>2, <1>5 DEF AddRecord
<1>6. CASE \E n \in Index(records[o]) : RemoveRecordAt(o, n)
  BY <1>1, <1>6, RemoveNeverRemoves, EditKeeps DEF RemoveRecordAt
<1>7. CASE \E n \in Index(records[o]) : ReplaceRecordAt(o, n)
  <2>1. PICK n \in Index(records[o]) : ReplaceRecordAt(o, n)
    BY <1>7
  <2>2. record \in Record \cup {NullRecord}
    BY <1>1, <2>1 DEF ReplaceRecordAt
  <2>3. Replaced(records[o], n, record) \in Records
    BY <1>1, <2>2, ReplaceKeepsOthers
  <2>4. ASSUME records[o] \in Sound, record # NullRecord
        PROVE  Replaced(records[o], n, record) \in Sound
    <3>1. n + 1 \in 1..Len(records[o])
      BY <1>1, <2>1, LenProperties DEF Records, Index
    <3> QED BY <2>2, <2>4, <3>1, ExceptSeq DEF Sound, Replaced
  <2> QED BY <2>1, <2>3, <2>4, EditKeeps DEF ReplaceRecordAt
<1> QED BY <1>3, <1>4, <1>5, <1>6, <1>7

\* What marshalling does to its own work, and to no other.
LEMMA WorkWrites ==
    ASSUME CrashInv, NEW w \in DOMAIN works, WriteLength(w) \/ WriteRecord(w)
    PROVE  /\ works' \in Seq(Work) /\ Len(works') = Len(works)
           /\ \A v \in DOMAIN works' : v \in DOMAIN works /\ (v # w => works'[v] = works[v])
           /\ WriteLength(w) =>
                works'[w] = [works[w] EXCEPT !.stage = "writing",
                                             !.length = Len(records[works[w].object])]
           /\ WriteRecord(w) =>
                works'[w] = [works[w] EXCEPT !.parcel =
                              Append(works[w].parcel,
                                     records[works[w].object][Len(works[w].parcel) + 1])]
<1>1. works \in Seq(Work) /\ DOMAIN works = 1..Len(works) /\ works[w] \in Work
  BY ElementOfSeq, LenProperties DEF CrashInv
<1>2. ASSUME NEW work \in Work, works' = [works EXCEPT ![w] = work]
      PROVE  /\ works' \in Seq(Work) /\ Len(works') = Len(works)
             /\ \A v \in DOMAIN works' : v \in DOMAIN works /\ (v # w => works'[v] = works[v])
             /\ works'[w] = work
  BY <1>1, <1>2, ExceptSeq, LenProperties
<1>3. CASE WriteLength(w)
  <2>1. Len(records[works[w].object]) \in Nat
    BY <1>1, LenProperties DEF CrashInv, Records, Work
  <2> DEFINE work == [works[w] EXCEPT !.stage = "writing", !.length = Len(records[works[w].object])]
  <2>2. work \in Work
    BY <1>1, <2>1 DEF Work
  <2>3. works' = [works EXCEPT ![w] = work]
    BY <1>1, <1>3 DEF WriteLength, Work
  <2>4. ~ WriteRecord(w)
    BY <1>3 DEF WriteLength, WriteRecord
  <2> HIDE DEF work
  <2>5. /\ works' \in Seq(Work) /\ Len(works') = Len(works)
        /\ \A v \in DOMAIN works' : v \in DOMAIN works /\ (v # w => works'[v] = works[v])
        /\ works'[w] = work
    BY <1>2, <2>2, <2>3
  <2> QED BY <2>4, <2>5 DEF work
<1>4. CASE WriteRecord(w)
  <2> DEFINE list == records[works[w].object]
             next == Len(works[w].parcel) + 1
             work == [works[w] EXCEPT !.parcel = Append(works[w].parcel, list[next])]
  <2>1. list \in Records /\ works[w].parcel \in Records
    BY <1>1 DEF CrashInv, Work
  <2>2. next \in DOMAIN list /\ works' = [works EXCEPT ![w] = work]
    BY <1>1, <1>4 DEF WriteRecord, Work
  <2>3. list[next] \in Record \cup {NullRecord}
    BY <2>1, <2>2, ElementOfSeq, LenProperties DEF Records
  <2>4. Append(works[w].parcel, list[next]) \in Records
    <3> HIDE DEF list, next
    <3> QED BY <2>1, <2>3, AppendProperties DEF Records
  <2>5. work \in Work
    <3> HIDE DEF list, next
    <3> QED BY <1>1, <2>4 DEF Work
  <2>6. ~ WriteLength(w)
    BY <1>4 DEF WriteLength, WriteRecord
  <2> HIDE DEF work
  <2>7. /\ works' \in Seq(Work) /\ Len(works') = Len(works)
        /\ \A v \in DOMAIN works' : v \in DOMAIN works /\ (v # w => works'[v] = works[v])
        /\ works'[w] = work
    BY <1>2, <2>2, <2>5
  <2> QED BY <2>6, <2>7 DEF work
<1> QED BY <1>3, <1>4

\* A work is written or leaves; the others stay as they are.
LEMMA WorkSteps ==
    ASSUME CrashInv, NEW w \in DOMAIN works,
           \/ WriteLength(w) \/ WriteRecord(w) \/ Serve(w)
    PROVE  /\ works' \in Seq(Work)
           /\ \A v \in DOMAIN works' :
                \E u \in DOMAIN works : works'[v].fate = works[u].fate
<1>1. works \in Seq(Work) /\ \A u \in DOMAIN works : works[u] \in Work
  BY ElementOfSeq, LenProperties DEF CrashInv
<1>2. CASE WriteLength(w) \/ WriteRecord(w)
  <2>1. /\ works' \in Seq(Work)
        /\ \A v \in DOMAIN works' : v \in DOMAIN works /\ (v # w => works'[v] = works[v])
    BY <1>2, WorkWrites
  <2>2. works'[w].fate = works[w].fate
    <3>1. CASE WriteLength(w)
      BY <1>1, <3>1, WorkWrites DEF Work
    <3>2. CASE WriteRecord(w)
      <4> DEFINE parcel == Append(works[w].parcel,
                                  records[works[w].object][Len(works[w].parcel) + 1])
      <4>1. works'[w] = [works[w] EXCEPT !.parcel = parcel]
        BY <3>2, WorkWrites
      <4> HIDE DEF parcel
      <4> QED BY <1>1, <4>1 DEF Work
    <3> QED BY <1>2, <3>1, <3>2
  <2>3. ASSUME NEW v \in DOMAIN works'
        PROVE  works'[v].fate = works[v].fate /\ v \in DOMAIN works
    BY <2>1, <2>2
  <2> QED BY <2>1, <2>3
<1>3. CASE Serve(w)
  <2>1. works' = RemoveAt(works, w)
    BY <1>3 DEF Serve
  <2>2. /\ works' \in Seq(Work)
        /\ \A v \in DOMAIN works' : \E u \in DOMAIN works : works'[v] = works[u]
    BY <1>1, <2>1, RemovedAt
  <2> QED BY <2>2
<1> QED BY <1>2, <1>3

LEMMA CrashInvNext ==
    ASSUME CrashInv, [Next]_vars
    PROVE  CrashInv'
<1>1. CASE UNCHANGED vars
  BY <1>1 DEF vars, objects, CrashInv, Unharmed, OnlyExposedCrash
<1>2. CASE \E o \in Object : UseData(o)
  <2>1. PICK o \in Object : UseData(o)
    BY <1>2
  <2>2. <<>> \in Sound /\ <<>> \in Records
    BY EmptySeq DEF Sound, Records
  <2>3. CASE New(o)
    BY <2>2, <2>3, NewAtKeeps DEF New, CrashInv
  <2>4. CASE \E in \in Input : CreateData(o, in[1], in[2])
    <3>1. PICK in \in Input : CreateData(o, in[1], in[2])
      BY <2>4
    <3>2. NewRecord(in[1], in[2]) \in Record \cup {NullRecord}
      BY PayloadAssumption, NewRecordType
    <3>3. Added(<<>>, NewRecord(in[1], in[2])) \in Sound
      BY <2>2, <3>2, AddedType DEF Sound
    <3> QED BY <3>1, <3>3, NewAtKeeps DEF CreateData, CrashInv
  <2>5. CASE GetPasteData(o)
    <3>1. Pasted \in Sound
      BY <2>2, SoundRecords, ReadIsReversal DEF Pasted, CrashInv
    <3> QED BY <2>5, <3>1, NewAtKeeps DEF GetPasteData, CrashInv
  <2>6. CASE Drop(o)
    BY <2>6 DEF Drop, CrashInv, Unharmed, OnlyExposedCrash
  <2>7. CASE Collect(o)
    BY <2>7, CollectKeeps
  <2>8. CASE SetPasteData(o)
    <3> DEFINE work == [object |-> o, given |-> records[o], stage |-> "queued",
                        length |-> 0, parcel |-> <<>>, fate |-> "whole"]
    <3>1. work \in Work /\ work.fate = "whole"
      BY <2>2 DEF Work, CrashInv
    <3>2. works' = Append(works, work) /\ UNCHANGED <<alive, objects, record, conversion, served, exposed>>
      BY <2>8 DEF SetPasteData
    <3> HIDE DEF work
    <3>3. /\ works' \in Seq(Work)
          /\ \A w \in DOMAIN works' : works'[w] = work \/ (w \in DOMAIN works /\ works'[w] = works[w])
      BY <3>1, <3>2, AppendProperties, LenProperties DEF CrashInv
    <3> QED BY <3>1, <3>2, <3>3 DEF CrashInv, Unharmed, OnlyExposedCrash, objects
  <2>9. CASE \E sought : Dereference(o, sought)
    BY <2>9, DereferenceKeeps
  <2>10. CASE \/ \E in \in Input : AddStringRecord(o, in[1], in[2])
              \/ \E in \in Input : in[1] = WantType /\ AddWantRecord(o, in[2])
              \/ AddRecord(o)
              \/ \E n \in Index(records[o]) : RemoveRecordAt(o, n) \/ ReplaceRecordAt(o, n)
    BY <2>10, ScriptEdits
  <2> QED
    BY <2>1, <2>3, <2>4, <2>5, <2>6, <2>7, <2>8, <2>9, <2>10
    DEF UseData, GetPrimary, GetPrimaryWant, GetPrimaryMimeType, GetMimeTypes
<1>3. CASE UseRecord
  <2>1. ASSUME NEW r \in Record \cup {NullRecord}, Obtain(r)
        PROVE  CrashInv'
    BY <2>1 DEF Obtain, CrashInv, Unharmed, OnlyExposedCrash, objects
  <2>2. CASE \E in \in Input : CreateRecord(in[1], in[2])
    BY <2>1, <2>2, NewRecordType, PayloadAssumption DEF CreateRecord
  <2>3. CASE \E o \in Object : \E n \in 0..Len(records[o]) : GetRecordAt(o, n)
    <3>1. PICK o \in Object, n \in Nat : Obtain(At(records[o], n))
      BY <2>3, LenProperties DEF GetRecordAt, CrashInv, Records
    <3>2. At(records[o], n) \in Record \cup {NullRecord}
      BY ElementOfSeq, LenProperties DEF At, Index, CrashInv, Records
    <3> QED BY <2>1, <3>1, <3>2
  <2>4. CASE ConvertToText
    BY <2>4 DEF ConvertToText, Called, CrashInv, Unharmed, OnlyExposedCrash, objects
  <2>5. CASE CollectRecord
    BY <2>5 DEF CollectRecord, CrashInv, Unharmed, OnlyExposedCrash, objects
  <2>6. CASE Converted
    BY <2>6 DEF Converted, CrashInv, Unharmed, OnlyExposedCrash, objects
  <2>7. CASE ConvertDestroyed
    BY <2>7, CrashKeeps DEF ConvertDestroyed, Unharmed
  <2> QED BY <1>3, <2>2, <2>3, <2>4, <2>5, <2>6, <2>7 DEF UseRecord
<1>4. CASE Clear
  BY <1>4 DEF Clear, CrashInv, Unharmed, OnlyExposedCrash, objects
<1>5. CASE \E w \in 1..MaxWorks : WriteLength(w) \/ WriteRecord(w) \/ ReadTorn(w) \/ Serve(w)
  <2>1. PICK w \in 1..MaxWorks : WriteLength(w) \/ WriteRecord(w) \/ ReadTorn(w) \/ Serve(w)
    BY <1>5
  <2>2. w \in DOMAIN works
    BY <2>1 DEF WriteLength, WriteRecord, ReadTorn, Serve, InWork
  <2>3. CASE WriteLength(w) \/ WriteRecord(w) \/ Serve(w)
    <3>1. /\ works' \in Seq(Work)
          /\ \A v \in DOMAIN works' :
               \E u \in DOMAIN works : works'[v].fate = works[u].fate
      BY <2>2, <2>3, WorkSteps
    <3>2. UNCHANGED <<alive, objects, record, conversion, exposed>>
      BY <2>3 DEF WriteLength, WriteRecord, Serve
    <3>3. served' \in Sound \cup {NoData}
      <4>1. works[w].parcel \in Records
        <5>1. works[w] \in Work
          BY <2>2, ElementOfSeq, LenProperties DEF CrashInv
        <5> QED BY <5>1 DEF Work
      <4> QED BY <2>3, <4>1, ReadIsReversal DEF WriteLength, WriteRecord, Serve, CrashInv
    <3> QED BY <3>1, <3>2, <3>3 DEF CrashInv, Unharmed, OnlyExposedCrash, objects
  <2>4. CASE ReadTorn(w)
    BY <2>2, <2>4, CrashKeeps DEF ReadTorn, Unharmed
  <2> QED BY <2>1, <2>3, <2>4
<1> QED BY <1>1, <1>2, <1>3, <1>4, <1>5 DEF Next

\* A process that ends was exposed by its script: by removeRecordAt, by an empty record
\* object in the place of a record, or by an object edited or lost while a work used it;
\* for any number of objects, works and records.
THEOREM CrashNeedsExposure == Spec => []OnlyExposedCrash
<1>1. CrashInv /\ [Next]_vars => CrashInv'
  BY CrashInvNext
<1>2. CrashInv => OnlyExposedCrash
  BY DEF CrashInv
<1> QED BY CrashInvInit, <1>1, <1>2, PTL DEF Spec

\* What the service keeps and what it sends to an application that pastes has no null
\* record, whatever the script has put into its own objects.
THEOREM NullsNeverTravel == Spec => []NullsStayLocal
<1>1. CrashInv /\ [Next]_vars => CrashInv'
  BY CrashInvNext
<1>2. CrashInv => NullsStayLocal
  <2> SUFFICES ASSUME CrashInv, NEW list \in {served, Pasted} \ {NoData}
               PROVE  NonNull(list) = list
    BY DEF NullsStayLocal
  <2>1. served \in Sound \cup {NoData} /\ Sound \subseteq Records /\ <<>> \in Sound
    BY SoundRecords, EmptySeq DEF CrashInv, Sound
  <2>2. Pasted \in Sound
    BY <2>1, ReadIsReversal DEF Pasted
  <2>3. list \in Sound
    BY <2>1, <2>2
  <2> QED BY <2>1, <2>3, SoundIsNonNull
<1> QED BY CrashInvInit, <1>1, <1>2, PTL DEF Spec

-----------------------------------------------------------------------------
\* A work of an object that nobody disturbed has copied, of the list the script gave it,
\* as many records as it has written.
WorkOK(work) ==
    /\ Len(work.parcel) <= work.length
    /\ work.stage = "queued" => work.parcel = <<>>
    /\ work.fate # "torn" => work.object \in live
    /\ work.fate = "whole" =>
         /\ work.given = records[work.object]
         /\ work.stage = "writing" =>
              work.length = Len(work.given) /\ work.parcel = SubSeq(work.given, 1, Len(work.parcel))

PasteInv ==
    /\ held \subseteq live
    /\ \A w \in DOMAIN works : WorkOK(works[w])
    /\ copied # NoData => copied \in Records /\ served = ReadFromParcel(copied)

LEMMA WorkFields ==
    ASSUME CrashInv, NEW w \in DOMAIN works
    PROVE  /\ works[w] \in Work
           /\ works[w].parcel \in Records /\ Len(works[w].parcel) \in Nat
           /\ works[w].given \in Records /\ Len(works[w].given) \in Nat
           /\ works[w].object \in Object /\ records[works[w].object] \in Records
<1>1. works[w] \in Work
  BY ElementOfSeq, LenProperties DEF CrashInv
<1>2. /\ works[w].parcel \in Records /\ works[w].given \in Records
      /\ works[w].object \in Object /\ records[works[w].object] \in Records
  BY <1>1 DEF Work, CrashInv
<1> QED BY <1>1, <1>2, LenProperties DEF Records

\* A step that leaves the works alone, and what they use.
LEMMA WorksUntouched ==
    ASSUME CrashInv, PasteInv, works' = works, live \subseteq live',
           \A o \in live : records'[o] = records[o]
    PROVE  \A w \in DOMAIN works' : WorkOK(works[w])'
<1> SUFFICES ASSUME NEW w \in DOMAIN works
             PROVE  WorkOK(works[w])'
  OBVIOUS
<1>1. WorkOK(works[w])
  BY DEF PasteInv
<1> DEFINE work == works[w]
<1>2. work' = work
  OBVIOUS
<1>3. work.fate # "torn" => work.object \in live' /\ records'[work.object] = records[work.object]
  BY <1>1 DEF WorkOK
<1> HIDE DEF work
<1>4. WorkOK(work)
  BY <1>1 DEF work
<1>5. WorkOK(work)'
  BY <1>2, <1>3, <1>4 DEF WorkOK
<1> QED BY <1>5 DEF work

\* A step that disturbs the works of one object.
LEMMA WorksDisturbed ==
    ASSUME CrashInv, PasteInv, NEW o \in Object, NEW lost \in BOOLEAN,
           works' = Disturbed(o, lost),
           live' = IF lost THEN live \ {o} ELSE live,
           \A p \in Object \ {o} : records'[p] = records[p]
    PROVE  \A w \in DOMAIN works' : WorkOK(works[w])'
<1> SUFFICES ASSUME NEW w \in DOMAIN works'
             PROVE  WorkOK(works[w])'
  OBVIOUS
<1>1. /\ w \in DOMAIN works
      /\ works[w].object # o => works'[w] = works[w]
      /\ works[w].object = o =>
           \E fate \in {"edited", "torn"} :
             /\ works'[w] = [works[w] EXCEPT !.fate = fate]
             /\ lost \/ works[w].fate = "torn" => fate = "torn"
  BY DisturbedFields DEF CrashInv
<1>2. WorkOK(works[w]) /\ works[w] \in Work /\ works[w].object \in Object
  BY <1>1, WorkFields DEF PasteInv
<1> DEFINE old == works[w]
           new == works'[w]
<1>3. CASE old.object # o
  <2>1. new = old /\ records'[old.object] = records[old.object]
    BY <1>1, <1>2, <1>3
  <2>2. old.object \in live => old.object \in live'
    BY <1>3
  <2>3. WorkOK(old)
    BY <1>2
  <2> HIDE DEF old
  <2>4. /\ Len(new.parcel) <= new.length
        /\ new.stage = "queued" => new.parcel = <<>>
        /\ new.fate # "torn" => new.object \in live'
        /\ new.fate = "whole" =>
             /\ new.given = records'[new.object]
             /\ new.stage = "writing" =>
                  new.length = Len(new.given) /\ new.parcel = SubSeq(new.given, 1, Len(new.parcel))
    <3> HIDE DEF new
    <3> QED BY <2>1, <2>2, <2>3 DEF WorkOK
  <2> QED BY <2>4 DEF WorkOK
<1>4. CASE old.object = o
  <2>1. PICK fate \in {"edited", "torn"} :
          /\ new = [old EXCEPT !.fate = fate]
          /\ lost \/ old.fate = "torn" => fate = "torn"
    BY <1>1, <1>4
  <2>2. WorkOK(old) /\ old \in Work
    BY <1>2
  <2> HIDE DEF old, new
  <2>3. /\ new.parcel = old.parcel /\ new.length = old.length /\ new.stage = old.stage
        /\ new.object = o /\ new.fate = fate
    BY <1>4, <2>1, <2>2 DEF Work
  <2>4. new.fate # "torn" => new.object \in live'
    <3> SUFFICES ASSUME fate # "torn" PROVE o \in live'
      BY <2>3
    <3>1. old.fate # "torn" /\ live' = live
      BY <2>1
    <3> QED BY <1>4, <2>2, <3>1 DEF WorkOK
  <2>5. /\ Len(new.parcel) <= new.length
        /\ new.stage = "queued" => new.parcel = <<>>
    BY <2>2, <2>3 DEF WorkOK
  <2> QED BY <2>3, <2>4, <2>5 DEF WorkOK, new
<1> QED BY <1>3, <1>4

\* setPasteData queues a work of an object the script holds, with its records.
LEMMA QueueKeeps ==
    ASSUME CrashInv, PasteInv, NEW o \in Object, SetPasteData(o)
    PROVE  PasteInv'
<1> DEFINE work == [object |-> o, given |-> records[o], stage |-> "queued",
                    length |-> 0, parcel |-> <<>>, fate |-> "whole"]
<1>1. works' = Append(works, work) /\ o \in held /\ UNCHANGED <<live, held, records, served, copied>>
  BY DEF SetPasteData, objects
<1>2. <<>> \in Records /\ Len(<<>>) = 0
  BY EmptySeq DEF Records
<1>3. work \in Work
  BY <1>2 DEF Work, CrashInv
<1>4. WorkOK(work)
  <2>1. o \in live
    BY <1>1 DEF PasteInv
  <2> QED BY <1>2, <2>1 DEF WorkOK
<1> HIDE DEF work
<1>5. \A w \in DOMAIN works' : works'[w] = work \/ (w \in DOMAIN works /\ works'[w] = works[w])
  BY <1>1, <1>3, AppendProperties, LenProperties DEF CrashInv
<1>6. ASSUME NEW w \in DOMAIN works'
      PROVE  WorkOK(works[w])'
  <2> DEFINE new == works'[w]
  <2>1. WorkOK(new)
    BY <1>4, <1>5 DEF PasteInv
  <2> HIDE DEF new
  <2>2. /\ Len(new.parcel) <= new.length
        /\ new.stage = "queued" => new.parcel = <<>>
        /\ new.fate # "torn" => new.object \in live'
        /\ new.fate = "whole" =>
             /\ new.given = records'[new.object]
             /\ new.stage = "writing" =>
                  new.length = Len(new.given) /\ new.parcel = SubSeq(new.given, 1, Len(new.parcel))
    BY <1>1, <2>1 DEF WorkOK
  <2> QED BY <2>2 DEF new, WorkOK
<1> QED BY <1>1, <1>6 DEF PasteInv

\* Marshalling writes its own work; the record it appends is the next of the list.
LEMMA WriteKeeps ==
    ASSUME CrashInv, PasteInv, NEW w \in DOMAIN works, WriteLength(w) \/ WriteRecord(w)
    PROVE  PasteInv'
<1>1. UNCHANGED <<live, held, records, served, copied>>
  BY DEF WriteLength, WriteRecord, objects
<1>2. \A v \in DOMAIN works' : v \in DOMAIN works /\ (v # w => works'[v] = works[v])
  BY WorkWrites
<1> DEFINE old == works[w]
           list == records[old.object]
<1>3. /\ old \in Work /\ WorkOK(old)
      /\ old.parcel \in Records /\ Len(old.parcel) \in Nat
      /\ list \in Records /\ Len(list) \in Nat
  BY WorkFields, LenProperties DEF PasteInv, Records
<1>4. /\ works'[w].object = old.object /\ works'[w].given = old.given
      /\ works'[w].fate = old.fate /\ works'[w].stage = "writing"
      /\ \/ works'[w].length = Len(list) /\ works'[w].parcel = <<>>
         \/ /\ old.stage = "writing" /\ works'[w].length = old.length
            /\ Len(old.parcel) + 1 <= old.length
            /\ Len(old.parcel) + 1 \in DOMAIN list
            /\ works'[w].parcel = Append(old.parcel, list[Len(old.parcel) + 1])
  <2>1. CASE WriteLength(w)
    <3>1. works'[w] = [old EXCEPT !.stage = "writing", !.length = Len(list)]
      BY <2>1, WorkWrites
    <3>2. old.stage = "queued"
      BY <2>1 DEF WriteLength
    <3> HIDE DEF old, list
    <3> QED BY <1>3, <3>1, <3>2 DEF Work, WorkOK
  <2>2. CASE WriteRecord(w)
    <3>1. works'[w] = [old EXCEPT !.parcel = Append(old.parcel, list[Len(old.parcel) + 1])]
      BY <2>2, WorkWrites
    <3>2. /\ old.stage = "writing" /\ Len(old.parcel) + 1 <= old.length
          /\ Len(old.parcel) + 1 \in DOMAIN list
      BY <2>2 DEF WriteRecord
    <3> HIDE DEF old, list
    <3> QED BY <1>3, <3>1, <3>2 DEF Work
  <2> QED BY <2>1, <2>2
<1> DEFINE new == works'[w]
<1>5. /\ Len(new.parcel) <= new.length
      /\ new.stage = "queued" => new.parcel = <<>>
      /\ new.fate # "torn" => new.object \in live'
      /\ new.fate = "whole" =>
           /\ new.given = records'[new.object]
           /\ new.stage = "writing" =>
                new.length = Len(new.given) /\ new.parcel = SubSeq(new.given, 1, Len(new.parcel))
  <2> DEFINE n == Len(old.parcel)
  <2>1. new.fate # "torn" => new.object \in live'
    BY <1>1, <1>3, <1>4 DEF WorkOK
  <2>2. new.fate = "whole" => new.given = list /\ records'[new.object] = list
    BY <1>1, <1>3, <1>4 DEF WorkOK
  <2> HIDE DEF list, old, new
  <2>3. CASE new.length = Len(list) /\ new.parcel = <<>>
    <3>1. Len(new.parcel) = 0 /\ SubSeq(list, 1, 0) = <<>>
      BY <2>3, EmptySeq, SubSeqEmpty
    <3> QED BY <1>3, <1>4, <2>1, <2>2, <2>3, <3>1 DEF new
  <2>4. CASE /\ old.stage = "writing" /\ new.length = old.length
             /\ n + 1 <= old.length /\ n + 1 \in DOMAIN list
             /\ new.parcel = Append(old.parcel, list[n + 1])
    <3>1. list \in Seq(Record \cup {NullRecord}) /\ old.parcel \in Seq(Record \cup {NullRecord})
      BY <1>3 DEF Records
    <3>2. DOMAIN list = 1..Len(list) /\ n + 1 \in 1..Len(list)
      BY <2>4, <3>1, LenProperties
    <3>3. list[n + 1] \in Record \cup {NullRecord}
      BY <3>1, <3>2, ElementOfSeq
    <3>4. Len(new.parcel) = n + 1
      BY <2>4, <3>1, <3>3, AppendProperties
    <3>5. ASSUME new.fate = "whole"
          PROVE  new.length = Len(list) /\ new.parcel = SubSeq(list, 1, n + 1)
      <4>1. old.fate = "whole" /\ old.given = list
        BY <1>4, <2>2, <3>5 DEF new
      <4>2. old.length = Len(list) /\ old.parcel = SubSeq(list, 1, n)
        BY <1>3, <2>4, <4>1 DEF WorkOK
      <4>3. SubSeq(list, 1, n + 1) = SubSeq(list, 1, n) \o <<list[n + 1]>>
        <5>1. n \in Nat /\ 1 \in 1..Len(list) /\ n + 1 \in 1..Len(list)
          BY <1>3, <3>2
        <5> DEFINE k == n + 1
        <5>2. k \in 1..Len(list) /\ 1 \in 1..Len(list)
          BY <5>1
        <5> HIDE DEF n, k
        <5>3. SubSeq(list, 1, k) = SubSeq(list, 1, k - 1) \o <<list[k]>>
          BY <3>1, <5>2, SubSeqRecursiveSecond
        <5>4. k - 1 = n /\ k = n + 1
          BY <5>1 DEF k
        <5> QED BY <5>3, <5>4
      <4>4. Append(old.parcel, list[n + 1]) = old.parcel \o <<list[n + 1]>>
        BY <3>1, <3>3, AppendIsConcat
      <4> QED BY <2>4, <4>2, <4>3, <4>4
    <3>6. Len(new.parcel) <= new.length /\ new.stage # "queued"
      BY <1>4, <2>4, <3>4 DEF new
    <3> QED BY <2>1, <2>2, <3>4, <3>5, <3>6
  <2> QED BY <1>4, <2>3, <2>4 DEF new
<1>6. WorkOK(works[w])'
  BY <1>5 DEF WorkOK
<1>7. ASSUME NEW v \in DOMAIN works', v # w
      PROVE  WorkOK(works[v])'
  BY <1>1, <1>2, <1>7 DEF WorkOK, PasteInv
<1>8. \A v \in DOMAIN works' : WorkOK(works[v])'
  BY <1>6, <1>7
<1> QED BY <1>1, <1>8 DEF PasteInv

\* A parcel that is sent is whole if its work is: the service has read all of the list.
LEMMA ServeKeeps ==
    ASSUME CrashInv, PasteInv, NEW w \in DOMAIN works, Serve(w)
    PROVE  PasteInv'
<1>1. /\ works[w].stage = "writing" /\ Len(works[w].parcel) = works[w].length
      /\ served' = ReadFromParcel(works[w].parcel)
      /\ copied' = IF works[w].fate = "whole" THEN works[w].given ELSE NoData
      /\ works' = RemoveAt(works, w)
      /\ UNCHANGED <<live, held, records>>
  BY DEF Serve, objects
<1>2. works[w].given \in Records /\ WorkOK(works[w])
  BY WorkFields DEF PasteInv
<1>3. ASSUME copied' # NoData
      PROVE  copied' \in Records /\ served' = ReadFromParcel(copied')
  <2> DEFINE given == works[w].given
  <2>1. works[w].fate = "whole" /\ copied' = given
    BY <1>1, <1>3
  <2>2. works[w].parcel = SubSeq(given, 1, Len(given))
    BY <1>1, <1>2, <2>1 DEF WorkOK
  <2>3. SubSeq(given, 1, Len(given)) = given
    <3>1. given \in Seq(Record \cup {NullRecord})
      BY <1>2 DEF Records
    <3> HIDE DEF given
    <3> QED BY <3>1, SubSeqFull
  <2> QED BY <1>1, <1>2, <2>1, <2>2, <2>3
<1>4. ASSUME NEW v \in DOMAIN works'
      PROVE  WorkOK(works[v])'
  <2>1. PICK u \in DOMAIN works : works'[v] = works[u]
    BY <1>1, RemovedAt DEF CrashInv
  <2> QED BY <1>1, <2>1 DEF WorkOK, PasteInv
<1> QED BY <1>1, <1>3, <1>4 DEF PasteInv

LEMMA PasteInvNext ==
    ASSUME CrashInv, PasteInv, [Next]_vars
    PROVE  PasteInv'
<1>1. ASSUME UNCHANGED <<works, served, copied>>, held' \subseteq live', live \subseteq live',
             \A o \in live : records'[o] = records[o]
      PROVE  PasteInv'
  <2>1. \A w \in DOMAIN works' : WorkOK(works[w])'
    BY <1>1, WorksUntouched
  <2> QED BY <1>1, <2>1 DEF PasteInv
<1>2. CASE UNCHANGED vars
  BY <1>1, <1>2 DEF vars, objects, PasteInv
<1>3. CASE \E o \in Object : UseData(o)
  <2>1. PICK o \in Object : UseData(o)
    BY <1>3
  <2>2. CASE \/ New(o) \/ GetPasteData(o)
             \/ \E in \in Input : CreateData(o, in[1], in[2])
    <3>1. PICK list : NewAt(o, list) /\ UNCHANGED <<served, copied>>
      BY <2>2 DEF New, GetPasteData, CreateData
    <3>2. /\ UNCHANGED works /\ live' = live \cup {o} /\ held' = held \cup {o} /\ o \notin live
          /\ \A p \in live : records'[p] = records[p]
      BY <3>1 DEF NewAt
    <3> QED BY <1>1, <3>1, <3>2 DEF PasteInv
  <2>3. CASE Drop(o)
    BY <1>1, <2>3 DEF Drop, PasteInv
  <2>4. CASE Collect(o)
    <3>1. /\ works' = Disturbed(o, TRUE) /\ live' = live \ {o} /\ o \notin held
          /\ UNCHANGED <<held, served, copied>>
          /\ \A p \in Object \ {o} : records'[p] = records[p]
      BY <2>4 DEF Collect, CrashInv
    <3>2. \A w \in DOMAIN works' : WorkOK(works[w])'
      BY <3>1, WorksDisturbed
    <3> QED BY <3>1, <3>2 DEF PasteInv
  <2>5. ASSUME NEW list, NEW risky, Edit(o, list, risky)
        PROVE  PasteInv'
    <3>1. /\ works' = Disturbed(o, FALSE)
          /\ UNCHANGED <<live, held, served, copied>>
          /\ \A p \in Object \ {o} : records'[p] = records[p]
      BY <2>5 DEF Edit, CrashInv
    <3>2. \A w \in DOMAIN works' : WorkOK(works[w])'
      BY <3>1, WorksDisturbed
    <3> QED BY <3>1, <3>2 DEF PasteInv
  <2>6. CASE \/ \E in \in Input : AddStringRecord(o, in[1], in[2])
             \/ \E in \in Input : in[1] = WantType /\ AddWantRecord(o, in[2])
             \/ AddRecord(o)
             \/ \E n \in Index(records[o]) : RemoveRecordAt(o, n) \/ ReplaceRecordAt(o, n)
    BY <2>5, <2>6 DEF AddStringRecord, AddWantRecord, AddRecord, RemoveRecordAt, ReplaceRecordAt
  <2>7. CASE \E sought : Dereference(o, sought)
    BY <1>1, <2>7 DEF Dereference, Crash, objects, PasteInv
  <2>8. CASE SetPasteData(o)
    BY <2>8, QueueKeeps
  <2> QED
    BY <2>1, <2>2, <2>3, <2>4, <2>6, <2>7, <2>8
    DEF UseData, GetPrimary, GetPrimaryWant, GetPrimaryMimeType, GetMimeTypes
<1>4. CASE UseRecord
  <2>1. UNCHANGED <<works, served, copied, objects>>
    BY <1>4 DEF UseRecord, CreateRecord, GetRecordAt, Obtain, ConvertToText, CollectRecord,
                Converted, ConvertDestroyed, Crash
  <2> QED BY <1>1, <2>1 DEF objects, PasteInv
<1>5. CASE Clear
  <2>1. copied' = NoData /\ UNCHANGED <<objects, works>>
    BY <1>5 DEF Clear
  <2>2. \A w \in DOMAIN works' : WorkOK(works[w])'
    BY <2>1, WorksUntouched DEF objects
  <2> QED BY <2>1, <2>2 DEF objects, PasteInv
<1>6. CASE \E w \in 1..MaxWorks : WriteLength(w) \/ WriteRecord(w) \/ ReadTorn(w) \/ Serve(w)
  <2>1. PICK w \in DOMAIN works : WriteLength(w) \/ WriteRecord(w) \/ ReadTorn(w) \/ Serve(w)
    BY <1>6 DEF WriteLength, WriteRecord, ReadTorn, Serve, InWork
  <2>2. CASE ReadTorn(w)
    BY <1>1, <2>2 DEF ReadTorn, Crash, objects, PasteInv
  <2> QED BY <2>1, <2>2, WriteKeeps, ServeKeeps
<1> QED BY <1>2, <1>3, <1>4, <1>5, <1>6 DEF Next

\* What is pasted is what the script had when it called setPasteData, record for record
\* and in order, if it left the object alone until the call settled: for lists of any
\* length, and any number of objects and of works under way.
THEOREM PasteGivesCopy == Spec => []PastedIsCopied
<1>1. Init => CrashInv /\ PasteInv
  BY CrashInvInit DEF Init, PasteInv
<1>2. CrashInv /\ PasteInv /\ [Next]_vars => (CrashInv /\ PasteInv)'
  BY CrashInvNext, PasteInvNext
<1>3. CrashInv /\ PasteInv => PastedIsCopied
  <2> SUFFICES ASSUME CrashInv, PasteInv, copied # NoData
               PROVE  served # NoData /\ Pasted = LastOf(NonNull(copied), MaxRecordNum)
    BY DEF PastedIsCopied
  <2>1. copied \in Records /\ served = ReadFromParcel(copied)
    BY DEF PasteInv
  <2>2. served # NoData
    BY <2>1, ReadIsReversal, SoundRecords, NoObjectAssumption
  <2> QED BY <2>1, <2>2, TwoCrossingsRestore DEF Pasted
<1> QED BY <1>1, <1>2, <1>3, PTL DEF Spec

-----------------------------------------------------------------------------
LEMMA MimeTypesType ==
    ASSUME NEW list \in Records
    PROVE  MimeTypesOf(list) \in Seq(MimeType)
<1> DEFINE kept == NonNull(list)
<1>1. kept \in Seq(Record) /\ Len(kept) \in Nat
  BY NonNullType, LenProperties DEF Sound
<1> HIDE DEF kept
<1>2. \A i \in 1..Len(kept) : kept[i].mime \in MimeType
  <2>1. \A r \in Record : r.mime \in MimeType
    BY DEF Record
  <2> QED BY <1>1, <2>1, ElementOfSeq
<1>3. [i \in 1..Len(kept) |-> kept[i].mime] \in [1..Len(kept) -> MimeType]
  BY <1>2
<1>4. [i \in 1..Len(kept) |-> kept[i].mime] \in Seq(MimeType)
  BY <1>1, <1>3, SeqDef
<1> QED BY <1>4 DEF MimeTypesOf, kept

\* What CrashInv and PasteInv leave of TypeOK.
RestOK ==
    /\ alive \in BOOLEAN
    /\ live \subseteq Object
    /\ mimeTypes \in [Object -> Seq(MimeType)]
    /\ conversion \in {"none", "called", "dropped", "collected"}
    /\ Len(works) <= MaxWorks
    /\ exposed \in BOOLEAN
    /\ calls \in 0..MaxCalls

LEMMA TypeParts == CrashInv /\ PasteInv /\ RestOK => TypeOK
<1> SUFFICES ASSUME CrashInv, PasteInv, RestOK
             PROVE  TypeOK
  OBVIOUS
<1>1. served \in Records \cup {NoData} /\ copied \in Records \cup {NoData}
  BY SoundRecords DEF CrashInv, PasteInv
<1>2. \A w \in DOMAIN works : Len(works[w].parcel) <= works[w].length
  BY DEF PasteInv, WorkOK
<1> QED BY <1>1, <1>2 DEF TypeOK, CrashInv, PasteInv, RestOK

\* Works are queued below the bound, and otherwise only leave.
LEMMA WorksBounded ==
    ASSUME CrashInv, [Next]_vars, Len(works) <= MaxWorks
    PROVE  Len(works') <= MaxWorks
<1>1. works \in Seq(Work) /\ Len(works) \in Nat /\ MaxWorks \in Nat
  BY LenProperties, BoundsAssumption DEF CrashInv
<1>2. CASE UNCHANGED works
  BY <1>2
<1>3. CASE \E o \in Object, lost \in BOOLEAN : works' = Disturbed(o, lost)
  BY <1>1, <1>3, DisturbedFields
<1>4. CASE \E o \in Object : SetPasteData(o)
  <2>1. Len(works) < MaxWorks /\ \E work : works' = Append(works, work)
    BY <1>4 DEF SetPasteData
  <2>2. \A work : Len(Append(works, work)) = Len(works) + 1
    BY <1>1
  <2> QED BY <1>1, <2>1, <2>2
<1>5. CASE \E w \in DOMAIN works : WriteLength(w) \/ WriteRecord(w)
  BY <1>5, WorkWrites
<1>6. CASE \E w \in DOMAIN works : Serve(w)
  BY <1>1, <1>6, RemovedAt DEF Serve
<1>7. CASE \E o \in Object : UseData(o)
  <2>1. PICK o \in Object : UseData(o)
    BY <1>7
  <2>2. CASE \E list, risky : Edit(o, list, risky)
    BY <1>3, <2>2 DEF Edit
  <2>3. CASE Collect(o)
    BY <1>3, <2>3 DEF Collect
  <2>4. CASE \E list : NewAt(o, list)
    BY <1>2, <2>4 DEF NewAt
  <2>5. CASE Drop(o) \/ \E sought : Dereference(o, sought)
    BY <1>2, <2>5 DEF Drop, Dereference, Crash
  <2> QED
    BY <1>4, <2>1, <2>2, <2>3, <2>4, <2>5
    DEF UseData, New, CreateData, GetPasteData, AddStringRecord, AddWantRecord, AddRecord,
        RemoveRecordAt, ReplaceRecordAt, GetPrimary, GetPrimaryWant, GetPrimaryMimeType,
        GetMimeTypes
<1>8. CASE UseRecord \/ Clear \/ UNCHANGED vars
  BY <1>2, <1>8 DEF UseRecord, CreateRecord, GetRecordAt, Obtain, ConvertToText, CollectRecord,
                    Converted, ConvertDestroyed, Crash, Clear, vars
<1>9. CASE \E w \in 1..MaxWorks : WriteLength(w) \/ WriteRecord(w) \/ ReadTorn(w) \/ Serve(w)
  <2>1. PICK w \in DOMAIN works : WriteLength(w) \/ WriteRecord(w) \/ ReadTorn(w) \/ Serve(w)
    BY <1>9 DEF WriteLength, WriteRecord, ReadTorn, Serve, InWork
  <2>2. CASE ReadTorn(w)
    BY <1>2, <2>2 DEF ReadTorn, Crash
  <2> QED BY <1>5, <1>6, <2>1, <2>2
<1> QED BY <1>7, <1>8, <1>9 DEF Next

\* The flags, and the calls that are counted.
LEMMA FlagSteps ==
    ASSUME [Next]_vars
    PROVE  /\ alive' = FALSE \/ alive' = alive
           /\ exposed' \in BOOLEAN \/ exposed' = exposed
           /\ conversion' \in {"none", "called", "dropped", "collected"} \/ conversion' = conversion
           /\ calls' = calls \/ (calls < MaxCalls /\ calls' = calls + 1)
<1> DEFINE Flags == /\ alive' = FALSE \/ alive' = alive
                    /\ exposed' \in BOOLEAN \/ exposed' = exposed
                    /\ conversion' \in {"none", "called", "dropped", "collected"} \/ conversion' = conversion
                    /\ calls' = calls \/ (calls < MaxCalls /\ calls' = calls + 1)
<1> SUFFICES Flags
  OBVIOUS
<1>1. CASE UNCHANGED vars \/ Clear
  BY <1>1 DEF vars, Clear
<1>2. CASE Crash
  BY <1>2 DEF Crash
<1>3. CASE \E o \in Object : \E list : NewAt(o, list)
  BY <1>3 DEF NewAt, Called
<1>4. ASSUME NEW o \in Object, NEW list, NEW risky, Edit(o, list, risky)
      PROVE  Flags
  <2>1. exposed' \in BOOLEAN
    BY <1>4 DEF Edit
  <2> QED BY <1>4, <2>1 DEF Edit, Called
<1>5. ASSUME NEW o \in Object, Collect(o)
      PROVE  Flags
  <2>1. exposed' \in BOOLEAN
    BY <1>5 DEF Collect
  <2> QED BY <1>5, <2>1 DEF Collect
<1>6. CASE \E o \in Object : Drop(o) \/ SetPasteData(o)
  BY <1>6 DEF Drop, SetPasteData, Called
<1>7. CASE \E w : WriteLength(w) \/ WriteRecord(w) \/ Serve(w)
  BY <1>7 DEF WriteLength, WriteRecord, Serve
<1>8. CASE UseRecord
  <2>1. CASE \E r : Obtain(r)
    BY <2>1 DEF Obtain
  <2>2. CASE ConvertToText \/ CollectRecord \/ Converted
    BY <2>2 DEF ConvertToText, CollectRecord, Converted, Called
  <2> QED BY <1>2, <1>8, <2>1, <2>2 DEF UseRecord, CreateRecord, GetRecordAt, ConvertDestroyed
<1> HIDE DEF Flags
<1>9. CASE \E o \in Object : UseData(o)
  <2>1. PICK o \in Object : UseData(o)
    BY <1>9
  <2>2. CASE \E list, risky : Edit(o, list, risky)
    BY <1>4, <2>2
  <2>3. CASE Collect(o)
    BY <1>5, <2>3
  <2>4. CASE \E list : NewAt(o, list)
    BY <1>3, <2>4
  <2>5. CASE Drop(o) \/ SetPasteData(o)
    BY <1>6, <2>5
  <2>6. CASE \E sought : Dereference(o, sought)
    BY <1>2, <2>6 DEF Dereference
  <2> QED
    BY <2>1, <2>2, <2>3, <2>4, <2>5, <2>6
    DEF UseData, New, CreateData, GetPasteData, AddStringRecord, AddWantRecord, AddRecord,
        RemoveRecordAt, ReplaceRecordAt, GetPrimary, GetPrimaryWant, GetPrimaryMimeType,
        GetMimeTypes
<1> QED BY <1>1, <1>2, <1>7, <1>8, <1>9 DEF Next, ReadTorn

LEMMA RestOKNext ==
    ASSUME CrashInv, CrashInv', RestOK, [Next]_vars
    PROVE  RestOK'
<1>1. /\ alive' \in BOOLEAN
      /\ exposed' \in BOOLEAN
      /\ conversion' \in {"none", "called", "dropped", "collected"}
  BY FlagSteps DEF RestOK
<1>2. calls' \in 0..MaxCalls
  <2>1. calls' = calls \/ (calls < MaxCalls /\ calls' = calls + 1)
    BY FlagSteps
  <2>2. calls \in 0..MaxCalls /\ MaxCalls \in Nat
    BY BoundsAssumption DEF RestOK
  <2> QED BY <2>1, <2>2
<1>3. Len(works') <= MaxWorks
  BY WorksBounded DEF RestOK
<1>4. live' \subseteq Object /\ mimeTypes' \in [Object -> Seq(MimeType)]
  <2>1. \A o \in Object : records[o] \in Records /\ records'[o] \in Records
    BY DEF CrashInv
  <2>2. CASE \E o \in Object : \E list : NewAt(o, list)
    <3>0. PICK o \in Object : \E list : NewAt(o, list)
      BY <2>2
    <3>1. PICK list : NewAt(o, list)
      BY <3>0
    <3>2. list = records'[o]
      BY <3>1 DEF NewAt, CrashInv
    <3>3. MimeTypesOf(list) \in Seq(MimeType)
      BY <2>1, <3>2, MimeTypesType
    <3> QED BY <3>1, <3>3 DEF NewAt, RestOK
  <2>3. CASE \E o \in Object : \E list, risky : Edit(o, list, risky)
    <3>0. PICK o \in Object : \E list, risky : Edit(o, list, risky)
      BY <2>3
    <3>1. PICK list, risky : Edit(o, list, risky)
      BY <3>0
    <3>2. list = records'[o]
      BY <3>1 DEF Edit, CrashInv
    <3>3. MimeTypesOf(list) \in Seq(MimeType)
      BY <2>1, <3>2, MimeTypesType
    <3> QED BY <3>1, <3>3 DEF Edit, RestOK
  <2>4. CASE \E o \in Object : Collect(o)
    <3>1. PICK o \in Object : Collect(o)
      BY <2>4
    <3>2. MimeTypesOf(records'[o]) \in Seq(MimeType)
      BY <2>1, MimeTypesType
    <3> QED BY <3>1, <3>2 DEF Collect, RestOK
  <2>5. CASE UNCHANGED <<live, records, mimeTypes>>
    BY <2>5 DEF RestOK
  <2> QED BY <2>2, <2>3, <2>4, <2>5, ObjectSteps
<1> QED BY <1>1, <1>2, <1>3, <1>4 DEF RestOK

\* Every variable keeps its type: no list gets an element that is neither a record nor a
\* null, no work writes more records than it announced.
THEOREM ObjectsTyped == Spec => []TypeOK
<1>1. Init => CrashInv /\ PasteInv /\ RestOK
  <2> SUFFICES ASSUME Init PROVE PasteInv /\ RestOK
    BY CrashInvInit
  <2>1. PasteInv
    BY DEF Init, PasteInv
  <2>2. Len(works) <= MaxWorks /\ calls \in 0..MaxCalls
    BY EmptySeq, BoundsAssumption DEF Init
  <2>3. mimeTypes \in [Object -> Seq(MimeType)]
    BY EmptySeq DEF Init
  <2>4. alive \in BOOLEAN /\ exposed \in BOOLEAN
    BY DEF Init
  <2> QED BY <2>1, <2>2, <2>3, <2>4 DEF Init, RestOK
<1>2. CrashInv /\ PasteInv /\ RestOK /\ [Next]_vars => (CrashInv /\ PasteInv /\ RestOK)'
  BY CrashInvNext, PasteInvNext, RestOKNext
<1> QED BY <1>1, <1>2, TypeParts, PTL DEF Spec

=============================================================================
