----------------------------- MODULE ListsProofs -----------------------------
(***************************************************************************)
(* Theorems about Lists, for tables of any size, any room in the buffers   *)
(* and any number of changes.                                              *)
(***************************************************************************)
EXTENDS Lists, FiniteSetTheorems, SequenceTheorems, TLAPS

-----------------------------------------------------------------------------
(* The kernel's answer.                                                    *)

\* No two lines of a listing are of the same number.
OfDifferentNumbers(entries) ==
    \A j, k \in DOMAIN entries : entries[j].id = entries[k].id => j = k

\* A table has no more entries than numbers.
LEMMA PresentIsFinite ==
    ASSUME NEW tab \in Tables
    PROVE  /\ IsFiniteSet(Present(tab))
           /\ Cardinality(Present(tab)) \in 0..Highest
<1> DEFINE f == [e \in Present(tab) |-> e.id]
<1>1. IsFiniteSet(Numbers) /\ Cardinality(Numbers) = Highest
  BY HighestAssumption, FS_Interval DEF Numbers
<1>2. f \in [Present(tab) -> Numbers]
  BY DEF Present, Entry
<1>3. ASSUME NEW d \in Present(tab), NEW e \in Present(tab), f[d] = f[e]
      PROVE  d = e
  BY <1>3 DEF Present, Entry
<1>4. f \in Injection(Present(tab), Numbers)
  BY <1>2, <1>3 DEF Injection, IsInjective
<1>5. /\ IsFiniteSet(Present(tab))
      /\ Cardinality(Present(tab)) <= Cardinality(Numbers)
  BY <1>1, <1>4, FS_Injection
<1> QED BY <1>1, <1>5, FS_CardinalityType, HighestAssumption

\* The kernel answers with the entries of the table, each of them once.
LEMMA ListingFacts ==
    ASSUME table \in Tables
    PROVE  /\ Listing \in Seq(Entry) /\ Len(Listing) <= Highest
           /\ \A j \in DOMAIN Listing : table[Listing[j].id] = Listing[j].thing
           /\ Range(Listing) = Present(table)
           /\ OfDifferentNumbers(Listing)
<1> DEFINE P == Present(table)
           c == Cardinality(P)
           Good(f) == f \in [1..c -> P] /\ IsInjective(f)
<1>1. IsFiniteSet(P) /\ c \in 0..Highest
  BY PresentIsFinite
<1>2. ExistsBijection(1..c, P)
  BY <1>1, FS_CardinalityType
<1>3. \E f : Good(f)
  BY <1>2 DEF ExistsBijection, Bijection, Injection
<1>4. Listing = CHOOSE f \in [1..c -> P] : IsInjective(f)
  BY DEF Listing, SetToSeq
<1>5. Good(Listing)
  BY <1>3, <1>4
<1>6. IsFiniteSet(1..c) /\ Cardinality(1..c) = c
  BY <1>1, FS_Interval
<1>7. Listing \in Injection(1..c, P)
  BY <1>5 DEF Injection
<1>8. Listing \in Surjection(1..c, P)
  BY <1>1, <1>6, <1>7, FS_Injection
<1>9. /\ Listing \in Seq(P) /\ Len(Listing) = c /\ DOMAIN Listing = 1..c
  BY <1>1, <1>5, IsASeq, LenProperties
<1>10. Listing \in Seq(Entry)
  <2>1. P \subseteq Entry
    BY DEF Present
  <2>2. Listing \in [1..c -> Entry]
    BY <1>5, <2>1
  <2> QED BY <1>1, <2>2, IsASeq
<1>11. \A j \in DOMAIN Listing : table[Listing[j].id] = Listing[j].thing
  BY <1>5, <1>9 DEF Present
<1>12. Range(Listing) = P
  BY <1>8, <1>9 DEF Surjection, Range
<1>13. ASSUME NEW j \in DOMAIN Listing, NEW k \in DOMAIN Listing,
              Listing[j].id = Listing[k].id
       PROVE  j = k
  <2>1. Listing[j] \in Entry /\ Listing[k] \in Entry
    BY <1>5, <1>9 DEF Present
  <2>2. Listing[j].thing = Listing[k].thing
    BY <1>11, <1>13
  <2>3. Listing[j] = Listing[k]
    BY <1>13, <2>1, <2>2 DEF Entry
  <2> QED BY <1>5, <1>9, <2>3 DEF IsInjective
<1> QED BY <1>1, <1>9, <1>10, <1>11, <1>12, <1>13 DEF OfDifferentNumbers

-----------------------------------------------------------------------------
(* Where a program is, and what it has then.                               *)

\* The kernel had more entries than there is room for, and the program is one
\* that does not notice.
Outgrown ==
    \/ kind \in {"interfaces", "locks"} /\ Len(answer) > Room
    \/ kind = "devices" /\ Room < room /\ room < Len(answer)

Stages ==
    /\ pc \in {"options", "ask", "again"} => shown = <<>> /\ i = 1 /\ ~spoilt
    /\ pc \in {"ask", "again", "print"} => kind \in WholeKinds
    /\ pc \in {"scan", "query"} => kind \in ScanKinds /\ ~spoilt
    /\ pc = "query" => i <= Highest
    /\ pc = "again" => kind = "devices" /\ Len(answer) > Room
    /\ pc = "print" => /\ Room <= room
                       /\ room < Len(answer) => Outgrown
                       /\ i <= Len(answer) + 1
                       /\ spoilt => i > room
    /\ spoilt => Outgrown /\ pc \in {"print", "ended", "killed"}

Base == TypeOK /\ Stages

Shown == [id : Numbers, thing : Things, name : Things \union {None}]

\* The types of what the actions read.
LEMMA Types ==
    ASSUME TypeOK
    PROVE  /\ table \in [Numbers -> Things \union {None}] /\ changes \in 0..MaxChanges
           /\ kind \in Kinds /\ opts \in Options
           /\ answer \in Seq(Entry) /\ Len(answer) \in 0..Highest
           /\ DOMAIN answer = 1..Len(answer)
           /\ \A j \in 1..Len(answer) : answer[j] \in Entry
           /\ room \in Nat /\ i \in 1..(Highest + 1)
           /\ shown \in Seq(Shown)
           /\ files \in 0..Files
           /\ held \in [Numbers -> SUBSET (Things \union {None})]
<1>1. answer \in Seq(Entry) /\ Len(answer) <= Highest
  BY DEF TypeOK
<1>2. Len(answer) \in Nat /\ DOMAIN answer = 1..Len(answer)
  BY <1>1, LenProperties
<1>3. \A j \in 1..Len(answer) : answer[j] \in Entry
  BY <1>1, ElementOfSeq
<1>4. Len(answer) \in 0..Highest
  BY <1>1, <1>2, HighestAssumption
<1> QED BY <1>1, <1>2, <1>3, <1>4 DEF TypeOK, Tables, Shown

\* One line more is a listing still.
LEMMA AppendLine ==
    ASSUME shown \in Seq(Shown), NEW line \in Shown
    PROVE  /\ Append(shown, line) \in Seq(Shown)
           /\ Len(shown) \in Nat
           /\ DOMAIN shown = 1..Len(shown)
           /\ DOMAIN Append(shown, line) = 1..(Len(shown) + 1)
           /\ \A k \in DOMAIN shown : Append(shown, line)[k] = shown[k]
           /\ Append(shown, line)[Len(shown) + 1] = line
           /\ \A k \in DOMAIN shown : shown[k] \in Shown
<1> QED BY LenProperties, AppendProperties, ElementOfSeq

\* A line printed by a scan.
LEMMA ScannedLine ==
    ASSUME TypeOK, i <= Highest, table[i] # None, PrintThing
    PROVE  /\ Line([id |-> i, thing |-> table[i]], table[i]) \in Shown
           /\ shown' = Append(shown, Line([id |-> i, thing |-> table[i]], table[i]))
           /\ shown' \in Seq(Shown)
<1>1. i \in Numbers
  BY Types, HighestAssumption DEF Numbers
<1>2. table[i] \in Things
  BY <1>1, Types
<1>3. Line([id |-> i, thing |-> table[i]], table[i]) \in Shown
  BY <1>1, <1>2 DEF Line, Shown
<1> QED BY <1>3, Types, AppendLine DEF PrintThing

\* A line printed of an answer.
LEMMA AnsweredLine ==
    ASSUME TypeOK, i <= Len(answer), NEW name \in NamesOf(answer[i])
    PROVE  Line(answer[i], name) \in Shown
<1>1. answer[i] \in Entry
  BY Types, HighestAssumption
<1>2. answer[i].id \in Numbers /\ answer[i].thing \in Things
  BY <1>1 DEF Entry
<1>3. name \in Things \union {None}
  BY <1>2, Types DEF NamesOf
<1> QED BY <1>2, <1>3 DEF Line, Shown

\* A number found by readdir() is in the table.
LEMMA FoundInFolder ==
    ASSUME TypeOK, NEW n \in NextInFolder
    PROVE  n \in Numbers /\ i <= n /\ n <= Highest /\ table[n] # None
<1>1. i \in 1..(Highest + 1)
  BY Types
<1> QED BY <1>1, HighestAssumption DEF NextInFolder, Numbers

-----------------------------------------------------------------------------
(* Type correctness.                                                       *)

\* At first nothing is listed.
LEMMA BaseInit == Init => Base
<1> SUFFICES ASSUME Init PROVE Base
  OBVIOUS
<1>1. /\ table \in InitTables /\ changes = 0 /\ kind \in Kinds /\ opts \in Options
      /\ pc = "options" /\ exit = 0 /\ answer = <<>> /\ room = 0 /\ i = 1
      /\ shown = <<>> /\ spoilt = FALSE /\ files = 0
      /\ held = [n \in Numbers |-> {}]
  BY DEF Init
<1>2. table \in Tables
  BY <1>1, InitTablesAssumption
<1>3. changes \in 0..MaxChanges /\ room \in Nat /\ i \in 1..(Highest + 1) /\ files \in 0..Files
  BY <1>1, HighestAssumption, FilesAssumption, MaxChangesAssumption
<1>4. answer \in Seq(Entry) /\ Len(answer) <= Highest
  BY <1>1, HighestAssumption, EmptySeq
<1>5. shown \in Seq(Shown)
  BY <1>1, EmptySeq
<1>6. held \in [Numbers -> SUBSET (Things \union {None})]
  BY <1>1
<1>7. TypeOK
  BY <1>1, <1>2, <1>3, <1>4, <1>5, <1>6 DEF TypeOK, Shown
<1>8. Stages
  BY <1>1 DEF Stages
<1> QED BY <1>7, <1>8 DEF Base

\* The first picture of the table that may be held against the program.
LEMMA BeginningType ==
    ASSUME TypeOK, BeginToLook
    PROVE  held' \in [Numbers -> SUBSET (Things \union {None})]
<1> QED BY Types DEF BeginToLook

\* What an answer that is not refused leaves to be done.
LEMMA AnswerFits ==
    ASSUME TypeOK, NEW n \in Nat, kind \in WholeKinds, ~Refused(n), n > Room
    PROVE  kind \in {"interfaces", "locks", "devices"}
<1> QED BY DEF Refused, TooMany, WholeKinds

\* The options lead to the first request, or to an error.
LEMMA BaseStart == Base /\ Start => Base'
<1> SUFFICES ASSUME Base, Start PROVE Base'
  OBVIOUS
<1>1. TypeOK /\ Stages
  BY DEF Base
<1>2. /\ pc = "options" /\ BeginToLook
      /\ UNCHANGED <<table, changes, kind, opts, answer, room, i, shown, spoilt>>
      /\ \/ pc' \in {"scan", "ask"} /\ files' \in {0, 1} /\ exit' = exit
         \/ pc' = "ended" /\ exit' = 1 /\ files' = files
      /\ pc' = "scan" => kind \in ScanKinds
      /\ pc' = "ask" => kind \notin ScanKinds
  BY DEF Start, End, kernelVars, outVars
<1>3. files' \in 0..Files
  BY <1>1, <1>2, Types, FilesAssumption
<1>4. held' \in [Numbers -> SUBSET (Things \union {None})]
  BY <1>1, <1>2, BeginningType
<1>5. TypeOK'
  BY <1>1, <1>2, <1>3, <1>4 DEF TypeOK
<1>6. shown = <<>> /\ i = 1 /\ ~spoilt
  BY <1>1, <1>2 DEF Stages
<1>7. kind \in Kinds
  BY <1>1, Types
<1>8. Stages'
  BY <1>2, <1>6, <1>7 DEF Stages, Kinds
<1> QED BY <1>5, <1>8 DEF Base

\* What is known of the answer that was taken.
LEMMA TakenType ==
    ASSUME TypeOK, NEW entries \in Nat, Take(entries),
           UNCHANGED <<table, changes, kind, opts, i, shown, spoilt, files, exit>>,
           pc' \in {"again", "print"}
    PROVE  /\ TypeOK'
           /\ answer' = Listing /\ Len(Listing) \in Nat /\ room' = entries
<1>1. answer' = Listing /\ room' = entries /\ BeginToLook
  BY DEF Take
<1>2. table \in Tables
  BY DEF TypeOK
<1>3. Listing \in Seq(Entry) /\ Len(Listing) <= Highest /\ Len(Listing) \in Nat
  BY <1>2, ListingFacts, LenProperties
<1>4. held' \in [Numbers -> SUBSET (Things \union {None})]
  BY <1>1, BeginningType
<1>5. TypeOK'
  BY <1>1, <1>3, <1>4 DEF TypeOK
<1> QED BY <1>1, <1>3, <1>5

\* The kernel's answers, the first and the second.
LEMMA BaseAsked == Base /\ (Ask \/ AskAgain) => Base'
<1> SUFFICES ASSUME Base, Ask \/ AskAgain PROVE Base'
  OBVIOUS
<1>1. TypeOK /\ Stages
  BY DEF Base
<1>2. /\ pc \in {"ask", "again"}
      /\ UNCHANGED <<table, changes, kind, opts, i, shown, spoilt, files>>
  BY DEF Ask, AskAgain, kernelVars, outVars
<1>3. shown = <<>> /\ i = 1 /\ ~spoilt /\ kind \in WholeKinds
  BY <1>1, <1>2 DEF Stages
<1>4. CASE End(1) /\ UNCHANGED <<answer, room, held>>
  <2>1. pc' = "ended" /\ exit' = 1
    BY <1>4 DEF End
  <2>2. TypeOK'
    BY <1>1, <1>2, <1>4, <2>1 DEF TypeOK
  <2>3. Stages'
    BY <1>2, <1>3, <2>1 DEF Stages
  <2> QED BY <2>2, <2>3 DEF Base
<1>5. CASE /\ ~Refused(Len(Listing)) /\ Take(Room) /\ exit' = exit
           /\ pc' = IF kind = "devices" /\ Len(Listing) > Room THEN "again" ELSE "print"
  <2>1. TypeOK' /\ answer' = Listing /\ Len(Listing) \in Nat /\ room' = Room
    BY <1>1, <1>2, <1>5, RoomAssumption, TakenType
  <2>2. Len(Listing) > Room => kind \in {"interfaces", "locks", "devices"}
    BY <1>1, <1>3, <1>5, <2>1, AnswerFits
  <2>3. CASE kind = "devices" /\ Len(Listing) > Room
    <3>1. pc' = "again"
      BY <1>5, <2>3
    <3>2. Stages'
      BY <1>2, <1>3, <2>1, <2>3, <3>1 DEF Stages
    <3> QED BY <2>1, <3>2 DEF Base
  <2>4. CASE ~(kind = "devices" /\ Len(Listing) > Room)
    <3>1. pc' = "print"
      BY <1>5, <2>4
    <3>2. Room < Len(Listing) => kind \in {"interfaces", "locks"} /\ Len(Listing) > Room
      BY <2>1, <2>2, <2>4, RoomAssumption
    <3>3. (room < Len(answer) => Outgrown)'
      BY <1>2, <2>1, <3>2 DEF Outgrown
    <3>4. (Room <= room /\ i <= Len(answer) + 1)'
      BY <1>2, <1>3, <2>1, RoomAssumption
    <3>5. Stages'
      BY <1>2, <1>3, <3>1, <3>3, <3>4 DEF Stages
    <3> QED BY <2>1, <3>5 DEF Base
  <2> QED BY <2>3, <2>4
<1>6. CASE /\ pc = "again" /\ ~Refused(Len(Listing)) /\ Take(Len(answer)) /\ exit' = exit
           /\ pc' = "print"
  <2>1. kind = "devices" /\ Len(answer) > Room /\ Len(answer) \in Nat
    BY <1>1, <1>6, Types DEF Stages
  <2>2. TypeOK' /\ answer' = Listing /\ Len(Listing) \in Nat /\ room' = Len(answer)
    BY <1>1, <1>2, <1>6, <2>1, TakenType
  <2>3. (room < Len(answer) => Outgrown)'
    BY <1>2, <2>1, <2>2, RoomAssumption DEF Outgrown
  <2>4. (Room <= room /\ i <= Len(answer) + 1)'
    BY <1>2, <1>3, <2>1, <2>2, RoomAssumption
  <2>5. Stages'
    BY <1>2, <1>3, <1>6, <2>3, <2>4 DEF Stages
  <2> QED BY <2>2, <2>5 DEF Base
<1> QED BY <1>4, <1>5, <1>6 DEF Ask, AskAgain

\* The loop over an answer.
LEMMA BasePrinting == Base /\ (PrintLine \/ PrintBeyond \/ EndOfTable) => Base'
<1> SUFFICES ASSUME Base, PrintLine \/ PrintBeyond \/ EndOfTable PROVE Base'
  OBVIOUS
<1>1. TypeOK /\ Stages
  BY DEF Base
<1>2. /\ pc = "print"
      /\ UNCHANGED <<table, changes, kind, opts, answer, room, files, held>>
  BY DEF PrintLine, PrintBeyond, EndOfTable, kernelVars, outVars
<1>3. /\ kind \in WholeKinds /\ Room <= room /\ i <= Len(answer) + 1
      /\ room < Len(answer) => Outgrown
      /\ spoilt => i > room /\ Outgrown
  BY <1>1, <1>2 DEF Stages
<1>4. Len(answer) \in 0..Highest /\ room \in Nat /\ i \in 1..(Highest + 1) /\ Highest \in Nat
  BY <1>1, Types, HighestAssumption
<1>5. Outgrown' <=> Outgrown
  BY <1>2 DEF Outgrown
<1>6. CASE PrintLine
  <2>1. /\ i <= Len(answer) /\ i <= room /\ i' = After(answer[i])
        /\ UNCHANGED <<pc, exit, spoilt>>
    BY <1>6 DEF PrintLine
  <2>2. \/ shown' = shown
        \/ \E name \in NamesOf(answer[i]) : shown' = Append(shown, Line(answer[i], name))
    BY <1>6 DEF PrintLine
  <2>3. shown' \in Seq(Shown)
    BY <1>1, <2>1, <2>2, AnsweredLine, AppendLine, Types
  <2>4. i' \in {Len(answer) + 1, i + 1}
    BY <2>1 DEF After
  <2>5. i' \in 1..(Highest + 1) /\ i' <= Len(answer) + 1
    BY <1>4, <2>1, <2>4
  <2>6. ~spoilt
    BY <1>3, <1>4, <2>1
  <2>7. TypeOK'
    BY <1>1, <1>2, <2>1, <2>3, <2>5 DEF TypeOK, Shown
  <2>8. Stages'
    BY <1>2, <1>3, <1>5, <2>1, <2>5, <2>6 DEF Stages
  <2> QED BY <2>7, <2>8 DEF Base
<1>7. CASE PrintBeyond
  <2>1. /\ i <= Len(answer) /\ i > room /\ pc' \in {"print", "killed"}
        /\ spoilt' = TRUE /\ i' = i + 1 /\ UNCHANGED <<exit, shown>>
    BY <1>7 DEF PrintBeyond
  <2>2. i' \in 1..(Highest + 1) /\ i' <= Len(answer) + 1 /\ i' > room /\ room < Len(answer)
    BY <1>4, <2>1
  <2>3. TypeOK'
    BY <1>1, <1>2, <2>1, <2>2 DEF TypeOK
  <2>4. Stages'
    BY <1>2, <1>3, <1>5, <2>1, <2>2 DEF Stages
  <2> QED BY <2>3, <2>4 DEF Base
<1>8. CASE EndOfTable
  <2>1. pc' = "ended" /\ exit' = 0 /\ UNCHANGED <<i, shown, spoilt>>
    BY <1>8 DEF EndOfTable, End, outVars
  <2>2. TypeOK'
    BY <1>1, <1>2, <2>1 DEF TypeOK
  <2>3. Stages'
    BY <1>2, <1>3, <1>5, <2>1 DEF Stages
  <2> QED BY <2>2, <2>3 DEF Base
<1> QED BY <1>6, <1>7, <1>8

\* The look at one number after the other.
LEMMA BaseScan == Base /\ Scan => Base'
<1> SUFFICES ASSUME Base, Scan PROVE Base'
  OBVIOUS
<1>1. TypeOK /\ Stages
  BY DEF Base
<1>2. /\ pc \in {"scan", "query"}
      /\ UNCHANGED <<table, changes, kind, opts, answer, room, spoilt, held>>
  BY DEF Scan, Segment, ReadFolder, NextPath, Query, EndOfScan, kernelVars, outVars
<1>3. kind \in ScanKinds /\ ~spoilt /\ kind \notin WholeKinds
  BY <1>1, <1>2 DEF Stages, ScanKinds, WholeKinds
<1>4. i \in 1..(Highest + 1) /\ Highest \in Nat /\ files \in 0..Files /\ Files \in Nat
  BY <1>1, Types, HighestAssumption, FilesAssumption
<1>5. ASSUME i' \in 1..(Highest + 1), shown' \in Seq(Shown), files' \in 0..Files,
             pc' \in {"scan", "query", "ended"}, exit' \in {0, 1},
             pc' = "query" => i' <= Highest
      PROVE  Base'
  <2>1. TypeOK'
    BY <1>1, <1>2, <1>5 DEF TypeOK, Shown
  <2>2. Stages'
    BY <1>2, <1>3, <1>5 DEF Stages
  <2> QED BY <2>1, <2>2 DEF Base
<1>6. shown \in Seq(Shown) /\ exit \in {0, 1}
  BY <1>1, Types DEF TypeOK
<1>7. Readable => table[i] # None
  BY DEF Readable
<1>8. CASE Segment
  <2>1. /\ pc = "scan" /\ i <= Highest /\ i' = i + 1 /\ UNCHANGED <<pc, exit, files>>
        /\ (Readable /\ PrintThing) \/ shown' = shown
    BY <1>8 DEF Segment, ScanEnd
  <2>2. shown' \in Seq(Shown)
    BY <1>1, <1>6, <1>7, <2>1, ScannedLine
  <2> QED BY <1>4, <1>5, <1>6, <2>1, <2>2
<1>9. CASE ReadFolder
  <2>1. i' \in NextInFolder /\ pc' = "query" /\ UNCHANGED <<exit, files, shown>>
    BY <1>9 DEF ReadFolder, outVars
  <2>2. i' \in 1..Highest
    BY <1>1, <2>1, FoundInFolder DEF Numbers
  <2> QED BY <1>4, <1>5, <1>6, <2>1, <2>2
<1>10. CASE NextPath
  <2>1. i <= Highest /\ pc' = "query" /\ UNCHANGED <<i, exit, files, shown>>
    BY <1>10 DEF NextPath, outVars
  <2> QED BY <1>4, <1>5, <1>6, <2>1
<1>11. CASE Query
  <2>1. /\ pc = "query" /\ pc' = "scan" /\ i' = i + 1 /\ exit' = exit
        /\ files' = IF Unclosed THEN files + 1 ELSE files
        /\ (Opened /\ PrintThing) \/ shown' = shown
    BY <1>11 DEF Query
  <2>2. i <= Highest
    BY <1>1, <2>1 DEF Stages
  <2>3. Unclosed => files < Files
    BY DEF Unclosed, Opened
  <2>4. files' \in 0..Files
    BY <1>4, <2>1, <2>3
  <2>5. shown' \in Seq(Shown)
    BY <1>1, <1>6, <1>7, <2>1, <2>2, ScannedLine DEF Opened
  <2> QED BY <1>4, <1>5, <1>6, <2>1, <2>2, <2>4, <2>5
<1>12. CASE EndOfScan
  <2>1. pc' = "ended" /\ exit' = 0 /\ UNCHANGED <<i, shown, files>>
    BY <1>12 DEF EndOfScan, End, outVars
  <2> QED BY <1>4, <1>5, <1>6, <2>1
<1> QED BY <1>8, <1>9, <1>10, <1>11, <1>12 DEF Scan

\* A change of the table changes nothing of the program's.
LEMMA BaseChange == Base /\ Change => Base'
<1> SUFFICES ASSUME Base, Change PROVE Base'
  OBVIOUS
<1>1. TypeOK /\ Stages
  BY DEF Base
<1>2. PICK n \in Numbers, t \in Things \union {None} :
         /\ table' = [table EXCEPT ![n] = t]
         /\ held' = [held EXCEPT ![n] = @ \union {t}]
  BY DEF Change
<1>3. /\ changes < MaxChanges /\ changes' = changes + 1
      /\ UNCHANGED <<kind, opts, pc, exit, answer, room, i, shown, spoilt, files>>
  BY DEF Change, outVars
<1>4. table' \in [Numbers -> Things \union {None}]
  BY <1>1, <1>2, Types
<1>5. held' \in [Numbers -> SUBSET (Things \union {None})]
  BY <1>1, <1>2, Types
<1>6. changes' \in 0..MaxChanges
  BY <1>1, <1>3, Types, MaxChangesAssumption
<1>7. TypeOK'
  BY <1>1, <1>3, <1>4, <1>5, <1>6 DEF TypeOK, Tables
<1>8. Outgrown' <=> Outgrown
  BY <1>3 DEF Outgrown
<1>9. Stages'
  BY <1>1, <1>3, <1>8 DEF Stages
<1> QED BY <1>7, <1>9 DEF Base

\* Each step, and none, keeps the types and what belongs to a place.
LEMMA BaseStep == Base /\ [Next]_vars => Base'
<1> SUFFICES ASSUME Base, [Next]_vars PROVE Base'
  OBVIOUS
<1>1. CASE Next
  BY <1>1, BaseStart, BaseAsked, BasePrinting, BaseScan, BaseChange DEF Next, Whole
<1>2. CASE UNCHANGED vars
  <2>1. UNCHANGED <<table, changes, kind, opts, pc, exit, answer, room, i, shown, spoilt, files, held>>
    BY <1>2 DEF vars
  <2>2. TypeOK /\ Stages
    BY DEF Base
  <2>3. TypeOK'
    BY <2>1, <2>2 DEF TypeOK
  <2>4. Outgrown' <=> Outgrown
    BY <2>1 DEF Outgrown
  <2>5. Stages'
    BY <2>1, <2>2, <2>4 DEF Stages
  <2> QED BY <2>3, <2>5 DEF Base
<1> QED BY <1>1, <1>2

\* So they always hold.
LEMMA BaseHolds == Spec => []Base
<1> QED BY BaseInit, BaseStep, PTL DEF Spec

\* Every variable keeps its type: no counter leaves the table, and blkid opens
\* no more than it may.
THEOREM TypeCorrect == Spec => []TypeOK
<1>1. Base => TypeOK
  BY DEF Base
<1> QED BY <1>1, BaseHolds, PTL

\* Memory behind a buffer is read only when the kernel had more than the
\* program asked for, and the program is one that does not notice
\* (ifconfig.c:122 to 147, ipcs.c:97 to 112, lspci.c:71 to 93).
THEOREM OnlyGrowthSpoils == Spec => []SpoiltByGrowth
<1>1. Base => SpoiltByGrowth
  BY DEF Base, Stages, Outgrown, SpoiltByGrowth
<1> QED BY <1>1, BaseHolds, PTL

-----------------------------------------------------------------------------
(* What the lines say was true.                                            *)

\* What a number stands for is among what it stood for; so is what was
\* answered, as long as it is being printed.
HeldIsCurrent == pc # "options" => \A n \in Numbers : table[n] \in held[n]
AnswerIsHeld ==
    pc \in {"again", "print"} =>
        \A j \in 1..Len(answer) : answer[j].thing \in held[answer[j].id]

WasTrue(line) ==
    /\ kind \in ScanKinds \union {"threads"} => line.thing \in held[line.id]
    /\ line.name \in held[line.id] \union {None, line.thing}

Truth == HeldIsCurrent /\ AnswerIsHeld /\ \A k \in DOMAIN shown : WasTrue(shown[k])

\* At first there are no lines.
LEMMA TruthInit == Init => Truth
<1> SUFFICES ASSUME Init PROVE Truth
  OBVIOUS
<1>1. pc = "options" /\ shown = <<>>
  BY DEF Init
<1> QED BY <1>1 DEF Truth, HeldIsCurrent, AnswerIsHeld

\* A program that has printed nothing begins to look.
LEMMA TruthLook ==
    ASSUME Base, shown = <<>>, shown' = <<>>, table' = table, BeginToLook,
           \/ pc' \in {"scan", "ask", "ended"}
           \/ answer' = Listing
    PROVE  Truth'
<1>1. TypeOK /\ table \in Tables
  BY DEF Base, TypeOK
<1>2. held' = [n \in Numbers |-> {table[n]}]
  BY DEF BeginToLook
<1>3. HeldIsCurrent'
  BY <1>2 DEF HeldIsCurrent
<1>4. CASE pc' \in {"scan", "ask", "ended"}
  BY <1>3, <1>4 DEF Truth, AnswerIsHeld
<1>5. CASE answer' = Listing
  <2>1. /\ \A j \in DOMAIN Listing : table[Listing[j].id] = Listing[j].thing
        /\ Listing \in Seq(Entry)
    BY <1>1, ListingFacts
  <2>2. ASSUME NEW j \in 1..Len(Listing)
        PROVE  Listing[j].thing \in held'[Listing[j].id]
    <3>1. Listing[j] \in Entry /\ j \in DOMAIN Listing
      BY <2>1, ElementOfSeq, LenProperties
    <3> QED BY <1>2, <2>1, <3>1 DEF Entry
  <2>3. AnswerIsHeld'
    BY <1>5, <2>2 DEF AnswerIsHeld
  <2> QED BY <1>3, <2>3 DEF Truth
<1> QED BY <1>4, <1>5

\* Nothing is looked at again, and at most one line is printed.
LEMMA TruthLine ==
    ASSUME Base, Truth, pc # "options", UNCHANGED <<table, kind, answer, held>>,
           pc' \in {"again", "print"} => pc \in {"again", "print"},
           \/ shown' = shown
           \/ \E line \in Shown : WasTrue(line) /\ shown' = Append(shown, line)
    PROVE  Truth'
<1>1. HeldIsCurrent' /\ AnswerIsHeld'
  BY DEF Truth, HeldIsCurrent, AnswerIsHeld
<1>2. CASE shown' = shown
  BY <1>1, <1>2 DEF Truth, WasTrue
<1>3. ASSUME NEW line \in Shown, WasTrue(line), shown' = Append(shown, line)
      PROVE  Truth'
  <2>1. shown \in Seq(Shown)
    BY Types DEF Base
  <2>2. ASSUME NEW k \in DOMAIN shown'
        PROVE  WasTrue(shown'[k])
    <3>1. k \in 1..(Len(shown) + 1) /\ Len(shown) \in Nat
      BY <1>3, <2>1, <2>2, AppendLine
    <3>2. CASE k = Len(shown) + 1
      BY <1>3, <2>1, <3>2, AppendLine
    <3>3. CASE k # Len(shown) + 1
      <4>1. k \in DOMAIN shown
        BY <2>1, <3>1, <3>3, AppendLine
      <4> QED BY <1>3, <2>1, <4>1, AppendLine DEF Truth
    <3> QED BY <3>2, <3>3
  <2>3. ASSUME NEW k \in DOMAIN shown'
        PROVE  /\ kind' \in ScanKinds \union {"threads"} => shown'[k].thing \in held'[shown'[k].id]
               /\ shown'[k].name \in held'[shown'[k].id] \union {None, shown'[k].thing}
    BY <2>2 DEF WasTrue
  <2> QED BY <1>1, <2>3 DEF Truth, WasTrue
<1> QED BY <1>2, <1>3

\* A line printed by a scan is true.
LEMMA ScannedIsTrue ==
    ASSUME Base, Truth, pc # "options", i <= Highest, Readable, PrintThing
    PROVE  \E line \in Shown : WasTrue(line) /\ shown' = Append(shown, line)
<1> DEFINE line == Line([id |-> i, thing |-> table[i]], table[i])
<1>1. TypeOK /\ table[i] # None /\ i \in Numbers
  BY Types, HighestAssumption DEF Base, Readable, Numbers
<1>2. line \in Shown /\ shown' = Append(shown, line)
  BY <1>1, ScannedLine
<1>3. table[i] \in held[i]
  BY <1>1 DEF Truth, HeldIsCurrent
<1>4. line.id = i /\ line.thing = table[i] /\ line.name = table[i]
  BY DEF Line
<1>5. WasTrue(line)
  BY <1>3, <1>4 DEF WasTrue
<1> QED BY <1>2, <1>5

\* Each step, and none, leaves the lines true.
LEMMA TruthStep == Base /\ Truth /\ [Next]_vars => Truth'
<1> SUFFICES ASSUME Base, Truth, [Next]_vars PROVE Truth'
  OBVIOUS
<1>1. TypeOK /\ Stages
  BY DEF Base
<1>2. CASE Start
  <2>1. /\ pc = "options" /\ BeginToLook /\ table' = table /\ shown' = shown
        /\ pc' \in {"scan", "ask", "ended"}
    BY <1>2 DEF Start, End, kernelVars, outVars
  <2>2. shown = <<>>
    BY <1>1, <2>1 DEF Stages
  <2> QED BY <2>1, <2>2, TruthLook
<1>3. CASE Ask \/ AskAgain
  <2>1. /\ pc \in {"ask", "again"} /\ UNCHANGED <<table, kind, shown>>
        /\ \/ answer' = Listing /\ BeginToLook
           \/ pc' = "ended" /\ UNCHANGED <<answer, held>>
    BY <1>3 DEF Ask, AskAgain, Take, End, kernelVars, outVars
  <2>2. shown = <<>>
    BY <1>1, <2>1 DEF Stages
  <2>3. CASE answer' = Listing /\ BeginToLook
    BY <2>1, <2>2, <2>3, TruthLook
  <2>4. CASE pc' = "ended" /\ UNCHANGED <<answer, held>>
    BY <2>1, <2>4, TruthLine
  <2> QED BY <2>1, <2>3, <2>4
<1>4. CASE PrintLine
  <2>1. /\ pc = "print" /\ UNCHANGED <<table, kind, pc, answer, held>>
        /\ i <= Len(answer)
        /\ \/ shown' = shown
           \/ \E name \in NamesOf(answer[i]) : shown' = Append(shown, Line(answer[i], name))
    BY <1>4 DEF PrintLine, kernelVars
  <2>2. i \in 1..Len(answer) /\ answer[i] \in Entry
    BY <1>1, <2>1, Types, HighestAssumption
  <2>3. ASSUME NEW name \in NamesOf(answer[i])
        PROVE  Line(answer[i], name) \in Shown /\ WasTrue(Line(answer[i], name))
    <3>1. Line(answer[i], name) \in Shown
      BY <1>1, <2>1, AnsweredLine
    <3>2. answer[i].thing \in held[answer[i].id] /\ table[answer[i].id] \in held[answer[i].id]
      BY <2>1, <2>2 DEF Truth, HeldIsCurrent, AnswerIsHeld, Entry
    <3>3. name \in held[answer[i].id] \union {None, answer[i].thing}
      BY <3>2 DEF NamesOf
    <3> QED BY <3>1, <3>2, <3>3 DEF Line, WasTrue
  <2> QED BY <2>1, <2>3, TruthLine
<1>5. CASE PrintBeyond \/ EndOfTable
  <2>1. /\ pc = "print" /\ UNCHANGED <<table, kind, answer, shown, held>>
    BY <1>5 DEF PrintBeyond, EndOfTable, kernelVars, outVars
  <2> QED BY <2>1, TruthLine
<1>6. CASE Scan
  <2>1. /\ pc \in {"scan", "query"} /\ pc' \in {"scan", "query", "ended"}
        /\ UNCHANGED <<table, kind, answer, held>>
    BY <1>6 DEF Scan, Segment, ReadFolder, NextPath, Query, EndOfScan, End,
                kernelVars, outVars
  <2>2. CASE shown' = shown
    BY <2>1, <2>2, TruthLine
  <2>3. CASE i <= Highest /\ Readable /\ PrintThing
    <3>1. \E line \in Shown : WasTrue(line) /\ shown' = Append(shown, line)
      BY <2>1, <2>3, ScannedIsTrue
    <3> QED BY <2>1, <3>1, TruthLine
  <2>4. CASE Segment
    BY <2>2, <2>3, <2>4 DEF Segment, ScanEnd
  <2>5. CASE Query
    BY <1>1, <2>2, <2>3, <2>5 DEF Stages, Query, Opened
  <2>6. Segment \/ Query \/ shown' = shown
    BY <1>6 DEF Scan, ReadFolder, NextPath, EndOfScan, outVars
  <2> QED BY <2>2, <2>4, <2>5, <2>6
<1>7. CASE Change
  <2>1. PICK n \in Numbers, t \in Things \union {None} :
           /\ table' = [table EXCEPT ![n] = t]
           /\ held' = [held EXCEPT ![n] = @ \union {t}]
    BY <1>7 DEF Change
  <2>2. UNCHANGED <<kind, pc, answer, shown>>
    BY <1>7 DEF Change, outVars
  <2>3. \A m \in Numbers : held[m] \subseteq held'[m]
    BY <1>1, <2>1, Types
  <2>4. HeldIsCurrent'
    BY <1>1, <2>1, <2>2, Types DEF Truth, HeldIsCurrent
  <2>5. \A j \in 1..Len(answer) : answer[j].id \in Numbers
    BY <1>1, Types DEF Entry
  <2>6. AnswerIsHeld'
    BY <2>2, <2>3, <2>5 DEF Truth, AnswerIsHeld
  <2>7. ASSUME NEW k \in DOMAIN shown
        PROVE  WasTrue(shown[k])'
    <3>1. shown[k].id \in Numbers
      <4>1. shown[k] \in Shown
        BY <1>1, Types, ElementOfSeq, LenProperties
      <4> QED BY <4>1 DEF Shown
    <3>2. WasTrue(shown[k])
      BY DEF Truth
    <3> QED BY <2>2, <2>3, <3>1, <3>2 DEF WasTrue
  <2> QED BY <2>2, <2>4, <2>6, <2>7 DEF Truth
<1>8. CASE UNCHANGED vars
  BY <1>8 DEF vars, Truth, HeldIsCurrent, AnswerIsHeld, WasTrue
<1> QED BY <1>2, <1>3, <1>4, <1>5, <1>6, <1>7, <1>8 DEF Next, Whole

\* So they always are.
LEMMA TruthHolds == Spec => []Truth
<1> QED BY BaseHolds, TruthInit, TruthStep, PTL DEF Spec

\* No line, and no name beside a thread, says of a number what it never stood
\* for while the program looked (ps.c:133 to 222).
THEOREM LinesAreTrue == Spec => []LinesWereTrue
<1>1. Truth => LinesWereTrue
  BY DEF Truth, WasTrue, LinesWereTrue
<1> QED BY <1>1, TruthHolds, PTL

-----------------------------------------------------------------------------
(* A scan sees what lasts.                                                 *)

Printed(n, t) == \E k \in DOMAIN shown : shown[k].id = n /\ shown[k].thing = t

\* Whatever lasted and has a number below the given one was printed.
SeenBelow(upto) ==
    \A n \in Numbers : \A t \in Things :
        n < upto /\ held[n] = {t} /\ Tells(t) => Printed(n, t)

Scanned ==
    kind \in ScanKinds /\ pc # "options" =>
        /\ OfDifferentNumbers(shown)
        /\ pc = "query" => kind # "segments"
        /\ pc \in {"scan", "query"} =>
              /\ \A k \in DOMAIN shown : shown[k].id < i
              /\ files < Files => SeenBelow(i)
        /\ pc = "ended" /\ exit = 0 /\ files < Files => SeenBelow(Highest + 1)

\* At first no scan has begun.
LEMMA ScannedInit == Init => Scanned
<1> QED BY DEF Init, Scanned

\* When readdir() finds no other name, no number is left that stands for a
\* thing.
LEMMA NoneLeftInFolder ==
    ASSUME TypeOK, NextInFolder = {}
    PROVE  \A n \in i..Highest : table[n] = None
<1> DEFINE Left == {n \in i..Highest : table[n] # None}
<1>1. i \in Nat /\ Highest \in Nat
  BY Types, HighestAssumption
<1>2. SUFFICES ASSUME Left # {} PROVE FALSE
  OBVIOUS
<1>3. Left \subseteq Nat
  BY <1>1
<1>4. PICK n \in Left : \A m \in Left : ~(<<m, n>> \in OpToRel(<, Nat))
  BY <1>2, <1>3, WFMin, NatLessThanWellFounded
<1>5. \A m \in Left : ~(m < n)
  BY <1>3, <1>4 DEF OpToRel
<1>6. ASSUME NEW m \in i..(n - 1) PROVE table[m] = None
  BY <1>1, <1>3, <1>5
<1>7. n \in NextInFolder
  BY <1>6 DEF NextInFolder
<1> QED BY <1>2, <1>7

\* What a scan prints at its place, it has not printed before, and the lines
\* before stay.
LEMMA ScanPrints ==
    ASSUME TypeOK, i <= Highest, table[i] # None, PrintThing,
           OfDifferentNumbers(shown), \A k \in DOMAIN shown : shown[k].id < i
    PROVE  /\ OfDifferentNumbers(shown')
           /\ \A k \in DOMAIN shown' : shown'[k].id < i + 1
           /\ \A n, t : Printed(n, t) => \E k \in DOMAIN shown' :
                                            shown'[k].id = n /\ shown'[k].thing = t
           /\ \E k \in DOMAIN shown' : shown'[k].id = i /\ shown'[k].thing = table[i]
<1> DEFINE line == Line([id |-> i, thing |-> table[i]], table[i])
           m == Len(shown) + 1
<1>1. /\ line \in Shown /\ shown' = Append(shown, line)
      /\ shown \in Seq(Shown)
  BY ScannedLine, Types
<1>2. line.id = i /\ line.thing = table[i]
  BY DEF Line
<1> HIDE DEF line
<1>3. /\ Len(shown) \in Nat /\ DOMAIN shown = 1..Len(shown)
      /\ DOMAIN shown' = 1..m /\ shown'[m] = line
      /\ \A k \in DOMAIN shown : shown'[k] = shown[k] /\ shown[k] \in Shown
  BY <1>1, AppendLine
<1>4. \A k \in DOMAIN shown' : k = m \/ k \in DOMAIN shown
  BY <1>3
<1>5. i \in Nat /\ \A k \in DOMAIN shown : shown[k].id \in Nat
  BY <1>3, Types DEF Shown, Numbers
<1>6. \A k \in DOMAIN shown' : /\ k = m => shown'[k].id = i
                               /\ k # m => shown'[k].id < i /\ shown'[k].id \in Nat
  BY <1>2, <1>3, <1>4, <1>5
<1>7. \A k \in DOMAIN shown' : shown'[k].id < i + 1
  BY <1>5, <1>6
<1>8. ASSUME NEW j \in DOMAIN shown', NEW k \in DOMAIN shown',
             shown'[j].id = shown'[k].id
      PROVE  j = k
  <2>1. CASE j = m \/ k = m
    BY <1>5, <1>6, <1>8, <2>1
  <2>2. CASE j # m /\ k # m
    BY <1>3, <1>4, <1>8, <2>2 DEF OfDifferentNumbers
  <2> QED BY <2>1, <2>2
<1>9. m \in DOMAIN shown' /\ DOMAIN shown \subseteq DOMAIN shown'
  BY <1>3
<1>10. ASSUME NEW n, NEW t, Printed(n, t)
       PROVE  \E k \in DOMAIN shown' : shown'[k].id = n /\ shown'[k].thing = t
  BY <1>3, <1>9, <1>10 DEF Printed
<1>11. \E k \in DOMAIN shown' : shown'[k].id = i /\ shown'[k].thing = table[i]
  BY <1>2, <1>3, <1>9
<1>12. OfDifferentNumbers(shown')
  BY <1>8 DEF OfDifferentNumbers
<1> QED BY <1>7, <1>10, <1>11, <1>12

\* A number that has been passed, and all before it, once its line is printed
\* or has nothing to tell.
LEMMA SeenGoesOn ==
    ASSUME TypeOK, NEW upto \in Nat, NEW next \in Nat,
           UNCHANGED <<kind, held>>, SeenBelow(upto),
           \A n, t : Printed(n, t) => \E k \in DOMAIN shown' :
                                         shown'[k].id = n /\ shown'[k].thing = t,
           \A n \in Numbers : \A t \in Things :
              upto <= n /\ n < next /\ held[n] = {t} /\ Tells(t) =>
                 \E k \in DOMAIN shown' : shown'[k].id = n /\ shown'[k].thing = t
    PROVE  \A n \in Numbers : \A t \in Things :
              n < next /\ held'[n] = {t} /\ Tells(t)' =>
                 \E k \in DOMAIN shown' : shown'[k].id = n /\ shown'[k].thing = t
<1> SUFFICES ASSUME NEW n \in Numbers, NEW t \in Things,
                    n < next, held'[n] = {t}, Tells(t)'
             PROVE  \E k \in DOMAIN shown' : shown'[k].id = n /\ shown'[k].thing = t
  OBVIOUS
<1>1. held[n] = {t} /\ Tells(t)
  BY DEF Tells
<1>2. n < upto \/ upto <= n
  BY DEF Numbers
<1> QED BY <1>1, <1>2 DEF SeenBelow

\* A scan at work.
LEMMA ScannedScan == Base /\ Truth /\ Scanned /\ Scan => Scanned'
<1> SUFFICES ASSUME Base, Truth, Scanned, Scan PROVE Scanned'
  OBVIOUS
<1>1. TypeOK /\ Stages
  BY DEF Base
<1>2. /\ pc \in {"scan", "query"} /\ UNCHANGED <<kind, held, table>>
  BY DEF Scan, Segment, ReadFolder, NextPath, Query, EndOfScan, kernelVars
<1>3. /\ kind \in ScanKinds
      /\ OfDifferentNumbers(shown) /\ \A k \in DOMAIN shown : shown[k].id < i
      /\ files < Files => SeenBelow(i)
      /\ pc = "query" => kind # "segments" /\ i <= Highest
  BY <1>1, <1>2 DEF Stages, Scanned
<1>4. /\ i \in Nat /\ Highest \in Nat /\ files \in Nat /\ Files \in Nat
      /\ \A k \in DOMAIN shown : shown[k].id \in Nat
  <2>1. \A k \in DOMAIN shown : shown[k] \in Shown
    BY <1>1, Types, AppendLine, ElementOfSeq, LenProperties
  <2> QED BY <1>1, <2>1, Types, HighestAssumption, FilesAssumption DEF Shown, Numbers
\* What lasts is there now.
<1>5. \A n \in Numbers : \A t : held[n] = {t} => table[n] = t
  BY <1>2 DEF Truth, HeldIsCurrent
<1>6. Readable => table[i] # None
  BY DEF Readable
<1>7. CASE Segment
  <2>1. /\ kind = "segments" /\ pc = "scan" /\ i <= Highest
        /\ i' = i + 1 /\ UNCHANGED <<pc, exit, files>>
        /\ IF Readable THEN PrintThing ELSE shown' = shown
    BY <1>7 DEF Segment, ScanEnd
  <2>2. ASSUME NEW n \in Numbers, NEW t \in Things,
               i <= n, n < i + 1, held[n] = {t}, Tells(t)
        PROVE  \E k \in DOMAIN shown' : shown'[k].id = n /\ shown'[k].thing = t
    <3>1. n = i /\ table[i] = t
      BY <1>4, <1>5, <2>2 DEF Numbers
    <3>2. Readable
      BY <2>2, <3>1 DEF Tells, Readable
    <3> QED BY <1>1, <1>3, <1>6, <2>1, <3>1, <3>2, ScanPrints
  <2>3. /\ OfDifferentNumbers(shown') /\ \A k \in DOMAIN shown' : shown'[k].id < i + 1
        /\ \A n, t : Printed(n, t) => \E k \in DOMAIN shown' :
                                         shown'[k].id = n /\ shown'[k].thing = t
    <3>1. CASE Readable
      BY <1>1, <1>3, <1>6, <2>1, <3>1, ScanPrints
    <3>2. CASE ~Readable
      <4>1. shown' = shown
        BY <2>1, <3>2
      <4> QED BY <1>3, <1>4, <4>1 DEF Printed
    <3> QED BY <3>1, <3>2
  <2>4. ASSUME files < Files PROVE SeenBelow(i)'
    <3>1. SeenBelow(i)
      BY <1>3, <2>4
    <3>2. \A n \in Numbers : \A t \in Things :
            n < i + 1 /\ held'[n] = {t} /\ Tells(t)' =>
               \E k \in DOMAIN shown' : shown'[k].id = n /\ shown'[k].thing = t
      BY <1>1, <1>2, <1>4, <2>2, <2>3, <3>1, SeenGoesOn
    <3> QED BY <2>1, <3>2 DEF SeenBelow, Printed
  <2> QED BY <1>2, <2>1, <2>3, <2>4 DEF Scanned
<1>8. CASE Query
  <2>1. /\ pc = "query" /\ pc' = "scan" /\ i' = i + 1 /\ exit' = exit
        /\ files' = IF Unclosed THEN files + 1 ELSE files
        /\ IF Opened /\ table[i] \notin Unnamed \union ZeroNamed
           THEN PrintThing ELSE shown' = shown
    BY <1>8 DEF Query
  <2>2. kind \in {"uuids", "paths"} /\ i <= Highest
    BY <1>3, <2>1 DEF ScanKinds
  <2>3. ASSUME NEW n \in Numbers, NEW t \in Things, files < Files,
               i <= n, n < i + 1, held[n] = {t}, Tells(t)
        PROVE  \E k \in DOMAIN shown' : shown'[k].id = n /\ shown'[k].thing = t
    <3>1. n = i /\ table[i] = t
      BY <1>4, <1>5, <2>3 DEF Numbers
    <3>2. Opened /\ table[i] \notin Unnamed \union ZeroNamed
      BY <2>2, <2>3, <3>1 DEF Tells, Readable, Opened
    <3> QED BY <1>1, <1>3, <1>6, <2>1, <2>2, <3>1, <3>2, ScanPrints DEF Opened
  <2>4. /\ OfDifferentNumbers(shown') /\ \A k \in DOMAIN shown' : shown'[k].id < i + 1
        /\ \A n, t : Printed(n, t) => \E k \in DOMAIN shown' :
                                         shown'[k].id = n /\ shown'[k].thing = t
    <3>1. CASE Opened /\ PrintThing
      BY <1>1, <1>3, <1>6, <2>2, <3>1, ScanPrints DEF Opened
    <3>2. CASE shown' = shown
      BY <1>3, <1>4, <3>2 DEF Printed
    <3> QED BY <2>1, <3>1, <3>2
  <2>5. ASSUME files' < Files PROVE SeenBelow(i)'
    <3>1. files < Files
      BY <1>4, <2>1, <2>5
    <3>2. SeenBelow(i)
      BY <1>3, <3>1
    <3>3. \A n \in Numbers : \A t \in Things :
            n < i + 1 /\ held'[n] = {t} /\ Tells(t)' =>
               \E k \in DOMAIN shown' : shown'[k].id = n /\ shown'[k].thing = t
      BY <1>1, <1>2, <1>4, <2>3, <2>4, <3>1, <3>2, SeenGoesOn
    <3> QED BY <2>1, <3>3 DEF SeenBelow, Printed
  <2> QED BY <1>2, <2>1, <2>4, <2>5 DEF Scanned
<1>9. CASE ReadFolder
  <2>1. /\ kind = "uuids" /\ i' \in NextInFolder /\ pc' = "query"
        /\ UNCHANGED <<exit, files, shown>>
    BY <1>9 DEF ReadFolder, outVars
  <2>2. i' \in Nat /\ i <= i' /\ \A m \in i..(i' - 1) : table[m] = None
    <3>1. i' \in Numbers /\ i <= i'
      BY <1>1, <2>1, FoundInFolder
    <3>2. i' \in Nat
      BY <3>1 DEF Numbers
    <3>3. \A m \in i..(i' - 1) : table[m] = None
      BY <2>1 DEF NextInFolder
    <3> QED BY <3>1, <3>2, <3>3
  <2>3. \A k \in DOMAIN shown' : shown'[k].id < i'
    BY <1>3, <1>4, <2>1, <2>2
  <2>4. ASSUME NEW n \in Numbers, NEW t \in Things,
               i <= n, n < i', held[n] = {t}, Tells(t)
        PROVE  FALSE
    <3>1. table[n] = t
      BY <1>5, <2>4
    <3>2. n \in Nat /\ i <= n /\ n < i'
      BY <2>4 DEF Numbers
    <3>3. i \in Nat /\ i' \in Nat
      BY <1>4, <2>2
    <3>4. n \in i..(i' - 1)
      <4>1. \A a, b, c \in Nat : a <= c /\ c < b => c \in a..(b - 1)
        OBVIOUS
      <4> QED BY <3>2, <3>3, <4>1
    <3> QED BY <2>2, <3>1, <3>4, NoneAssumption
  <2>5. \A n, t : Printed(n, t) => \E k \in DOMAIN shown' :
                                      shown'[k].id = n /\ shown'[k].thing = t
    BY <2>1 DEF Printed
  <2>6. ASSUME files < Files PROVE SeenBelow(i)'
    <3>1. SeenBelow(i)
      BY <1>3, <2>6
    <3>2. \A n \in Numbers : \A t \in Things :
            n < i' /\ held'[n] = {t} /\ Tells(t)' =>
               \E k \in DOMAIN shown' : shown'[k].id = n /\ shown'[k].thing = t
      BY <1>1, <1>2, <1>4, <2>2, <2>4, <2>5, <3>1, SeenGoesOn
    <3> QED BY <2>1, <3>2 DEF SeenBelow, Printed
  <2> QED BY <1>2, <1>3, <2>1, <2>3, <2>6 DEF Scanned
<1>10. CASE NextPath
  <2>1. kind = "paths" /\ pc' = "query" /\ UNCHANGED <<i, exit, files, shown>>
    BY <1>10 DEF NextPath, outVars
  <2>2. SeenBelow(i) => SeenBelow(i)'
    BY <1>2, <2>1 DEF SeenBelow, Tells, Printed
  <2> QED BY <1>2, <1>3, <2>1, <2>2 DEF Scanned
<1>11. CASE EndOfScan
  <2>1. /\ pc' = "ended" /\ UNCHANGED <<files, shown>>
        /\ IF kind = "uuids" THEN NextInFolder = {} ELSE i > Highest
    BY <1>11 DEF EndOfScan, End, outVars, ScanEnd
  <2>2. \A n \in i..Highest : table[n] = None
    <3>1. CASE kind = "uuids"
      BY <1>1, <2>1, <3>1, NoneLeftInFolder
    <3>2. CASE kind # "uuids"
      BY <1>4, <2>1, <3>2
    <3> QED BY <3>1, <3>2
  <2>3. ASSUME NEW n \in Numbers, NEW t \in Things,
               i <= n, n < Highest + 1, held[n] = {t}, Tells(t)
        PROVE  FALSE
    <3>1. table[n] = t /\ n \in i..Highest
      BY <1>4, <1>5, <2>3 DEF Numbers
    <3> QED BY <2>2, <3>1, NoneAssumption
  <2>4. \A n, t : Printed(n, t) => \E k \in DOMAIN shown' :
                                      shown'[k].id = n /\ shown'[k].thing = t
    BY <2>1 DEF Printed
  <2>5. ASSUME files < Files PROVE SeenBelow(Highest + 1)'
    <3>1. SeenBelow(i) /\ Highest + 1 \in Nat
      BY <1>3, <1>4, <2>5
    <3>2. \A n \in Numbers : \A t \in Things :
            n < Highest + 1 /\ held'[n] = {t} /\ Tells(t)' =>
               \E k \in DOMAIN shown' : shown'[k].id = n /\ shown'[k].thing = t
      BY <1>1, <1>2, <1>4, <2>3, <2>4, <3>1, SeenGoesOn
    <3> QED BY <2>1, <3>2 DEF SeenBelow, Printed
  <2> QED BY <1>2, <1>3, <2>1, <2>5 DEF Scanned
<1> QED BY <1>7, <1>8, <1>9, <1>10, <1>11 DEF Scan

\* Each step, and none, leaves nothing behind that lasted.
LEMMA ScannedStep == Base /\ Truth /\ Scanned /\ [Next]_vars => Scanned'
<1> SUFFICES ASSUME Base, Truth, Scanned, [Next]_vars PROVE Scanned'
  OBVIOUS
<1>1. TypeOK /\ Stages
  BY DEF Base
<1>2. CASE Start
  <2>1. /\ pc = "options" /\ UNCHANGED <<kind, i, shown>>
        /\ pc' \in {"scan", "ask"} \/ (pc' = "ended" /\ exit' = 1)
    BY <1>2 DEF Start, End, kernelVars, outVars
  <2>2. shown = <<>> /\ i = 1
    BY <1>1, <2>1 DEF Stages
  <2>3. DOMAIN shown' = {}
    BY <2>1, <2>2
  <2>4. OfDifferentNumbers(shown')
    BY <2>3 DEF OfDifferentNumbers
  <2>5. SeenBelow(i)'
    BY <2>1, <2>2 DEF SeenBelow, Numbers
  <2> QED BY <2>1, <2>3, <2>4, <2>5 DEF Scanned
<1>3. CASE Whole
  <2>1. pc \in {"ask", "again", "print"} /\ kind' = kind
    BY <1>3 DEF Whole, Ask, AskAgain, PrintLine, PrintBeyond, EndOfTable
  <2>2. kind \notin ScanKinds
    BY <1>1, <2>1 DEF Stages, WholeKinds, ScanKinds
  <2> QED BY <2>1, <2>2 DEF Scanned
<1>4. CASE Scan
  BY <1>4, ScannedScan
<1>5. CASE Change
  <2>1. PICK n \in Numbers, t \in Things \union {None} :
           held' = [held EXCEPT ![n] = @ \union {t}]
    BY <1>5 DEF Change
  <2>2. UNCHANGED <<kind, pc, exit, i, shown, files>>
    BY <1>5 DEF Change, outVars
  <2>3. CASE pc = "options"
    BY <2>2, <2>3 DEF Scanned
  <2>4. CASE pc # "options"
    <3>1. ASSUME NEW m \in Numbers, NEW u, held'[m] = {u}
          PROVE  held[m] = {u}
      <4>1. held[m] \subseteq held'[m]
        BY <1>1, <2>1, Types
      <4>2. held[m] # {}
        BY <2>4 DEF Truth, HeldIsCurrent
      <4> QED BY <3>1, <4>1, <4>2
    <3>2. \A m \in Numbers : \A u \in Things :
             held'[m] = {u} /\ Tells(u)' => held[m] = {u} /\ Tells(u)
      BY <2>2, <3>1 DEF Tells
    <3>3. \A m, u : Printed(m, u) => \E k \in DOMAIN shown' :
                                        shown'[k].id = m /\ shown'[k].thing = u
      BY <2>2 DEF Printed
    <3>4. SeenBelow(i) => SeenBelow(i)'
      BY <2>2, <3>2, <3>3 DEF SeenBelow, Printed
    <3>5. SeenBelow(Highest + 1) => SeenBelow(Highest + 1)'
      BY <2>2, <3>2, <3>3 DEF SeenBelow, Printed
    <3> QED BY <2>2, <2>4, <3>4, <3>5 DEF Scanned
  <2> QED BY <2>3, <2>4
<1>6. CASE UNCHANGED vars
  <2>1. UNCHANGED <<table, kind, pc, exit, i, shown, files, held>>
    BY <1>6 DEF vars
  <2>2. SeenBelow(i) => SeenBelow(i)'
    BY <2>1 DEF SeenBelow, Tells, Printed
  <2>3. SeenBelow(Highest + 1) => SeenBelow(Highest + 1)'
    BY <2>1 DEF SeenBelow, Tells, Printed
  <2> QED BY <2>1, <2>2, <2>3 DEF Scanned
<1> QED BY <1>2, <1>3, <1>4, <1>5, <1>6 DEF Next

\* A scan that ends with success has printed each thing that was there from
\* its beginning to its end, once, unless blkid ran out of descriptors
\* (ipcs.c:76 to 90, blkid.c:33 to 106).
THEOREM ScansMissNothing == Spec => []ScansSeeWhatLasts
<1>1. Base /\ Scanned => ScansSeeWhatLasts
  <2> SUFFICES ASSUME Base, Scanned, pc = "ended", exit = 0, kind \in ScanKinds, files < Files,
                      NEW n \in Numbers, NEW t \in Things, held[n] = {t}, Tells(t)
               PROVE  Cardinality({k \in DOMAIN shown :
                                     shown[k].id = n /\ shown[k].thing = t}) = 1
    BY DEF ScansSeeWhatLasts
  <2>1. OfDifferentNumbers(shown) /\ SeenBelow(Highest + 1)
    BY DEF Scanned
  <2>2. n < Highest + 1
    BY HighestAssumption DEF Numbers
  <2>3. PICK k \in DOMAIN shown : shown[k].id = n /\ shown[k].thing = t
    BY <2>1, <2>2 DEF SeenBelow, Printed
  <2>4. {j \in DOMAIN shown : shown[j].id = n /\ shown[j].thing = t} = {k}
    BY <2>1, <2>3 DEF OfDifferentNumbers
  <2> QED BY <2>4, FS_Singleton
<1> QED BY <1>1, BaseHolds, TruthHolds, ScannedInit, ScannedStep, PTL DEF Spec

-----------------------------------------------------------------------------
(* A table that is listed as a whole is listed as Snapshot promises.       *)

\* A line as an entry, and lines as entries.
AsEntry(line) == [id |-> line.id, thing |-> line.thing]
AsEntries(lines) == [k \in DOMAIN lines |-> [id |-> lines[k].id, thing |-> lines[k].thing]]

\* Only ps can be asked for one number.  What is being printed has each number
\* once, and what was printed is what was wanted of the part that was passed.
Pictured ==
    /\ kind # "processes" => opts.only = 0
    /\ pc = "print" =>
          /\ OfDifferentNumbers(answer)
          /\ ~spoilt =>
                /\ \A k \in DOMAIN shown : \E j \in 1..(i - 1) :
                      Wanted(answer[j]) /\ AsEntry(shown[k]) = answer[j]
                /\ \A j \in 1..(i - 1) :
                      Wanted(answer[j]) =>
                         \E k \in DOMAIN shown : AsEntry(shown[k]) = answer[j]

\* At first nothing is printed of an answer.
LEMMA PicturedInit == Init => Pictured
<1> QED BY DEF Init, Pictured

\* Once the number that was asked for is found, no other line of the answer is
\* wanted.
LEMMA OnlyOne ==
    ASSUME TypeOK, Pictured, pc = "print", opts.only # 0,
           NEW j \in 1..Len(answer), NEW k \in 1..Len(answer),
           Wanted(answer[j]), Wanted(answer[k])
    PROVE  j = k
<1>1. kind = "processes"
  BY DEF Pictured
<1>2. answer[j].id = opts.only /\ answer[k].id = opts.only
  BY <1>1 DEF Wanted
<1>3. DOMAIN answer = 1..Len(answer)
  BY Types
<1> QED BY <1>2, <1>3 DEF Pictured, OfDifferentNumbers

\* The line that is printed of an entry is that entry.
LEMMA PrintedAsEntry ==
    ASSUME Base, i <= Len(answer), NEW name \in NamesOf(answer[i]),
           shown' = Append(shown, Line(answer[i], name))
    PROVE  /\ Len(shown) \in Nat /\ DOMAIN shown = 1..Len(shown)
           /\ DOMAIN shown' = 1..(Len(shown) + 1)
           /\ \A k \in DOMAIN shown : shown'[k] = shown[k]
           /\ AsEntry(shown'[Len(shown) + 1]) = answer[i]
           /\ AsEntries(shown') = Append(AsEntries(shown), answer[i])
           /\ AsEntries(shown) \in Seq(Entry) /\ Len(AsEntries(shown)) = Len(shown)
<1> DEFINE line == Line(answer[i], name)
           n == Len(shown)
<1>1. TypeOK /\ shown \in Seq(Shown) /\ answer[i] \in Entry /\ line \in Shown
  BY AnsweredLine, Types, HighestAssumption DEF Base
<1>2. AsEntry(line) = answer[i]
  BY <1>1 DEF AsEntry, Line, Entry
<1> HIDE DEF line
<1>3. /\ n \in Nat /\ DOMAIN shown = 1..n /\ DOMAIN shown' = 1..(n + 1)
      /\ \A k \in DOMAIN shown : shown'[k] = shown[k] /\ shown[k] \in Shown
      /\ shown'[n + 1] = line
  BY <1>1, AppendLine DEF line
<1>4. AsEntries(shown) \in [1..n -> Entry]
  BY <1>3 DEF AsEntries, Shown, Entry
<1>5. AsEntries(shown) \in Seq(Entry) /\ Len(AsEntries(shown)) = n
  BY <1>3, <1>4, IsASeq, LenProperties
<1>6. AsEntries(shown') = Append(AsEntries(shown), answer[i])
  <2> DEFINE L == AsEntries(shown')
             R == Append(AsEntries(shown), answer[i])
  <2>1. /\ R \in Seq(Entry) /\ Len(R) = n + 1 /\ R[n + 1] = answer[i]
        /\ \A k \in 1..n : R[k] = AsEntries(shown)[k]
    BY <1>1, <1>5, AppendProperties
  <2>2. L = [k \in 1..(n + 1) |-> [id |-> shown'[k].id, thing |-> shown'[k].thing]]
    BY <1>3 DEF AsEntries
  <2>3. R \in [1..(n + 1) -> Entry]
    BY <2>1, LenProperties
  <2>4. ASSUME NEW k \in 1..(n + 1) PROVE L[k] = R[k]
    <3>1. CASE k = n + 1
      BY <1>2, <1>3, <2>1, <2>2, <3>1 DEF AsEntry
    <3>2. CASE k # n + 1
      <4>1. k \in 1..n
        BY <1>3, <3>2
      <4> QED BY <1>3, <2>1, <2>2, <4>1 DEF AsEntries
    <3> QED BY <3>1, <3>2
  <2> QED BY <2>2, <2>3, <2>4
<1> QED BY <1>2, <1>3, <1>5, <1>6

\* The places before a counter and those before a later one.
LEMMA PlacesBefore ==
    ASSUME NEW a \in Nat, NEW b \in Nat, NEW len \in Nat, 1 <= a, a < b,
           b = a + 1 \/ b = len + 1
    PROVE  /\ a \in 1..(b - 1) /\ \A j \in 1..(a - 1) : j \in 1..(b - 1)
           /\ \A j \in 1..(b - 1) :
                 \/ j = a \/ j \in 1..(a - 1)
                 \/ b = len + 1 /\ b # a + 1 /\ j \in 1..len
<1> QED OBVIOUS

\* A line is printed, or passed over because it is not wanted.
LEMMA PicturedLine == Base /\ Pictured /\ PrintLine => Pictured'
<1> SUFFICES ASSUME Base, Pictured, PrintLine PROVE Pictured'
  OBVIOUS
<1>1. TypeOK /\ Stages
  BY DEF Base
<1>2. /\ pc = "print" /\ i <= Len(answer) /\ i <= room /\ i' = After(answer[i])
      /\ UNCHANGED <<kind, opts, pc, answer, spoilt>>
      /\ IF Wanted(answer[i])
         THEN \E name \in NamesOf(answer[i]) : shown' = Append(shown, Line(answer[i], name))
         ELSE shown' = shown
  BY DEF PrintLine
<1>3. /\ i \in Nat /\ room \in Nat /\ Len(answer) \in Nat /\ i \in 1..Len(answer)
  BY <1>1, <1>2, Types, HighestAssumption
<1>4. ~spoilt
  BY <1>1, <1>2, <1>3 DEF Stages
<1>5. /\ \A k \in DOMAIN shown : \E j \in 1..(i - 1) :
            Wanted(answer[j]) /\ AsEntry(shown[k]) = answer[j]
      /\ \A j \in 1..(i - 1) :
            Wanted(answer[j]) => \E k \in DOMAIN shown : AsEntry(shown[k]) = answer[j]
  BY <1>2, <1>4 DEF Pictured
<1>6. \A e : Wanted(e)' <=> Wanted(e)
  BY <1>2 DEF Wanted
<1>7. i' \in Nat /\ i < i' /\ i' \in {i + 1, Len(answer) + 1}
  BY <1>2, <1>3 DEF After
<1>8. 1 <= i /\ (i' = i + 1 \/ i' = Len(answer) + 1)
  BY <1>3, <1>7
<1>9. /\ i \in 1..(i' - 1) /\ \A j \in 1..(i - 1) : j \in 1..(i' - 1)
      /\ \A j \in 1..(i' - 1) :
            \/ j = i \/ j \in 1..(i - 1)
            \/ i' = Len(answer) + 1 /\ i' # i + 1 /\ j \in 1..Len(answer)
  BY <1>3, <1>7, <1>8, PlacesBefore
<1>10. ASSUME NEW lines, lines = shown',
              \A k \in DOMAIN lines : \E j \in 1..(i' - 1) :
                 Wanted(answer[j]) /\ AsEntry(lines[k]) = answer[j],
              \A j \in 1..(i' - 1) :
                 Wanted(answer[j]) => \E k \in DOMAIN lines : AsEntry(lines[k]) = answer[j]
       PROVE  Pictured'
  BY <1>2, <1>6, <1>10 DEF Pictured, AsEntry
<1>11. CASE Wanted(answer[i])
  <2>1. PICK name \in NamesOf(answer[i]) : shown' = Append(shown, Line(answer[i], name))
    BY <1>2, <1>11
  <2>2. /\ Len(shown) \in Nat /\ DOMAIN shown = 1..Len(shown)
        /\ DOMAIN shown' = 1..(Len(shown) + 1)
        /\ \A k \in DOMAIN shown : shown'[k] = shown[k]
        /\ AsEntry(shown'[Len(shown) + 1]) = answer[i]
    BY <1>2, <2>1, PrintedAsEntry
  <2>3. ASSUME NEW k \in DOMAIN shown'
        PROVE  \E j \in 1..(i' - 1) : Wanted(answer[j]) /\ AsEntry(shown'[k]) = answer[j]
    <3>1. k = Len(shown) + 1 \/ k \in DOMAIN shown
      BY <2>2
    <3>2. CASE k = Len(shown) + 1
      BY <1>9, <1>11, <2>2, <3>2
    <3>3. CASE k \in DOMAIN shown
      BY <1>5, <1>9, <2>2, <3>3
    <3> QED BY <3>1, <3>2, <3>3
  <2>4. ASSUME NEW j \in 1..(i' - 1), Wanted(answer[j])
        PROVE  \E k \in DOMAIN shown' : AsEntry(shown'[k]) = answer[j]
    <3>1. CASE j = i
      BY <2>2, <3>1
    <3>2. CASE j \in 1..(i - 1)
      <4>1. PICK k \in DOMAIN shown : AsEntry(shown[k]) = answer[j]
        BY <1>5, <2>4, <3>2
      <4> QED BY <2>2, <4>1
    <3>3. CASE j # i /\ j \notin 1..(i - 1)
      <4>1. i' = Len(answer) + 1 /\ i' # i + 1 /\ j \in 1..Len(answer)
        BY <1>9, <2>4, <3>3
      <4>2. opts.only # 0
        BY <1>2, <4>1 DEF After
      <4> QED BY <1>1, <1>2, <1>3, <1>11, <2>4, <3>3, <4>1, <4>2, OnlyOne
    <3> QED BY <3>1, <3>2, <3>3
  <2> QED BY <1>10, <2>3, <2>4
<1>12. CASE ~Wanted(answer[i])
  <2>1. shown' = shown /\ i' = i + 1
    BY <1>2, <1>12 DEF After
  <2>2. \A j \in 1..(i' - 1) : j = i \/ j \in 1..(i - 1)
    BY <1>3, <2>1
  <2>3. ASSUME NEW k \in DOMAIN shown
        PROVE  \E j \in 1..(i' - 1) : Wanted(answer[j]) /\ AsEntry(shown[k]) = answer[j]
    BY <1>5, <1>9
  <2>4. ASSUME NEW j \in 1..(i' - 1), Wanted(answer[j])
        PROVE  \E k \in DOMAIN shown : AsEntry(shown[k]) = answer[j]
    BY <1>5, <1>12, <2>2, <2>4
  <2> QED BY <1>10, <2>1, <2>3, <2>4
<1> QED BY <1>11, <1>12

\* Each step, and none, keeps the lines equal to what was wanted of the part
\* of the answer that was passed.
LEMMA PicturedStep == Base /\ Pictured /\ [Next]_vars => Pictured'
<1> SUFFICES ASSUME Base, Pictured, [Next]_vars PROVE Pictured'
  OBVIOUS
<1>1. TypeOK /\ Stages
  BY DEF Base
<1>2. UNCHANGED <<kind, opts>>
  BY DEF Next, Start, Whole, Ask, AskAgain, PrintLine, PrintBeyond, EndOfTable, Scan, Segment,
         ReadFolder, NextPath, Query, EndOfScan, Change, vars
<1>3. (kind # "processes" => opts.only = 0)'
  BY <1>2 DEF Pictured
<1>4. CASE PrintLine
  BY <1>4, PicturedLine
<1>5. CASE Start \/ EndOfTable \/ Scan
  <2>1. pc' # "print"
    BY <1>5 DEF Start, EndOfTable, Scan, Segment, ReadFolder, NextPath, Query, EndOfScan, End
  <2> QED BY <1>3, <2>1 DEF Pictured
<1>6. CASE Ask \/ AskAgain
  <2>1. pc \in {"ask", "again"} /\ UNCHANGED <<i, shown>> /\ (pc' = "print" => answer' = Listing)
    BY <1>6 DEF Ask, AskAgain, Take, End, outVars
  <2>2. shown = <<>> /\ i = 1
    BY <1>1, <2>1 DEF Stages
  <2>3. DOMAIN shown' = {} /\ 1..(i' - 1) = {}
    BY <2>1, <2>2
  <2>4. table \in Tables
    BY <1>1 DEF TypeOK
  <2>5. pc' = "print" => OfDifferentNumbers(answer')
    BY <2>1, <2>4, ListingFacts
  <2> QED BY <1>3, <2>3, <2>5 DEF Pictured
<1>7. CASE PrintBeyond
  <2>1. pc = "print" /\ spoilt' = TRUE /\ answer' = answer
    BY <1>7 DEF PrintBeyond
  <2> QED BY <1>3, <2>1 DEF Pictured
<1>8. CASE Change \/ UNCHANGED vars
  <2>1. UNCHANGED <<pc, answer, i, shown, spoilt>>
    BY <1>8 DEF Change, outVars, vars
  <2>2. \A e : Wanted(e)' <=> Wanted(e)
    BY <1>2 DEF Wanted
  <2> QED BY <1>3, <2>1, <2>2 DEF Pictured, AsEntry
<1> QED BY <1>4, <1>5, <1>6, <1>7, <1>8 DEF Next, Whole

\* What Snapshot sees of a program.
Asked == {e \in Entry : UsageWants(e)}
Visible == IF Promising THEN AsEntries(shown) ELSE <<>>

\* Where something is promised, the program takes for wanted what the usage text
\* says: on a clear command line, -r and -p do not meet each other or -A.
LEMMA WantedAsUsage ==
    ASSUME Promising, NEW e
    PROVE  UsageWants(e) <=> Wanted(e)
<1>1. CASE kind # "processes"
  BY <1>1 DEF UsageWants, Wanted
<1>2. CASE opts.all
  BY <1>2 DEF Promising, Clear, UsageWants, Wanted
<1>3. CASE ~opts.all /\ opts.running
  BY <1>3 DEF Promising, Clear, UsageWants, Wanted
<1>4. CASE ~opts.all /\ ~opts.running
  BY <1>4 DEF UsageWants, Wanted
<1> QED BY <1>1, <1>2, <1>3, <1>4

\* A program that has printed nothing shows nothing.
LEMMA NothingVisible ==
    ASSUME shown = <<>> \/ ~Promising
    PROVE  Visible = <<>>
<1>1. ASSUME shown = <<>> PROVE AsEntries(shown) = <<>>
  <2>1. AsEntries(shown) = [k \in 1..0 |-> [id |-> shown[k].id, thing |-> shown[k].thing]]
    BY <1>1 DEF AsEntries
  <2>2. AsEntries(shown) \in [1..0 -> Entry]
    BY <2>1
  <2>3. AsEntries(shown) \in Seq(Entry) /\ Len(AsEntries(shown)) = 0
    BY <2>2, IsASeq, LenProperties
  <2> QED BY <2>3, EmptySeq
<1> QED BY <1>1 DEF Visible

\* What the status is at the steps of a program.
LEMMA StatusIs ==
    /\ spoilt <=> Status = "spoilt"
    /\ ~spoilt /\ pc # "ended" => Status = "running"
    /\ ~spoilt /\ pc = "ended" /\ (exit = 1 \/ ~Promising) => Status = "failed"
    /\ ~spoilt /\ pc = "ended" /\ exit = 0 /\ Promising => Status = "complete"
<1> QED BY DEF Status

\* An answer has as many entries as it is long.
LEMMA AnswerCardinality ==
    ASSUME TypeOK, OfDifferentNumbers(answer)
    PROVE  Cardinality(Range(answer)) = Len(answer)
<1> DEFINE n == Len(answer)
<1>1. n \in Nat /\ DOMAIN answer = 1..n /\ answer \in [1..n -> Range(answer)]
  BY Types, HighestAssumption, LenProperties DEF Range
<1>2. IsFiniteSet(1..n) /\ Cardinality(1..n) = n
  BY <1>1, FS_Interval
<1>3. answer \in Injection(1..n, Range(answer))
  BY <1>1 DEF OfDifferentNumbers, Injection, IsInjective
<1>4. answer \in Surjection(1..n, Range(answer))
  BY <1>1 DEF Surjection, Range
<1> QED BY <1>2, <1>3, <1>4, FS_Surjection

\* The operators of the libraries are the same in both modules.
LEMMA SameRange == \A f : Promise!Range(f) = Range(f)
<1> QED BY DEF Promise!Range, Range

\* So is the number of elements of a set.
LEMMA SameCardinality == \A S : Promise!Cardinality(S) = Cardinality(S)
<1> QED BY DEF Promise!Cardinality, Cardinality

\* A line that is printed is an entry of the picture that was wanted and not
\* shown yet.
LEMMA ShowStep ==
    ASSUME Base, Pictured, PrintLine, Asked' = Asked, Promising' = Promising
    PROVE  Promise!Show \/ UNCHANGED <<table, Range(answer), Visible, Status>>
<1>1. TypeOK /\ Stages
  BY DEF Base
<1>2. /\ pc = "print" /\ i <= Len(answer) /\ i <= room
      /\ UNCHANGED <<table, kind, pc, exit, answer, spoilt>>
      /\ IF Wanted(answer[i])
         THEN \E name \in NamesOf(answer[i]) : shown' = Append(shown, Line(answer[i], name))
         ELSE shown' = shown
  BY DEF PrintLine, kernelVars
<1>3. /\ i \in 1..Len(answer) /\ room \in Nat /\ i \in Nat
      /\ DOMAIN answer = 1..Len(answer) /\ answer[i] \in Entry
  BY <1>1, <1>2, Types, HighestAssumption
<1>4. ~spoilt
  BY <1>1, <1>2, <1>3 DEF Stages
<1>5. Range(answer)' = Range(answer) /\ Status' = Status /\ Status = "running"
  <2>1. Status' = Status
    BY <1>2 DEF Status
  <2> QED BY <1>2, <1>4, <2>1, StatusIs
<1>6. CASE ~Wanted(answer[i])
  <2>1. shown' = shown
    BY <1>2, <1>6
  <2> QED BY <1>2, <1>5, <2>1 DEF Visible, AsEntries
<1>7. CASE ~Promising
  <2>1. Visible' = Visible
    BY <1>7 DEF Visible
  <2> QED BY <1>2, <1>5, <2>1
<1>8. CASE Wanted(answer[i]) /\ Promising
  <2>1. PICK name \in NamesOf(answer[i]) : shown' = Append(shown, Line(answer[i], name))
    BY <1>2, <1>8
  <2>2. Visible' = Append(Visible, answer[i]) /\ Visible = AsEntries(shown)
    BY <1>1, <1>2, <1>8, <2>1, PrintedAsEntry DEF Base, Visible
  <2>3. answer[i] \in Range(answer) \intersect Asked
    BY <1>3, <1>8, WantedAsUsage DEF Range, Asked
  <2>4. answer[i] \notin Range(Visible)
    <3>1. SUFFICES ASSUME NEW k \in DOMAIN shown, AsEntry(shown[k]) = answer[i] PROVE FALSE
      BY <2>2 DEF Range, AsEntries, AsEntry
    <3>2. PICK j \in 1..(i - 1) : AsEntry(shown[k]) = answer[j]
      BY <1>2, <1>4 DEF Pictured
    <3>3. j \in 1..Len(answer) /\ j # i
      BY <1>3
    <3> QED BY <1>2, <1>3, <3>1, <3>2, <3>3 DEF Pictured, OfDifferentNumbers
  <2>5. /\ Status = "running"
        /\ \E e \in (Range(answer) \intersect Asked) \ Range(Visible) :
              Visible' = Append(Visible, e)
        /\ UNCHANGED <<table, Asked, Range(answer), Status>>
    BY <1>2, <1>5, <2>2, <2>3, <2>4
  <2>6. ComparesAnswer' = ComparesAnswer
    BY <1>2 DEF ComparesAnswer
  <2> QED BY <2>5, <2>6, SameRange DEF Promise!Show, Asked, Visible, AsEntries
<1> QED BY <1>6, <1>7, <1>8

\* When the loop is over, all that was wanted of the picture was shown.
LEMMA CompleteStep ==
    ASSUME Base, Pictured, EndOfTable, Asked' = Asked, Promising' = Promising
    PROVE  Promise!Complete \/ Promise!Fail \/ UNCHANGED <<table, Range(answer), Visible, Status>>
<1>1. TypeOK /\ Stages
  BY DEF Base
<1>2. /\ pc = "print" /\ i > Len(answer) /\ pc' = "ended" /\ exit' = 0
      /\ UNCHANGED <<table, kind, answer, shown, spoilt>>
  BY DEF EndOfTable, End, kernelVars, outVars
<1>3. i \in Nat /\ Len(answer) \in Nat /\ i <= Len(answer) + 1
  BY <1>1, <1>2, Types, HighestAssumption DEF Stages
<1>4. i - 1 = Len(answer) /\ DOMAIN answer = 1..Len(answer)
  BY <1>1, <1>2, <1>3, Types
<1>5. Range(answer)' = Range(answer) /\ Visible' = Visible
  BY <1>2 DEF Visible, AsEntries
<1>6. CASE spoilt
  BY <1>2, <1>5, <1>6 DEF Status
<1>7. CASE ~spoilt /\ Promising
  <2>1. /\ \A k \in DOMAIN shown : \E j \in DOMAIN answer :
              Wanted(answer[j]) /\ AsEntry(shown[k]) = answer[j]
        /\ \A j \in DOMAIN answer :
              Wanted(answer[j]) => \E k \in DOMAIN shown : AsEntry(shown[k]) = answer[j]
    BY <1>2, <1>4, <1>7 DEF Pictured
  <2>2. \A j \in DOMAIN answer : answer[j] \in Entry
    BY <1>1, <1>4, Types
  <2>3. Range(Visible) = {AsEntry(shown[k]) : k \in DOMAIN shown}
    BY <1>7 DEF Range, Visible, AsEntries, AsEntry
  <2>4. Range(Visible) = Range(answer) \intersect Asked
    BY <1>7, <2>1, <2>2, <2>3, WantedAsUsage DEF Range, Asked
  <2>5. Status = "running" /\ Status' = "complete"
    BY <1>2, <1>7 DEF Status
  <2>6. ComparesAnswer' = ComparesAnswer
    BY <1>2 DEF ComparesAnswer
  <2> QED BY <1>2, <1>5, <2>4, <2>5, <2>6, SameRange
          DEF Promise!Complete, Asked, Visible, AsEntries
<1>8. CASE ~spoilt /\ ~Promising
  <2>1. Status = "running" /\ Status' = "failed" /\ Visible = <<>>
    BY <1>2, <1>8 DEF Status, Visible
  <2>2. ComparesAnswer' = ComparesAnswer
    BY <1>2 DEF ComparesAnswer
  <2> QED BY <1>2, <1>5, <2>1, <2>2 DEF Promise!Fail, Asked, Visible, AsEntries
<1> QED BY <1>6, <1>7, <1>8

\* A program that ends without having shown anything has failed.
LEMMA FailStep ==
    ASSUME Asked' = Asked, Promising' = Promising,
           UNCHANGED <<table, kind, answer, shown, spoilt>>, ~spoilt,
           shown = <<>> \/ ~Promising,
           pc # "ended", pc' = "ended", exit' = 1 \/ ~Promising
    PROVE  Promise!Fail
<1>1. Status = "running" /\ Status' = "failed"
  <2>1. Status = "running"
    BY StatusIs
  <2>2. Status' = "failed"
    BY DEF Status
  <2> QED BY <2>1, <2>2
<1>2. Visible = <<>> /\ Visible' = Visible /\ Range(answer)' = Range(answer)
  BY NothingVisible DEF Visible, AsEntries
<1>3. ComparesAnswer' = ComparesAnswer
  BY DEF ComparesAnswer
<1> QED BY <1>1, <1>2, <1>3 DEF Promise!Fail, Asked, Visible, AsEntries

\* The listings of a table as a whole implement Snapshot: each step is one of
\* its steps, or none, whatever the kernel's table does meanwhile.
THEOREM ImplementsSnapshot == Spec => PromiseSpec
<1>1. ASSUME Init PROVE Promise!Init
  <2>1. /\ table \in InitTables /\ shown = <<>> /\ answer = <<>>
        /\ pc = "options" /\ spoilt = FALSE
    BY <1>1 DEF Init
  <2>2. table \in Tables
    BY <2>1, InitTablesAssumption
  <2>3. Visible = <<>> /\ Status = "running"
    BY <2>1, NothingVisible, StatusIs
  <2>4. Range(answer) = {}
    BY <2>1 DEF Range
  <2>5. Tables = Promise!Tables /\ Entry = Promise!Entry
    BY DEF Tables, Entry, Numbers, Promise!Tables, Promise!Entry, Promise!Numbers
  <2>6. Asked \in SUBSET Entry
    BY DEF Asked
  <2>7. ComparesAnswer \in BOOLEAN
    BY DEF ComparesAnswer
  <2> QED BY <2>2, <2>3, <2>4, <2>5, <2>6, <2>7 DEF Promise!Init, Asked, Visible, AsEntries
<1>2. ASSUME Base, Base', Pictured, [Next]_vars
      PROVE  [Promise!Next]_(Promise!vars)
  <2>1. TypeOK /\ Stages /\ table' \in Tables /\ table \in Tables
    BY <1>2 DEF Base, TypeOK
  <2>2. Asked' = Asked /\ Promising' = Promising /\ ComparesAnswer' = ComparesAnswer
    <3>1. UNCHANGED <<kind, opts>>
      BY <1>2 DEF Next, Start, Whole, Ask, AskAgain, PrintLine, PrintBeyond, EndOfTable, Scan,
                  Segment, ReadFolder, NextPath, Query, EndOfScan, Change, vars
    <3> QED BY <3>1 DEF Asked, UsageWants, Promising, Clear, ComparesAnswer
  <2>3. ASSUME UNCHANGED <<table, Range(answer), Visible, Status>>
        PROVE  UNCHANGED Promise!vars
    BY <2>2, <2>3 DEF Promise!vars, Asked, Visible, AsEntries
  <2>4. CASE Start
    <3>1. /\ pc = "options" /\ UNCHANGED <<table, kind, answer, shown, spoilt>>
          /\ pc' \in {"scan", "ask"} \/ (pc' = "ended" /\ exit' = 1)
      BY <2>4 DEF Start, End, kernelVars, outVars
    <3>2. shown = <<>> /\ ~spoilt
      BY <2>1, <3>1 DEF Stages
    <3>3. CASE pc' = "ended" /\ exit' = 1
      BY <2>2, <3>1, <3>2, <3>3, FailStep DEF Promise!Next
    <3>4. CASE pc' \in {"scan", "ask"}
      <4>1. UNCHANGED <<Range(answer), Visible, Status>>
        BY <2>2, <3>1, <3>2, <3>4 DEF Visible, AsEntries, Status
      <4> QED BY <2>3, <3>1, <4>1
    <3> QED BY <3>1, <3>3, <3>4
  <2>5. CASE Ask \/ AskAgain
    <3>1. /\ pc \in {"ask", "again"} /\ UNCHANGED <<table, kind, shown, spoilt>>
          /\ \/ answer' = Listing /\ pc' \in {"again", "print"}
             \/ answer' = answer /\ pc' = "ended" /\ exit' = 1
      BY <2>5 DEF Ask, AskAgain, Take, End, kernelVars, outVars
    <3>2. shown = <<>> /\ ~spoilt
      BY <2>1, <3>1 DEF Stages
    <3>3. CASE answer' = Listing /\ pc' \in {"again", "print"}
      <4>1. Range(answer)' = Present(table)
        BY <2>1, <3>3, ListingFacts DEF Range
      <4>2. Present(table) = Promise!Present(table)
        BY DEF Present, Entry, Numbers, Promise!Present, Promise!Entry, Promise!Numbers
      <4>3. Status = "running" /\ Status' = Status
        BY <2>2, <3>1, <3>2, <3>3 DEF Status
      <4>4. Visible = <<>> /\ Visible' = Visible
        BY <2>2, <3>1, <3>2, NothingVisible DEF Visible, AsEntries
      <4>5. Promise!Look
        BY <2>2, <3>1, <4>1, <4>2, <4>3, <4>4 DEF Promise!Look, Asked, Visible, AsEntries
      <4> QED BY <4>5 DEF Promise!Next
    <3>4. CASE answer' = answer /\ pc' = "ended" /\ exit' = 1
      BY <2>2, <3>1, <3>2, <3>4, FailStep DEF Promise!Next
    <3> QED BY <3>1, <3>3, <3>4
  <2>6. CASE PrintLine
    BY <1>2, <2>2, <2>3, <2>6, ShowStep DEF Promise!Next
  <2>7. CASE EndOfTable
    BY <1>2, <2>2, <2>3, <2>7, CompleteStep DEF Promise!Next
  <2>8. CASE PrintBeyond
    <3>1. /\ pc = "print" /\ i <= Len(answer) /\ i > room /\ spoilt' = TRUE
          /\ UNCHANGED <<table, kind, answer, shown>>
      BY <2>8 DEF PrintBeyond, kernelVars
    <3>2. Visible' = Visible /\ Range(answer)' = Range(answer) /\ Status' = "spoilt"
      BY <2>2, <3>1 DEF Visible, AsEntries, Status
    <3>3. CASE spoilt
      <4>1. Status = "spoilt"
        BY <3>3, StatusIs
      <4> QED BY <2>3, <3>1, <3>2, <4>1
    <3>4. CASE ~spoilt
      <4>1. Status = "running"
        BY <3>1, <3>4, StatusIs
      <4>2. Cardinality(Range(answer)) = Len(answer)
        BY <1>2, <2>1, <3>1, AnswerCardinality DEF Pictured
      <4>3. Cardinality(Range(answer)) > Room
        <5>1. Room <= room /\ room \in Nat /\ i \in Nat /\ Len(answer) \in Nat
          BY <2>1, <3>1, Types, HighestAssumption DEF Stages
        <5> QED BY <3>1, <4>2, <5>1, RoomAssumption
      <4>4. ~ComparesAnswer
        <5>1. room \in Nat /\ i \in Nat /\ Len(answer) \in Nat
          BY <2>1, Types, HighestAssumption
        <5>2. room < Len(answer)
          BY <3>1, <5>1
        <5> QED BY <2>1, <3>1, <5>2 DEF Stages, Outgrown, ComparesAnswer
      <4>5. Promise!Spoil
        BY <2>2, <3>1, <3>2, <4>1, <4>3, <4>4, SameCardinality DEF Promise!Spoil, Asked, Visible, AsEntries
      <4> QED BY <4>5 DEF Promise!Next
    <3> QED BY <3>3, <3>4
  <2>9. CASE Scan
    <3>1. /\ pc \in {"scan", "query"} /\ UNCHANGED <<table, kind, answer, spoilt>>
          /\ pc' \in {"scan", "query"} \/ (EndOfScan /\ pc' = "ended" /\ shown' = shown)
      BY <2>9 DEF Scan, Segment, ReadFolder, NextPath, Query, EndOfScan, End, kernelVars, outVars
    <3>2. kind \in ScanKinds /\ ~spoilt
      BY <2>1, <3>1 DEF Stages
    <3>3. CASE pc' \in {"scan", "query"}
      <4>1. ~Promising
        BY <3>2 DEF Promising, ScanKinds, WholeKinds
      <4>2. UNCHANGED <<Range(answer), Visible, Status>>
        BY <2>2, <3>1, <3>2, <3>3, <4>1 DEF Visible, Status
      <4> QED BY <2>3, <3>1, <4>2
    <3>4. CASE pc' = "ended" /\ shown' = shown
      <4>1. ~Promising
        BY <3>2 DEF Promising, ScanKinds, WholeKinds
      <4> QED BY <2>2, <3>1, <3>2, <3>4, <4>1, FailStep DEF Promise!Next
    <3> QED BY <3>1, <3>3, <3>4
  <2>10. CASE Change
    <3>1. UNCHANGED <<kind, pc, exit, answer, shown, spoilt>>
      BY <2>10 DEF Change, outVars
    <3>2. UNCHANGED <<Range(answer), Visible, Status>>
      BY <2>2, <3>1 DEF Visible, AsEntries, Status
    <3>3. Tables = Promise!Tables
      BY DEF Tables, Numbers, Promise!Tables, Promise!Numbers
    <3>4. Promise!Change
      BY <2>1, <2>2, <3>2, <3>3 DEF Promise!Change, Asked, Visible, AsEntries
    <3> QED BY <3>4 DEF Promise!Next
  <2>11. CASE UNCHANGED vars
    <3>1. UNCHANGED <<table, Range(answer), Visible, Status>>
      BY <2>2, <2>11 DEF vars, Visible, AsEntries, Status
    <3> QED BY <2>3, <3>1
  <2> QED BY <1>2, <2>4, <2>5, <2>6, <2>7, <2>8, <2>9, <2>10, <2>11 DEF Next, Whole
<1> QED BY <1>1, <1>2, BaseHolds, PicturedInit, PicturedStep, PTL
        DEF Spec, PromiseSpec, Promise!Spec
=============================================================================
