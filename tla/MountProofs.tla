---------------------------- MODULE MountProofs ----------------------------
(***************************************************************************)
(* Theorems about Mount, for any processes, commands, devices, fstab and   *)
(* mount table.                                                            *)
(***************************************************************************)
EXTENDS Mount, SequenceTheorems, TLAPS

\* The lines of a table are a sequence as long as the table.
LEMMA MtabLinesType ==
    ASSUME NEW entries \in Seq(Entry)
    PROVE  MtabLines(entries) \in Seq(MtabLineType)
<1>1. \A i \in DOMAIN entries : entries[i] \in Entry
  BY LenProperties, ElementOfSeq
<1>2. \A e \in Entry : MtabLine(e) \in MtabLineType
  BY DEF Entry, MtabLine, MtabLineType
<1>3. DOMAIN entries = 1..Len(entries) /\ Len(entries) \in Nat
  BY LenProperties
<1> QED BY <1>1, <1>2, <1>3, IsASeq DEF MtabLines

\* Writing over the beginning of a file leaves a file, and writing to an
\* empty one leaves what was written.
LEMMA OverwrittenType ==
    ASSUME NEW S, NEW file \in Seq(S), NEW content \in Seq(S)
    PROVE  /\ Overwritten(file, content) \in Seq(S)
           /\ file = << >> => Overwritten(file, content) = content
<1>1. Len(file) \in Nat /\ Len(content) \in Nat
  BY LenProperties
<1>2. SubSeq(file, Len(content) + 1, Len(file)) \in Seq(S)
  BY <1>1, SubSeqProperties
<1>3. Overwritten(file, content) \in Seq(S)
  BY <1>2, ConcatProperties DEF Overwritten
<1>4. ASSUME file = << >>
      PROVE  Overwritten(file, content) = content
  <2>1. SubSeq(file, Len(content) + 1, Len(file)) = << >>
    BY <1>1, <1>4, SubSeqEmpty, EmptySeq
  <2> QED BY <2>1, ConcatEmptySeq DEF Overwritten
<1> QED BY <1>3, <1>4

-----------------------------------------------------------------------------
(* Type correctness.                                                       *)

\* A granted request leaves a mount table, if it is a remount or complete.
LEMMA GrantType ==
    ASSUME TypeOK, NEW p \in Procs, NEW r \in Request,
           "remount" \in r.flags \/ r \in Entry,
           Grant(p, r)
    PROVE  /\ mounts' \in Seq(Entry)
           /\ granted' \in [Procs -> Seq(Nat \X Request)]
           /\ quiet' \subseteq Procs
<1>1. mounts \in Seq(Entry) /\ granted \in [Procs -> Seq(Nat \X Request)]
  BY DEF TypeOK
<1>2. mounts' \in Seq(Entry)
  <2>1. CASE "remount" \in r.flags
    <3>1. PICK i \in DOMAIN mounts :
             mounts' = [mounts EXCEPT ![i].flags = r.flags \ {"remount"}]
      BY <2>1 DEF Grant
    <3>2. i \in 1..Len(mounts) /\ mounts[i] \in Entry
      BY <1>1, LenProperties, ElementOfSeq
    <3>3. [mounts[i] EXCEPT !.flags = r.flags \ {"remount"}] \in Entry
      BY <3>2 DEF Entry, Request
    <3>4. mounts' = [mounts EXCEPT ![i] = [mounts[i] EXCEPT !.flags = r.flags \ {"remount"}]]
      BY <3>1
    <3> QED BY <1>1, <3>2, <3>3, <3>4, ExceptSeq
  <2>2. CASE "remount" \notin r.flags
    <3>1. mounts' = Append(mounts, r) /\ r \in Entry
      BY <2>2 DEF Grant
    <3> QED BY <1>1, <3>1, AppendProperties
  <2> QED BY <2>1, <2>2
<1>3. granted' \in [Procs -> Seq(Nat \X Request)]
  <2>1. <<line[p], r>> \in Nat \X Request
    BY DEF TypeOK
  <2>2. Append(granted[p], <<line[p], r>>) \in Seq(Nat \X Request)
    BY <1>1, <2>1, AppendProperties
  <2> QED BY <1>1, <2>2 DEF Grant
<1> QED BY <1>2, <1>3 DEF Grant

\* What a line of fstab asks for is complete.
LEMMA AskedType ==
    ASSUME NEW n \in 1..Len(Fstab), Fstab[n].kind # "malformed",
           NEW r \in Asked(n)
    PROVE  r \in Entry
<1>1. Fstab[n] \in FstabLineType
  BY FstabAssumption, ElementOfSeq
<1>2. Fstab[n].kind = "fields"
  BY <1>1 DEF FstabLineType, Asked
<1>3. /\ Fstab[n].source \in Sources \union UUIDs
      /\ Fstab[n].target \in Targets
      /\ Fstab[n].type \in Types
      /\ Fstab[n].flags \in SUBSET Flags
  BY <1>1, <1>2 DEF FstabLineType
<1>4. \A u : Found(u) \subseteq Sources
  <2>1. \A i \in DOMAIN DevFolder : DevFolder[i] \in DevEntry
    BY DevFolderAssumption, LenProperties, ElementOfSeq
  <2> QED BY <2>1 DEF Found, DevEntry
<1> QED BY <1>2, <1>3, <1>4 DEF Asked, Entry

\* What a line of fstab asks for serves this line.
LEMMA AskedServes ==
    ASSUME NEW n \in 1..Len(Fstab), Fstab[n].kind # "malformed",
           NEW r \in Asked(n)
    PROVE  Serves(n, r)
<1>1. Fstab[n].kind = "fields" /\ r.target = Fstab[n].target
  BY DEF Asked
<1>2. CASE Fstab[n].source \in UUIDs
  <2>1. r.source \in Found(Fstab[n].source)
    BY <1>1, <1>2 DEF Asked
  <2>2. PICK d \in DOMAIN DevFolder :
           /\ DevFolder[d].name = r.source
           /\ DevFolder[d].uuid = Fstab[n].source
           /\ \A e \in 1..d - 1 : DevFolder[e].uuid \notin {Fstab[n].source, "none"}
    BY <2>1 DEF Found
  <2>3. \A e \in 1..d : e \in 1..d - 1 \/ e = d
    BY DevFolderAssumption, LenProperties
  <2>4. \A e \in 1..d : DevFolder[e].uuid # "none"
    BY <1>2, <2>2, <2>3, NamesAssumption
  <2> QED BY <1>1, <1>2, <2>2, <2>4 DEF Serves
<1>3. CASE Fstab[n].source \notin UUIDs
  <2>1. r.source = Fstab[n].source
    BY <1>1, <1>3 DEF Asked
  <2> QED BY <1>1, <1>3, <2>1 DEF Serves
<1> QED BY <1>2, <1>3

\* Every step keeps the variables in their ranges.
LEMMA TypeStep ==
    ASSUME TypeOK, PlacesMatch, [Next]_vars
    PROVE  TypeOK'
<1> DEFINE Places == {"begin", "fat", "fstab", "list", "open", "close"} \union Ended
<1>a. /\ mounts \in Seq(Entry)
      /\ mtab \in Seq(MtabLineType)
      /\ list \in [Procs -> Seq(Entry)]
      /\ \A p \in Procs : Len(list[p]) <= ListMax
      /\ pc \in [Procs -> Places]
      /\ line \in [Procs -> Nat]
      /\ cmd \in [Procs -> Commands]
      /\ quiet \subseteq Procs
  BY DEF TypeOK
<1>b. /\ {"begin", "fat", "fstab", "list", "open", "close", "ok", "failed", "killed"}
           \subseteq Places
      /\ \A p, place : Goto(p, place) /\ place \in Places => pc' \in [Procs -> Places]
  BY <1>a DEF Goto, Ended
<1>c. \A p \in Procs, ok \in BOOLEAN : AfterFirst(p, ok) \in Places
  BY <1>b DEF AfterFirst
<1>d. \A p \in Procs : cmd[p] \in Command
  BY <1>a, CommandsAssumption
<1> HIDE DEF Places
<1>1. ASSUME NEW p \in Procs, MountPaths(p)
      PROVE  TypeOK'
  <2> DEFINE any == cmd[p].type = "any"
             r   == [source |-> cmd[p].source, target |-> cmd[p].target,
                     type   |-> IF any THEN "ext" ELSE cmd[p].type,
                     flags  |-> IF any THEN cmd[p].flags ELSE {}]
  <2>1. r \in Entry /\ r \in Request
    BY <1>1, <1>d DEF MountPaths, Command, Entry, Request, Types
  <2>2. Grant(p, r) \/ Refuse
    BY <1>1 DEF MountPaths
  <2>3. pc' \in [Procs -> Places] /\ UNCHANGED <<mtab, cmd, line, list>>
    BY <1>1, <1>b, <1>c DEF MountPaths
  <2> HIDE DEF r
  <2> QED BY <1>a, <2>1, <2>2, <2>3, GrantType DEF TypeOK, Refuse, Places
<1>2. ASSUME NEW p \in Procs, MountFat(p)
      PROVE  TypeOK'
  <2> DEFINE r == [source |-> cmd[p].source, target |-> cmd[p].target,
                   type   |-> "fat", flags |-> cmd[p].flags]
  <2>1. cmd[p].op = "mount"
    BY <1>2 DEF MountFat, PlacesMatch
  <2>2. r \in Entry /\ r \in Request
    BY <2>1, <1>d DEF Command, Entry, Request, Types
  <2>3. Grant(p, r) \/ Refuse
    BY <1>2 DEF MountFat
  <2>4. pc' \in [Procs -> Places] /\ UNCHANGED <<mtab, cmd, line, list>>
    BY <1>2, <1>b DEF MountFat
  <2> HIDE DEF r
  <2> QED BY <1>a, <2>2, <2>3, <2>4, GrantType
          DEF TypeOK, Refuse, Places
<1>3. ASSUME NEW p \in Procs, MountOnePath(p)
      PROVE  TypeOK'
  <2> DEFINE r == [source |-> "", target |-> cmd[p].target,
                   type   |-> "unknown", flags |-> cmd[p].flags]
  <2>1. r \in Request
    BY <1>3, <1>d DEF MountOnePath, Command, Request, Types
  <2>2. ("remount" \in r.flags /\ Grant(p, r)) \/ Refuse
    BY <1>3 DEF MountOnePath
  <2>3. pc' \in [Procs -> Places] /\ UNCHANGED <<mtab, cmd, line, list>>
    BY <1>3, <1>b DEF MountOnePath
  <2> HIDE DEF r
  <2> QED BY <1>a, <2>1, <2>2, <2>3, GrantType DEF TypeOK, Refuse, Places
<1>4. ASSUME NEW p \in Procs, OpenFstab(p) \/ EndOfFstab(p)
      PROVE  TypeOK'
  BY <1>a, <1>b, <1>4 DEF OpenFstab, EndOfFstab, TypeOK, Places
<1>5. ASSUME NEW p \in Procs, FstabLine(p)
      PROVE  TypeOK'
  <2>1. line[p] \in 1..Len(Fstab) /\ Fstab[line[p]].kind # "malformed"
    <3>1. pc[p] = "fstab" /\ ~StopsAt(line[p])
      BY <1>5 DEF FstabLine
    <3>2. line[p] \in Nat /\ line[p] >= 1 /\ Len(Fstab) \in Nat
      BY <1>a, <3>1, FstabAssumption, LenProperties DEF PlacesMatch
    <3> QED BY <3>1, <3>2 DEF StopsAt
  <2>2. UNCHANGED <<mtab, cmd, pc, list>> /\ line' \in [Procs -> Nat]
    BY <1>5, <1>a DEF FstabLine
  <2>3. CASE Refuse
    BY <1>a, <2>2, <2>3 DEF TypeOK, Refuse, Places
  <2>4. ASSUME NEW r \in Asked(line[p]), Grant(p, r)
        PROVE  TypeOK'
    <3>1. r \in Entry /\ r \in Request
      BY <2>1, AskedType DEF Entry, Request
    <3> QED BY <1>a, <2>2, <2>4, <3>1, GrantType DEF TypeOK, Places
  <2> QED BY <1>5, <2>3, <2>4 DEF FstabLine
<1>6. ASSUME NEW p \in Procs, List(p)
      PROVE  TypeOK'
  <2>1. pc' \in [Procs -> Places] /\ UNCHANGED <<mounts, mtab, cmd, line, granted>>
    BY <1>6, <1>b DEF List
  <2>2. /\ quiet' \subseteq Procs
        /\ list' \in [Procs -> Seq(Entry)]
        /\ \A q \in Procs : Len(list'[q]) <= ListMax
    BY <1>6, <1>a DEF List, Fits
  <2> QED BY <2>1, <2>2 DEF TypeOK, Places
<1>7. ASSUME NEW p \in Procs, OpenMtab(p)
      PROVE  TypeOK'
  <2>1. pc' \in [Procs -> Places] /\ UNCHANGED <<mounts, cmd, line, list, granted, quiet>>
    BY <1>7, <1>b DEF OpenMtab
  <2>2. mtab' \in Seq(MtabLineType)
    BY <1>7, <1>a, EmptySeq DEF OpenMtab, Opened
  <2> QED BY <1>a, <2>1, <2>2 DEF TypeOK, Places
<1>8. ASSUME NEW p \in Procs, CloseMtab(p) \/ CloseMtabShort(p)
      PROVE  TypeOK'
  <2>1. pc' \in [Procs -> Places] /\ UNCHANGED <<mounts, cmd, line, list, granted>>
    BY <1>8, <1>b DEF CloseMtab, CloseMtabShort
  <2>2. quiet' \subseteq Procs
    BY <1>8, <1>a DEF CloseMtab, CloseMtabShort, Written
  <2>3. MtabLines(list[p]) \in Seq(MtabLineType)
    BY <1>a, MtabLinesType
  <2>4. CASE CloseMtab(p)
    <3>1. mtab' \in Seq(MtabLineType)
      BY <1>a, <2>3, <2>4, OverwrittenType DEF CloseMtab
    <3> QED BY <1>a, <2>1, <2>2, <3>1 DEF TypeOK, Places
  <2>5. CASE CloseMtabShort(p)
    <3>1. PICK n \in 0..Len(list[p]) - 1 :
             mtab' = Overwritten(mtab, SubSeq(MtabLines(list[p]), 1, n))
      BY <2>5 DEF CloseMtabShort
    <3>2. Len(list[p]) \in Nat /\ Len(MtabLines(list[p])) = Len(list[p])
      BY <1>a, <2>3, LenProperties DEF MtabLines
    <3>3. SubSeq(MtabLines(list[p]), 1, n) \in Seq(MtabLineType)
      BY <2>3, <3>2, SubSeqProperties, ElementOfSeq
    <3>4. mtab' \in Seq(MtabLineType)
      BY <1>a, <3>1, <3>3, OverwrittenType
    <3> QED BY <1>a, <2>1, <2>2, <3>4 DEF TypeOK, Places
  <2> QED BY <1>8, <2>4, <2>5
<1>9. ASSUME NEW p \in Procs, Umount(p)
      PROVE  TypeOK'
  <2>1. pc' \in [Procs -> Places] /\ UNCHANGED <<mtab, cmd, line, list, granted>>
    BY <1>9, <1>b DEF Umount
  <2>2. quiet' \subseteq Procs
    BY <1>9, <1>a DEF Umount
  <2>3. mounts' \in Seq(Entry)
    <3>1. CASE UNCHANGED mounts
      BY <1>a, <3>1
    <3>2. ASSUME NEW i \in DOMAIN mounts, mounts' = RemoveAt(mounts, i)
          PROVE  mounts' \in Seq(Entry)
      <4>1. Len(mounts) \in Nat /\ i \in 1..Len(mounts)
        BY <1>a, LenProperties
      <4>2. \A j \in 1..Len(mounts) : mounts[j] \in Entry
        BY <1>a, ElementOfSeq
      <4>3. SubSeq(mounts, 1, i - 1) \in Seq(Entry)
        BY <4>1, <4>2, SubSeqProperties
      <4>4. SubSeq(mounts, i + 1, Len(mounts)) \in Seq(Entry)
        BY <4>1, <4>2, SubSeqProperties
      <4> QED BY <3>2, <4>3, <4>4, ConcatProperties DEF RemoveAt
    <3> QED BY <1>9, <3>1, <3>2 DEF Umount
  <2> QED BY <1>a, <2>1, <2>2, <2>3 DEF TypeOK, Places
<1>10. ASSUME NEW p \in Procs, Kill(p)
       PROVE  TypeOK'
  BY <1>a, <1>b, <1>10 DEF Kill, TypeOK, Places
<1>11. CASE UNCHANGED vars
  BY <1>11 DEF vars, TypeOK
<1> QED BY <1>1, <1>2, <1>3, <1>4, <1>5, <1>6, <1>7, <1>8, <1>9, <1>10, <1>11
        DEF Next, Step

\* Every step leaves each process where its command leads.
LEMMA PlacesStep ==
    ASSUME TypeOK, PlacesMatch, [Next]_vars
    PROVE  PlacesMatch'
<1>a. pc \in [Procs -> {"begin", "fat", "fstab", "list", "open", "close"} \union Ended]
      /\ line \in [Procs -> Nat]
  BY DEF TypeOK
<1>1. ASSUME NEW p \in Procs, MountPaths(p)
      PROVE  PlacesMatch'
  <2>1. /\ cmd[p].op = "mount" /\ UNCHANGED <<cmd, line>>
        /\ \E place \in {"list", "fat", "failed"} : Goto(p, place)
    BY <1>1 DEF MountPaths, AfterFirst
  <2> QED BY <1>a, <2>1 DEF Goto, PlacesMatch
<1>2. ASSUME NEW p \in Procs, MountFat(p) \/ MountOnePath(p) \/ List(p)
      PROVE  PlacesMatch'
  <2>1. /\ UNCHANGED <<cmd, line>>
        /\ \E place \in {"list", "open", "failed", "ok"} : Goto(p, place)
    BY <1>2 DEF MountFat, MountOnePath, List
  <2> QED BY <1>a, <2>1 DEF Goto, PlacesMatch
<1>3. ASSUME NEW p \in Procs, OpenFstab(p)
      PROVE  PlacesMatch'
  BY <1>a, <1>3 DEF OpenFstab, Goto, PlacesMatch
<1>4. ASSUME NEW p \in Procs, FstabLine(p)
      PROVE  PlacesMatch'
  BY <1>a, <1>4 DEF FstabLine, PlacesMatch
<1>5. ASSUME NEW p \in Procs,
             EndOfFstab(p) \/ OpenMtab(p) \/ CloseMtab(p) \/ CloseMtabShort(p)
               \/ Umount(p) \/ Kill(p)
      PROVE  PlacesMatch'
  <2>1. /\ UNCHANGED <<cmd, line>>
        /\ \E place \in {"list", "close", "ok", "failed", "killed"} : Goto(p, place)
    BY <1>5 DEF EndOfFstab, OpenMtab, CloseMtab, CloseMtabShort, Umount, Kill
  <2> QED BY <1>a, <2>1 DEF Goto, PlacesMatch
<1>6. CASE UNCHANGED vars
  BY <1>6 DEF vars, PlacesMatch
<1> QED BY <1>1, <1>2, <1>3, <1>4, <1>5, <1>6 DEF Next, Step

\* Type correctness: in every reachable state each variable is in its
\* range, and no process holds more entries of the mount table than its
\* buffer has room for.
THEOREM TypeCorrect == Spec => [](TypeOK /\ PlacesMatch)
<1>1. Init => TypeOK /\ PlacesMatch
  <2> SUFFICES ASSUME Init PROVE TypeOK /\ PlacesMatch
    OBVIOUS
  <2>1. mounts \in Seq(Entry) /\ mtab \in Seq(MtabLineType)
    BY InitMountsAssumption, MtabLinesType DEF Init
  <2>2. \A S : << >> \in Seq(S)
    BY EmptySeq
  <2>3. /\ list \in [Procs -> Seq(Entry)]
        /\ granted \in [Procs -> Seq(Nat \X Request)]
    BY <2>2 DEF Init
  <2>4. \A p \in Procs : Len(list[p]) <= ListMax
    BY ListMaxAssumption DEF Init
  <2>5. /\ pc = [p \in Procs |-> "begin"] /\ line = [p \in Procs |-> 0]
        /\ cmd \in [Procs -> Commands] /\ quiet = {}
    BY DEF Init
  <2>6. PlacesMatch
    BY <2>5 DEF PlacesMatch
  <2> QED BY <2>1, <2>3, <2>4, <2>5, <2>6 DEF TypeOK
<1>2. TypeOK /\ PlacesMatch /\ [Next]_vars => (TypeOK /\ PlacesMatch)'
  BY TypeStep, PlacesStep
<1> QED BY <1>1, <1>2, PTL DEF Spec

-----------------------------------------------------------------------------
(* mtab.                                                                   *)

\* A step that changes the mount table ends the quiet of every process, and
\* one that writes mtab that of every process that has it open.
LEMMA QuietStep ==
    ASSUME TypeOK, QuietListIsCurrent, [Next]_vars
    PROVE  QuietListIsCurrent'
<1>a. /\ pc \in [Procs -> {"begin", "fat", "fstab", "list", "open", "close"} \union Ended]
      /\ list \in [Procs -> Seq(Entry)]
      /\ quiet \subseteq Procs
  BY DEF TypeOK
<1>1. ASSUME quiet' = {}
      PROVE  QuietListIsCurrent'
  BY <1>1 DEF QuietListIsCurrent
<1>2. ASSUME NEW p \in Procs, NEW place, place \notin {"open", "close"},
             Goto(p, place), UNCHANGED <<mounts, mtab, list, quiet>>
      PROVE  QuietListIsCurrent'
  BY <1>a, <1>2 DEF Goto, QuietListIsCurrent
<1>3. ASSUME NEW p \in Procs,
             MountPaths(p) \/ MountFat(p) \/ MountOnePath(p) \/ FstabLine(p)
               \/ OpenFstab(p) \/ EndOfFstab(p) \/ Umount(p) \/ Kill(p)
      PROVE  QuietListIsCurrent'
  <2>1. CASE quiet' = {}
    BY <1>1, <2>1
  <2>2. CASE FstabLine(p) /\ Refuse
    BY <2>2 DEF FstabLine, Refuse, QuietListIsCurrent
  <2>3. CASE /\ UNCHANGED <<mounts, mtab, list, quiet>>
             /\ \E place \in {"fat", "fstab", "list", "ok", "failed", "killed"} :
                   Goto(p, place)
    BY <1>2, <2>3
  <2> QED BY <1>3, <2>1, <2>2, <2>3
          DEF MountPaths, MountFat, MountOnePath, FstabLine, OpenFstab,
              EndOfFstab, Umount, Kill, Grant, Refuse, AfterFirst
<1>4. ASSUME NEW p \in Procs, List(p)
      PROVE  QuietListIsCurrent'
  <2>1. CASE UNCHANGED quiet
    BY <1>a, <1>4, <2>1 DEF List, Goto, QuietListIsCurrent
  <2>2. CASE list' = [list EXCEPT ![p] = mounts] /\ Goto(p, "open")
    BY <1>a, <1>4, <2>2 DEF List, Goto, QuietListIsCurrent
  <2> QED BY <1>4, <2>1, <2>2 DEF List
<1>5. ASSUME NEW p \in Procs, OpenMtab(p)
      PROVE  QuietListIsCurrent'
  BY <1>a, <1>5 DEF OpenMtab, Opened, Goto, QuietListIsCurrent
<1>6. ASSUME NEW p \in Procs, CloseMtab(p) \/ CloseMtabShort(p)
      PROVE  QuietListIsCurrent'
  <2>1. /\ UNCHANGED <<mounts, list>> /\ quiet' = {q \in quiet : pc[q] # "close"}
        /\ pc' = [pc EXCEPT ![p] = "ok"]
    BY <1>6 DEF CloseMtab, CloseMtabShort, Written, Goto
  <2>2. \A q \in quiet' : q \in quiet /\ pc'[q] # "close"
                          /\ (pc'[q] = "open" => pc[q] = "open")
    BY <1>a, <2>1
  <2> QED BY <2>1, <2>2 DEF QuietListIsCurrent
<1>7. CASE UNCHANGED vars
  BY <1>7 DEF vars, QuietListIsCurrent
<1> QED BY <1>3, <1>4, <1>5, <1>6, <1>7 DEF Next, Step

\* A process that is quiet has the kernel's table in its list.
THEOREM QuietListIsCurrentHolds == Spec => []QuietListIsCurrent
<1>1. Init => QuietListIsCurrent
  BY DEF Init, QuietListIsCurrent
<1>2. TypeOK /\ QuietListIsCurrent /\ [Next]_vars => QuietListIsCurrent'
  BY QuietStep
<1> QED BY <1>1, <1>2, TypeCorrect, PTL DEF Spec

\* Whatever happened to mtab before, a mount that is quiet when it writes
\* mtab leaves it equal to the kernel's table (mount.c:83-114).
THEOREM MountHeals == Spec => MountHealsMtab
<1>1. TypeOK /\ QuietListIsCurrent /\ [Next]_vars =>
         \A p \in Procs : CloseMtab(p) /\ p \in quiet => mtab' = MtabLines(mounts')
  <2> SUFFICES ASSUME TypeOK, QuietListIsCurrent,
                      NEW p \in Procs, CloseMtab(p), p \in quiet
               PROVE  mtab' = MtabLines(mounts')
    OBVIOUS
  <2>1. list[p] = mounts /\ mtab = << >> /\ mounts' = mounts
    BY DEF CloseMtab, QuietListIsCurrent
  <2>2. mtab' = Overwritten(mtab, MtabLines(mounts))
    BY <2>1 DEF CloseMtab
  <2>3. mtab \in Seq(MtabLineType) /\ MtabLines(mounts) \in Seq(MtabLineType)
    BY MtabLinesType DEF TypeOK
  <2> QED BY <2>1, <2>2, <2>3, OverwrittenType
<1> QED BY <1>1, TypeCorrect, QuietListIsCurrentHolds, PTL DEF Spec, MountHealsMtab

-----------------------------------------------------------------------------
(* What the commands are granted.                                          *)

\* A granted request is the last that its process has been granted.
LEMMA GrantAppends ==
    ASSUME TypeOK, NEW p \in Procs, NEW r \in Request, Grant(p, r)
    PROVE  /\ \A q \in Procs : q # p => granted'[q] = granted[q]
           /\ Len(granted[p]) \in Nat
           /\ Len(granted'[p]) = Len(granted[p]) + 1
           /\ DOMAIN granted'[p] = 1..Len(granted[p]) + 1
           /\ DOMAIN granted[p] = 1..Len(granted[p])
           /\ \A k \in 1..Len(granted[p]) : granted'[p][k] = granted[p][k]
           /\ granted'[p][Len(granted[p]) + 1] = <<line[p], r>>
<1> DEFINE pair == <<line[p], r>>
<1>1. granted \in [Procs -> Seq(Nat \X Request)] /\ pair \in Nat \X Request
  BY DEF TypeOK
<1>2. granted' = [granted EXCEPT ![p] = Append(@, pair)]
  BY DEF Grant
<1>3. pair = <<line[p], r>>
  OBVIOUS
<1> HIDE DEF pair
<1>4. granted'[p] = Append(granted[p], pair) /\ granted[p] \in Seq(Nat \X Request)
  BY <1>1, <1>2
<1>5. granted'[p] \in Seq(Nat \X Request)
  BY <1>1, <1>4, AppendProperties
<1>6. /\ Len(granted'[p]) = Len(granted[p]) + 1
      /\ \A k \in 1..Len(granted[p]) : granted'[p][k] = granted[p][k]
      /\ granted'[p][Len(granted[p]) + 1] = pair
  BY <1>1, <1>4, AppendProperties
<1>7. /\ Len(granted[p]) \in Nat
      /\ DOMAIN granted[p] = 1..Len(granted[p])
      /\ DOMAIN granted'[p] = 1..Len(granted'[p])
  BY <1>4, <1>5, LenProperties
<1>8. \A q \in Procs : q # p => granted'[q] = granted[q]
  BY <1>1, <1>2
<1> QED BY <1>3, <1>6, <1>7, <1>8

\* Every step keeps what is granted in line with where the processes are.
LEMMA GrantsStep ==
    ASSUME TypeOK, PlacesMatch, GrantsMatch, [Next]_vars
    PROVE  GrantsMatch'
<1>a. /\ pc \in [Procs -> {"begin", "fat", "fstab", "list", "open", "close"} \union Ended]
      /\ line \in [Procs -> Nat]
      /\ granted \in [Procs -> Seq(Nat \X Request)]
  BY DEF TypeOK
<1>b. \A p \in Procs : cmd[p] \in Command
  BY CommandsAssumption DEF TypeOK
<1>c. Len(<< >>) = 0 /\ DOMAIN << >> = {}
  OBVIOUS
<1>d. ASSUME NEW p \in Procs, cmd' = cmd, GrantsOf(p)',
             \A q \in Procs : q # p => /\ pc'[q] = pc[q]
                                       /\ line'[q] = line[q]
                                       /\ granted'[q] = granted[q]
      PROVE  GrantsMatch'
  BY <1>d DEF GrantsMatch, GrantsOf
<1>1. ASSUME NEW p \in Procs, NEW r \in Request, Grant(p, r), Goto(p, "list"),
             pc[p] \in {"begin", "fat"}, cmd[p].op \in {"mount", "one_path"},
             UNCHANGED <<cmd, line>>
      PROVE  GrantsMatch'
  <2>1. granted[p] = << >>
    BY <1>1 DEF GrantsMatch, GrantsOf
  <2>2. /\ Len(granted'[p]) = Len(granted[p]) + 1
        /\ \A q \in Procs : q # p => granted'[q] = granted[q]
    BY <1>1, GrantAppends
  <2>3. Len(granted'[p]) = 1
    BY <1>c, <2>1, <2>2
  <2>4. pc'[p] = "list" /\ \A q \in Procs : q # p => pc'[q] = pc[q]
    BY <1>a, <1>1 DEF Goto
  <2>5. GrantsOf(p)'
    BY <1>1, <2>3, <2>4 DEF GrantsOf
  <2> QED BY <1>1, <1>d, <2>2, <2>4, <2>5
<1>2. ASSUME NEW p \in Procs, UNCHANGED <<cmd, line, granted>>,
             NEW place, Goto(p, place),
             \/ pc[p] \in {"begin", "fat"} /\ place \in {"fat", "failed"}
             \/ pc[p] = "fstab" /\ place = "list"
             \/ cmd[p].op = "umount" /\ place \in {"ok", "failed"}
             \/ cmd[p].op = "fstab" /\ place = "failed"
             \/ pc[p] = "list" /\ place \in {"open", "ok"}
             \/ pc[p] = "open" /\ place \in {"close", "ok"}
             \/ pc[p] = "close" /\ place = "ok"
             \/ place = "killed"
      PROVE  GrantsMatch'
  <2>1. pc'[p] = place /\ \A q \in Procs : q # p => pc'[q] = pc[q]
    BY <1>a, <1>2 DEF Goto
  <2>2. GrantsOf(p)'
    BY <1>2, <1>c, <2>1 DEF GrantsMatch, GrantsOf, PlacesMatch
  <2> QED BY <1>2, <1>d, <2>1, <2>2
<1>3. ASSUME NEW p \in Procs, MountPaths(p)
      PROVE  GrantsMatch'
  <2> DEFINE any == cmd[p].type = "any"
             r   == [source |-> cmd[p].source, target |-> cmd[p].target,
                     type   |-> IF any THEN "ext" ELSE cmd[p].type,
                     flags  |-> IF any THEN cmd[p].flags ELSE {}]
  <2>1. pc[p] = "begin" /\ cmd[p].op = "mount" /\ UNCHANGED <<cmd, line>>
    BY <1>3 DEF MountPaths
  <2>2. r \in Request
    BY <2>1, <1>b DEF Command, Request, Types
  <2>3. \/ Grant(p, r) /\ Goto(p, "list")
        \/ Refuse /\ (Goto(p, "fat") \/ Goto(p, "failed"))
    BY <1>3 DEF MountPaths, AfterFirst
  <2> HIDE DEF r
  <2> QED BY <1>1, <1>2, <2>1, <2>2, <2>3 DEF Refuse
<1>4. ASSUME NEW p \in Procs, MountFat(p)
      PROVE  GrantsMatch'
  <2> DEFINE r == [source |-> cmd[p].source, target |-> cmd[p].target,
                   type   |-> "fat", flags |-> cmd[p].flags]
  <2>1. pc[p] = "fat" /\ cmd[p].op = "mount" /\ UNCHANGED <<cmd, line>>
    BY <1>4 DEF MountFat, PlacesMatch
  <2>2. r \in Request
    BY <2>1, <1>b DEF Command, Request, Types
  <2>3. \/ Grant(p, r) /\ Goto(p, "list")
        \/ Refuse /\ Goto(p, "failed")
    BY <1>4 DEF MountFat
  <2> HIDE DEF r
  <2> QED BY <1>1, <1>2, <2>1, <2>2, <2>3 DEF Refuse
<1>5. ASSUME NEW p \in Procs, MountOnePath(p)
      PROVE  GrantsMatch'
  <2> DEFINE r == [source |-> "", target |-> cmd[p].target,
                   type   |-> "unknown", flags |-> cmd[p].flags]
  <2>1. pc[p] = "begin" /\ cmd[p].op = "one_path" /\ UNCHANGED <<cmd, line>>
    BY <1>5 DEF MountOnePath
  <2>2. r \in Request
    BY <2>1, <1>b DEF Command, Request, Types
  <2>3. \/ Grant(p, r) /\ Goto(p, "list")
        \/ Refuse /\ Goto(p, "failed")
    BY <1>5 DEF MountOnePath
  <2> HIDE DEF r
  <2> QED BY <1>1, <1>2, <2>1, <2>2, <2>3 DEF Refuse
<1>6. ASSUME NEW p \in Procs, OpenFstab(p)
      PROVE  GrantsMatch'
  <2>1. cmd[p].op = "fstab" /\ pc[p] = "begin" /\ granted[p] = << >>
    BY <1>6 DEF OpenFstab, GrantsMatch, GrantsOf
  <2>2. UNCHANGED <<cmd, granted>>
    BY <1>6 DEF OpenFstab
  <2>3. CASE Goto(p, "failed") /\ UNCHANGED line
    BY <1>2, <2>1, <2>2, <2>3
  <2>4. CASE Goto(p, "fstab") /\ line' = [line EXCEPT ![p] = 1]
    <3>1. pc'[p] = "fstab" /\ line'[p] = 1
      BY <1>a, <2>4 DEF Goto
    <3>2. GrantsOf(p)'
      BY <1>c, <2>1, <2>2, <3>1 DEF GrantsOf
    <3>3. \A q \in Procs : q # p => pc'[q] = pc[q] /\ line'[q] = line[q]
      BY <1>a, <2>4 DEF Goto
    <3> QED BY <1>d, <2>2, <3>2, <3>3
  <2> QED BY <1>6, <2>3, <2>4 DEF OpenFstab
<1>7. ASSUME NEW p \in Procs, FstabLine(p)
      PROVE  GrantsMatch'
  <2>1. /\ pc[p] = "fstab" /\ cmd[p].op = "fstab" /\ UNCHANGED <<cmd, pc>>
        /\ line[p] \in 1..Len(Fstab) /\ Fstab[line[p]].kind # "malformed"
    <3>1. pc[p] = "fstab" /\ ~StopsAt(line[p]) /\ UNCHANGED <<cmd, pc>>
      BY <1>7 DEF FstabLine
    <3>2. line[p] \in Nat /\ line[p] >= 1 /\ Len(Fstab) \in Nat
      BY <1>a, <3>1, FstabAssumption, LenProperties DEF PlacesMatch
    <3> QED BY <3>1, <3>2 DEF StopsAt, PlacesMatch
  <2>2. line'[p] = line[p] + 1 /\ \A q \in Procs : q # p => line'[q] = line[q]
    BY <1>7, <1>a DEF FstabLine
  <2>3. \A m \in 1..line'[p] - 1 : Fstab[m].kind # "malformed"
    BY <1>a, <2>1, <2>2 DEF GrantsMatch, GrantsOf
  <2>4. granted[p] \in Seq(Nat \X Request)
    BY <1>a
  <2>5. \A k \in DOMAIN granted[p] :
           /\ granted[p][k][1] \in Nat
           /\ granted[p][k][1] < line[p]
           /\ Serves(granted[p][k][1], granted[p][k][2])
           /\ \A j \in 1..k - 1 : granted[p][j][1] < granted[p][k][1]
    <3>1. \A k \in DOMAIN granted[p] : granted[p][k] \in Nat \X Request
      BY <2>4, LenProperties, ElementOfSeq
    <3> QED BY <2>1, <3>1 DEF GrantsMatch, GrantsOf
  <2>6. CASE Refuse
    <3>1. GrantsOf(p)'
      BY <1>a, <2>1, <2>2, <2>3, <2>5, <2>6 DEF GrantsOf, Refuse, Serves
    <3> QED BY <1>d, <2>1, <2>2, <2>6, <3>1 DEF Refuse
  <2>7. ASSUME NEW r \in Asked(line[p]), Grant(p, r)
        PROVE  GrantsMatch'
    <3>1. r \in Request
      BY <2>1, AskedType DEF Entry, Request
    <3> DEFINE n == Len(granted[p])
    <3>2. /\ \A q \in Procs : q # p => granted'[q] = granted[q]
          /\ n \in Nat
          /\ DOMAIN granted'[p] = 1..n + 1
          /\ DOMAIN granted[p] = 1..n
          /\ \A k \in 1..n : granted'[p][k] = granted[p][k]
          /\ granted'[p][n + 1] = <<line[p], r>>
      BY <2>7, <3>1, GrantAppends
    <3> HIDE DEF n
    <3>3. ASSUME NEW k \in 1..n + 1
          PROVE  /\ granted'[p][k][1] < line'[p]
                 /\ Serves(granted'[p][k][1], granted'[p][k][2])
                 /\ \A j \in 1..k - 1 : granted'[p][j][1] < granted'[p][k][1]
      <4>1. \A j \in 1..n : /\ granted'[p][j][1] = granted[p][j][1]
                            /\ granted'[p][j][1] \in Nat
                            /\ granted'[p][j][1] < line[p]
        BY <2>5, <3>2
      <4>2. line'[p] = line[p] + 1 /\ line[p] \in Nat
        BY <1>a, <2>2
      <4>3. granted'[p][k][1] < line'[p]
        <5>1. k \in 1..n \/ k = n + 1
          BY <3>2
        <5>2. granted'[p][k][1] \in Nat /\ granted'[p][k][1] <= line[p]
          <6>1. CASE k \in 1..n
            BY <4>1, <4>2, <6>1
          <6>2. CASE k = n + 1
            BY <3>2, <4>2, <6>2
          <6> QED BY <5>1, <6>1, <6>2
        <5> QED BY <4>2, <5>2
      <4>4. ASSUME NEW j \in 1..k - 1
            PROVE  granted'[p][j][1] < granted'[p][k][1]
        <5>1. j \in 1..n
          BY <3>2
        <5>2. CASE k \in 1..n
          BY <2>5, <3>2, <4>1, <5>1, <5>2
        <5>3. CASE k = n + 1
          <6>1. granted'[p][k][1] = line[p]
            BY <3>2, <5>3
          <6> QED BY <4>1, <5>1, <6>1
        <5> QED BY <3>2, <5>2, <5>3
      <4>5. Serves(granted'[p][k][1], granted'[p][k][2])
        <5>1. CASE k \in 1..n
          <6>1. granted'[p][k] = granted[p][k]
            BY <3>2, <5>1
          <6> QED BY <2>5, <3>2, <5>1, <6>1
        <5>2. CASE k = n + 1
          <6>1. granted'[p][k][1] = line[p] /\ granted'[p][k][2] = r
            BY <3>2, <5>2
          <6> QED BY <2>1, <2>7, <6>1, AskedServes
        <5> QED BY <3>2, <5>1, <5>2
      <4> QED BY <4>3, <4>4, <4>5
    <3>4. GrantsOf(p)'
      BY <2>1, <2>3, <3>2, <3>3 DEF GrantsOf, Serves
    <3> QED BY <1>d, <2>1, <2>2, <3>2, <3>4
  <2> QED BY <1>7, <2>6, <2>7 DEF FstabLine
<1>8. ASSUME NEW p \in Procs,
             EndOfFstab(p) \/ List(p) \/ OpenMtab(p) \/ CloseMtab(p)
               \/ CloseMtabShort(p) \/ Umount(p) \/ Kill(p)
      PROVE  GrantsMatch'
  BY <1>2, <1>8 DEF EndOfFstab, List, OpenMtab, CloseMtab, CloseMtabShort,
                    Umount, Kill
<1>9. CASE UNCHANGED vars
  BY <1>9 DEF vars, GrantsMatch, GrantsOf
<1> QED BY <1>3, <1>4, <1>5, <1>6, <1>7, <1>8, <1>9 DEF Next, Step

\* So what was granted always matches the commands.
LEMMA GrantsHold == Spec => []GrantsMatch
<1>1. Init => GrantsMatch
  BY DEF Init, GrantsMatch, GrantsOf
<1>2. TypeOK /\ PlacesMatch /\ GrantsMatch /\ [Next]_vars => GrantsMatch'
  BY GrantsStep
<1> QED BY <1>1, <1>2, TypeCorrect, PTL DEF Spec

\* mount with paths mounts once if it exits with 0, and not at all if it
\* exits with 1 (mount.c:330-354).
THEOREM MountsOnce == Spec => []OneMountPerCommand
<1>1. GrantsMatch => OneMountPerCommand
  BY DEF GrantsMatch, GrantsOf, OneMountPerCommand
<1> QED BY <1>1, GrantsHold, PTL

\* mount -a takes the lines of fstab in order, each at most once, and none
\* from the first malformed one on (mount.c:182-231).
THEOREM FstabIsTakenInOrder == Spec => []FstabInOrder
<1>1. TypeOK /\ GrantsMatch => FstabInOrder
  <2> SUFFICES ASSUME TypeOK, GrantsMatch, NEW p \in Procs, cmd[p].op = "fstab",
                      NEW k \in DOMAIN granted[p]
               PROVE  /\ \A m \in 1..granted[p][k][1] : Fstab[m].kind # "malformed"
                      /\ \A j \in 1..k - 1 : granted[p][j][1] < granted[p][k][1]
                      /\ Serves(granted[p][k][1], granted[p][k][2])
    BY DEF FstabInOrder
  <2>1. granted[p] \in Seq(Nat \X Request) /\ line[p] \in Nat
    BY DEF TypeOK
  <2>2. granted[p][k] \in Nat \X Request
    BY <2>1, LenProperties, ElementOfSeq
  <2>3. granted[p][k][1] \in Nat /\ granted[p][k][1] <= line[p] - 1
    BY <2>1, <2>2 DEF GrantsMatch, GrantsOf
  <2> QED BY <2>1, <2>3 DEF GrantsMatch, GrantsOf
<1> QED BY <1>1, GrantsHold, TypeCorrect, PTL

-----------------------------------------------------------------------------
(* What the kernel is asked for.                                           *)

\* What a command may lead to, from the n-th line of fstab: the flags of the
\* command line count without -t, and with -t none does.
AsAsked(c, n, r) ==
    /\ c.op = "mount" =>
          /\ r.source = c.source /\ r.target = c.target
          /\ c.type = "any" => r.type \in {"ext", "fat"} /\ r.flags = c.flags
          /\ c.type # "any" => r.type = c.type /\ r.flags = {}
    /\ c.op = "one_path" =>
          r.source = "" /\ r.target = c.target /\ r.flags = c.flags /\ "remount" \in r.flags
    /\ c.op = "fstab" => r \in Asked(n)

\* A second type is tried only without -t, and all that was granted was asked
\* for.
RequestsMatch ==
    \A p \in Procs :
        /\ pc[p] = "fat" => cmd[p].type = "any"
        /\ \A k \in DOMAIN granted[p] :
              AsAsked(cmd[p], granted[p][k][1], granted[p][k][2])

\* Every step asks for nothing else.
LEMMA RequestsStep ==
    ASSUME TypeOK, PlacesMatch, RequestsMatch, [Next]_vars
    PROVE  RequestsMatch'
<1>a. pc \in [Procs -> {"begin", "fat", "fstab", "list", "open", "close"} \union Ended]
  BY DEF TypeOK
<1>b. \A p \in Procs : cmd[p] \in Command
  BY CommandsAssumption DEF TypeOK
<1>1. ASSUME NEW p \in Procs, NEW r \in Request, Grant(p, r), AsAsked(cmd[p], line[p], r),
             cmd' = cmd, \A q \in Procs : pc'[q] = "fat" => pc[q] = "fat"
      PROVE  RequestsMatch'
  <2> DEFINE n == Len(granted[p])
  <2>1. /\ \A q \in Procs : q # p => granted'[q] = granted[q]
        /\ n \in Nat
        /\ DOMAIN granted'[p] = 1..n + 1
        /\ DOMAIN granted[p] = 1..n
        /\ \A k \in 1..n : granted'[p][k] = granted[p][k]
        /\ granted'[p][n + 1] = <<line[p], r>>
    BY <1>1, GrantAppends
  <2> HIDE DEF n
  <2>2. ASSUME NEW k \in 1..n + 1
        PROVE  AsAsked(cmd[p], granted'[p][k][1], granted'[p][k][2])
    <3>1. CASE k \in 1..n
      BY <2>1, <3>1 DEF RequestsMatch
    <3>2. CASE k = n + 1
      BY <1>1, <2>1, <3>2
    <3> QED BY <2>1, <3>1, <3>2
  <2>3. \A q \in Procs : \A k \in DOMAIN granted'[q] :
           AsAsked(cmd[q], granted'[q][k][1], granted'[q][k][2])
    <3> TAKE q \in Procs
    <3>1. CASE q = p
      BY <2>1, <2>2, <3>1
    <3>2. CASE q # p
      BY <2>1, <3>2 DEF RequestsMatch
    <3> QED BY <3>1, <3>2
  <2>4. \A q \in Procs : pc'[q] = "fat" => cmd[q].type = "any"
    BY <1>1 DEF RequestsMatch
  <2> QED BY <1>1, <2>3, <2>4 DEF RequestsMatch
<1>2. ASSUME cmd' = cmd, granted' = granted,
             \A q \in Procs : pc'[q] = "fat" => pc[q] = "fat" \/ cmd[q].type = "any"
      PROVE  RequestsMatch'
  BY <1>2 DEF RequestsMatch
<1>3. ASSUME NEW p \in Procs, MountPaths(p)
      PROVE  RequestsMatch'
  <2> DEFINE any == cmd[p].type = "any"
             r   == [source |-> cmd[p].source, target |-> cmd[p].target,
                     type   |-> IF any THEN "ext" ELSE cmd[p].type,
                     flags  |-> IF any THEN cmd[p].flags ELSE {}]
  <2>1. pc[p] = "begin" /\ cmd[p].op = "mount" /\ cmd' = cmd
    BY <1>3 DEF MountPaths
  <2>2. r \in Request
    BY <2>1, <1>b DEF Command, Request, Types
  <2>3. AsAsked(cmd[p], line[p], r)
    BY <2>1 DEF AsAsked
  <2>4. \/ Grant(p, r) /\ Goto(p, "list")
        \/ Refuse /\ ((any /\ Goto(p, "fat")) \/ Goto(p, "failed"))
    BY <1>3 DEF MountPaths, AfterFirst
  <2> HIDE DEF r
  <2>5. CASE Grant(p, r) /\ Goto(p, "list")
    <3>1. \A q \in Procs : pc'[q] = "fat" => pc[q] = "fat"
      BY <1>a, <2>5 DEF Goto
    <3> QED BY <1>1, <2>1, <2>2, <2>3, <2>5, <3>1
  <2>6. CASE Refuse /\ ((any /\ Goto(p, "fat")) \/ Goto(p, "failed"))
    <3>1. \A q \in Procs : pc'[q] = "fat" => pc[q] = "fat" \/ cmd[q].type = "any"
      BY <1>a, <2>6 DEF Goto
    <3> QED BY <1>2, <2>1, <2>6, <3>1 DEF Refuse
  <2> QED BY <2>4, <2>5, <2>6
<1>4. ASSUME NEW p \in Procs, NEW r \in Request, pc[p] \in {"begin", "fat"},
             AsAsked(cmd[p], line[p], r), cmd' = cmd,
             (Grant(p, r) /\ Goto(p, "list")) \/ (Refuse /\ Goto(p, "failed"))
      PROVE  RequestsMatch'
  <2>1. \A q \in Procs : pc'[q] = "fat" => pc[q] = "fat"
    BY <1>a, <1>4 DEF Goto
  <2> QED BY <1>1, <1>2, <1>4, <2>1 DEF Refuse
<1>5. ASSUME NEW p \in Procs, MountFat(p)
      PROVE  RequestsMatch'
  <2> DEFINE r == [source |-> cmd[p].source, target |-> cmd[p].target,
                   type   |-> "fat", flags |-> cmd[p].flags]
  <2>1. pc[p] = "fat" /\ cmd[p].op = "mount" /\ cmd[p].type = "any" /\ cmd' = cmd
    BY <1>5 DEF MountFat, PlacesMatch, RequestsMatch
  <2>2. r \in Request
    BY <2>1, <1>b DEF Command, Request, Types
  <2>3. AsAsked(cmd[p], line[p], r)
    BY <2>1 DEF AsAsked
  <2>4. \/ Grant(p, r) /\ Goto(p, "list")
        \/ Refuse /\ Goto(p, "failed")
    BY <1>5 DEF MountFat
  <2> HIDE DEF r
  <2> QED BY <1>4, <2>1, <2>2, <2>3, <2>4
<1>6. ASSUME NEW p \in Procs, MountOnePath(p)
      PROVE  RequestsMatch'
  <2> DEFINE r == [source |-> "", target |-> cmd[p].target,
                   type   |-> "unknown", flags |-> cmd[p].flags]
  <2>1. pc[p] = "begin" /\ cmd[p].op = "one_path" /\ cmd' = cmd
    BY <1>6 DEF MountOnePath
  <2>2. r \in Request
    BY <2>1, <1>b DEF Command, Request, Types
  <2>3. "remount" \in r.flags => AsAsked(cmd[p], line[p], r)
    BY <2>1 DEF AsAsked
  <2>4. \/ "remount" \in r.flags /\ Grant(p, r) /\ Goto(p, "list")
        \/ Refuse /\ Goto(p, "failed")
    BY <1>6 DEF MountOnePath
  <2> HIDE DEF r
  <2>5. CASE Refuse /\ Goto(p, "failed")
    <3>1. \A q \in Procs : pc'[q] = "fat" => pc[q] = "fat"
      BY <1>a, <2>5 DEF Goto
    <3> QED BY <1>2, <2>1, <2>5, <3>1 DEF Refuse
  <2> QED BY <1>4, <2>1, <2>2, <2>3, <2>4, <2>5
<1>7. ASSUME NEW p \in Procs, FstabLine(p)
      PROVE  RequestsMatch'
  <2>1. /\ pc[p] = "fstab" /\ cmd[p].op = "fstab" /\ UNCHANGED <<cmd, pc>>
        /\ line[p] \in 1..Len(Fstab) /\ Fstab[line[p]].kind # "malformed"
    <3>1. pc[p] = "fstab" /\ ~StopsAt(line[p]) /\ UNCHANGED <<cmd, pc>>
      BY <1>7 DEF FstabLine
    <3>2. line[p] \in Nat /\ line[p] >= 1 /\ Len(Fstab) \in Nat
      BY <3>1, FstabAssumption, LenProperties DEF PlacesMatch, TypeOK
    <3> QED BY <3>1, <3>2 DEF StopsAt, PlacesMatch
  <2>2. CASE Refuse
    BY <1>2, <2>1, <2>2 DEF Refuse
  <2>3. ASSUME NEW r \in Asked(line[p]), Grant(p, r)
        PROVE  RequestsMatch'
    <3>1. r \in Request
      BY <2>1, AskedType DEF Entry, Request
    <3>2. AsAsked(cmd[p], line[p], r)
      BY <2>1 DEF AsAsked
    <3> QED BY <1>1, <2>1, <2>3, <3>1, <3>2
  <2> QED BY <1>7, <2>2, <2>3 DEF FstabLine
<1>8. ASSUME NEW p \in Procs,
             OpenFstab(p) \/ EndOfFstab(p) \/ List(p) \/ OpenMtab(p) \/ CloseMtab(p)
               \/ CloseMtabShort(p) \/ Umount(p) \/ Kill(p)
      PROVE  RequestsMatch'
  <2>1. UNCHANGED <<cmd, granted>>
    BY <1>8 DEF OpenFstab, EndOfFstab, List, OpenMtab, CloseMtab, CloseMtabShort, Umount, Kill
  <2>2. PICK place : place # "fat" /\ Goto(p, place)
    BY <1>8 DEF OpenFstab, EndOfFstab, List, OpenMtab, CloseMtab, CloseMtabShort, Umount, Kill
  <2>3. \A q \in Procs : pc'[q] = "fat" => pc[q] = "fat"
    BY <1>a, <2>2 DEF Goto
  <2> QED BY <1>2, <2>1, <2>3
<1>9. CASE UNCHANGED vars
  BY <1>2, <1>9 DEF vars
<1> QED BY <1>3, <1>5, <1>6, <1>7, <1>8, <1>9 DEF Next, Step

\* Whatever the kernel grants to a mount is what its command line or its line
\* of fstab says (mount.c:216, 330 to 354): source, target and flags, with one
\* exception, that -t drops the flags.
THEOREM GrantsAreAsked == Spec => []RequestsMatch
<1>1. Init => RequestsMatch
  BY DEF Init, RequestsMatch
<1>2. TypeOK /\ PlacesMatch /\ RequestsMatch /\ [Next]_vars => RequestsMatch'
  BY RequestsStep
<1> QED BY <1>1, <1>2, TypeCorrect, PTL DEF Spec
=============================================================================
