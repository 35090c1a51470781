---------------------------- MODULE ExecmacProofs ---------------------------
(***************************************************************************)
(* Theorems about Execmac, for any capabilities, files and words and       *)
(* command lines of any length.                                            *)
(***************************************************************************)
EXTENDS Execmac, SequenceTheorems, TLAPS

-----------------------------------------------------------------------------
(* What the options read so far have done.                                 *)

ReadRight ==
    \A j \in 1..(next - 1) :
        /\ args[j].opt \in {"c", "f", "p"}
        /\ args[j].opt = "c" => ~BadWord(args[j].words)
        /\ args[j].opt = "p" => args[j].policy \in Policies

CapsOfLast ==
    \/ caps = OwnCaps /\ \A j \in 1..(next - 1) : args[j].opt # "c"
    \/ \E j \in 1..(next - 1) :
        /\ args[j].opt = "c" /\ caps = Translated({}, args[j].words)
        /\ \A k \in 1..(next - 1) : args[k].opt = "c" => k <= j

FiltersOfAll == mac.filters = {args[j].file : j \in {i \in 1..(next - 1) : args[i].opt = "f"}}

PolicyOfLast ==
    \/ /\ mac.policy = "none"
       /\ \A j \in 1..(next - 1) : args[j].opt = "p" => j \in refused
    \/ \E j \in 1..(next - 1) :
        /\ args[j].opt = "p" /\ j \notin refused /\ mac.policy = args[j].policy
        /\ \A k \in 1..(next - 1) : args[k].opt = "p" /\ k \notin refused => k <= j

Reading == ReadRight /\ CapsOfLast /\ FiltersOfAll /\ PolicyOfLast

\* What the child has of it, and how execmac ends.
Running ==
    /\ pc = "wait" \/ child # "none" => ~Unread
    /\ child # "none" => childMac.filters = mac.filters /\ childMac.policy = mac.policy
    /\ child \in {"exec", "command"} => childMac.caps \subseteq caps
    /\ child = "exited" /\ status = 0 => childMac.caps \subseteq caps
    /\ pc = "ended" => /\ child \in {"none", "exited", "killed"}
                       /\ exit = 1 \/ (child = "exited" /\ exit = status)

Inv == TypeOK /\ Reading /\ Running

-----------------------------------------------------------------------------

\* What the fields of an option may be.
LEMMA OptionFields ==
    ASSUME NEW o \in Option
    PROVE  /\ o.opt \in {"c", "f", "p", "bare", "unknown"}
           /\ o.opt = "f" => o.file \in Files
<1>1. CASE o \in [opt : {"c"}, words : SeqUpTo(Words, 0, MaxWords)]
  BY <1>1
<1>2. CASE o \in [opt : {"f"}, file : Files]
  BY <1>2
<1>3. CASE o \in [opt : {"p"}, policy : Policies \union {"other"}]
  BY <1>3
<1>4. CASE o \in [opt : {"bare", "unknown"}]
  BY <1>4
<1> QED BY <1>1, <1>2, <1>3, <1>4 DEF Option

\* The place of the next option.
LEMMA Places ==
    ASSUME Inv
    PROVE  /\ Len(args) \in Nat /\ DOMAIN args = 1..Len(args)
           /\ \A j \in 1..Len(args) : args[j] \in Option
           /\ next \in Nat /\ next >= 1 /\ next <= Len(args) + 1
           /\ \A j \in 1..(next - 1) : j \in 1..Len(args)
           /\ next <= Len(args) => next \in 1..Len(args)
<1>1. args \in Seq(Option) /\ next \in 1..(Len(args) + 1)
  BY DEF Inv, TypeOK
<1>2. Len(args) \in Nat /\ DOMAIN args = 1..Len(args)
  BY <1>1, LenProperties
<1>3. \A j \in 1..Len(args) : args[j] \in Option
  BY <1>1, ElementOfSeq
<1>4. /\ next \in Nat /\ next >= 1 /\ next <= Len(args) + 1
      /\ \A j \in 1..(next - 1) : j \in 1..Len(args)
      /\ next <= Len(args) => next \in 1..Len(args)
  BY <1>1, <1>2
<1> QED BY <1>2, <1>3, <1>4

\* At first nothing is read, and nothing runs.
LEMMA InitInv == Init => Inv
<1> SUFFICES ASSUME Init PROVE Inv
  OBVIOUS
<1>1. PICK k \in 0..MaxOptions : args \in [1..k -> Option]
  BY DEF Init, SeqUpTo
<1>2. args \in Seq(Option) /\ Len(args) = k /\ k \in Nat
  BY <1>1, BoundsAssumption
<1>3. next = 1
  BY DEF Init
<1>4. next \in 1..(Len(args) + 1) /\ 1..(next - 1) = {}
  BY <1>2, <1>3
<1>5. OwnMac \in Mac /\ OwnMac.filters = {} /\ OwnMac.policy = "none"
  BY OwnCapsAssumption DEF OwnMac, Mac
<1>6. TypeOK
  BY <1>2, <1>4, <1>5, OwnCapsAssumption DEF Init, TypeOK
<1>7. Reading
  BY <1>4, <1>5 DEF Init, Reading, ReadRight, CapsOfLast, FiltersOfAll, PolicyOfLast
<1>8. Running
  BY DEF Init, Running
<1> QED BY <1>6, <1>7, <1>8 DEF Inv

-----------------------------------------------------------------------------
(* The options.                                                            *)

\* One option more is read; the ones before it were read already.
LEMMA OneMore ==
    ASSUME Inv, next <= Len(args)
    PROVE  /\ next \in 1..Len(args)
           /\ next + 1 \in 1..(Len(args) + 1)
           /\ next \in 1..((next + 1) - 1)
           /\ \A j : j \in 1..((next + 1) - 1) <=> j \in 1..(next - 1) \/ j = next
           /\ \A j \in 1..(next - 1) : j <= next
           /\ next <= next
BY Places

\* -c adds the capabilities of its last word, or ends with an error.
LEMMA StepOptionC == Inv /\ OptionC => Inv'
<1> SUFFICES ASSUME Inv, OptionC PROVE Inv'
  OBVIOUS
<1>1. /\ pc = "options" /\ next <= Len(args) /\ args[next].opt = "c"
      /\ UNCHANGED <<args, mac, refused, child, childMac, status>>
  BY DEF OptionC, Parsing, childVars, macVars
<1>2. TypeOK /\ Reading /\ Running /\ child = "none"
  BY <1>1 DEF Inv, TypeOK
<1>3. CASE pc' = "ended" /\ exit' = 1 /\ UNCHANGED <<next, caps>>
  <2>1. TypeOK'
    BY <1>1, <1>2, <1>3 DEF TypeOK
  <2>2. Reading'
    BY <1>1, <1>2, <1>3 DEF Reading, ReadRight, CapsOfLast, FiltersOfAll, PolicyOfLast,
                           BadWord, Translated, SaysAll
  <2>3. Running'
    BY <1>1, <1>2, <1>3 DEF Running
  <2> QED BY <2>1, <2>2, <2>3 DEF Inv
<1>4. CASE /\ next' = next + 1 /\ UNCHANGED <<pc, exit>>
           /\ ~BadWord(args[next].words)
           /\ caps' = Translated(caps, args[next].words)
  <2>1. caps' \subseteq Caps
    <3>1. CASE SaysAll(args[next].words)
      BY <1>4, <3>1 DEF Translated
    <3>2. CASE ~SaysAll(args[next].words)
      BY <1>4, <3>2 DEF Translated, BadWord
    <3> QED BY <3>1, <3>2
  <2>2. TypeOK'
    BY <1>1, <1>2, <1>4, <2>1, OneMore DEF TypeOK
  <2>3. ReadRight'
    BY <1>1, <1>2, <1>4, OneMore DEF Reading, ReadRight, BadWord
  <2>4. CapsOfLast'
    <3>1. caps' = Translated({}, args'[next].words) /\ args'[next].opt = "c"
      BY <1>1, <1>4 DEF Translated
    <3>2. next \in 1..(next' - 1) /\ \A k \in 1..(next' - 1) : k <= next
      BY <1>1, <1>4, OneMore
    <3> QED BY <3>1, <3>2 DEF CapsOfLast, Translated
  <2>5. FiltersOfAll'
    <3>1. {i \in 1..(next' - 1) : args'[i].opt = "f"} = {i \in 1..(next - 1) : args[i].opt = "f"}
      BY <1>1, <1>4, OneMore
    <3> QED BY <1>1, <1>2, <3>1 DEF Reading, FiltersOfAll
  <2>6. PolicyOfLast'
    <3>1. CASE /\ mac.policy = "none"
               /\ \A k \in 1..(next - 1) : args[k].opt = "p" => k \in refused
      BY <1>1, <1>4, <3>1, OneMore DEF PolicyOfLast
    <3>2. CASE \E k \in 1..(next - 1) :
                  /\ args[k].opt = "p" /\ k \notin refused /\ mac.policy = args[k].policy
                  /\ \A n \in 1..(next - 1) : args[n].opt = "p" /\ n \notin refused => n <= k
      BY <1>1, <1>4, <3>2, OneMore DEF PolicyOfLast
    <3> QED BY <1>2, <3>1, <3>2 DEF Reading, PolicyOfLast
  <2>7. Running'
    BY <1>1, <1>2, <1>4 DEF Running
  <2> QED BY <2>2, <2>3, <2>4, <2>5, <2>6, <2>7 DEF Inv, Reading
<1> QED BY <1>3, <1>4 DEF OptionC, Fail, Read

\* -f adds a filter to those of execmac itself, or is refused.
LEMMA StepOptionF == Inv /\ OptionF => Inv'
<1> SUFFICES ASSUME Inv, OptionF PROVE Inv'
  OBVIOUS
<1>1. /\ pc = "options" /\ next <= Len(args) /\ args[next].opt = "f"
      /\ UNCHANGED <<args, caps, refused, child, childMac, status>>
  BY DEF OptionF, Parsing, childVars
<1>2. TypeOK /\ Reading /\ Running /\ child = "none" /\ mac \in Mac
  BY <1>1 DEF Inv, TypeOK
<1>3. CASE pc' = "ended" /\ exit' = 1 /\ UNCHANGED <<next, mac>>
  <2>1. TypeOK'
    BY <1>1, <1>2, <1>3 DEF TypeOK
  <2>2. Reading'
    BY <1>1, <1>2, <1>3 DEF Reading, ReadRight, CapsOfLast, FiltersOfAll, PolicyOfLast,
                           BadWord, Translated, SaysAll
  <2>3. Running'
    BY <1>1, <1>2, <1>3 DEF Running
  <2> QED BY <2>1, <2>2, <2>3 DEF Inv
<1>4. CASE /\ next' = next + 1 /\ UNCHANGED <<pc, exit>>
           /\ mac' = [mac EXCEPT !.filters = @ \union {args[next].file}]
  <2>1. /\ mac'.filters = mac.filters \union {args[next].file} /\ mac'.policy = mac.policy
        /\ mac'.caps = mac.caps
    BY <1>2, <1>4 DEF Mac
  <2>2. mac' \in Mac
    <3>1. args[next].file \in Files
      BY <1>1, OneMore, Places, OptionFields
    <3> QED BY <1>2, <1>4, <3>1 DEF Mac
  <2>3. TypeOK'
    BY <1>1, <1>2, <1>4, <2>2, OneMore DEF TypeOK
  <2>4. ReadRight'
    BY <1>1, <1>2, <1>4, OneMore DEF Reading, ReadRight, BadWord
  <2>5. CapsOfLast'
    <3>1. CASE caps = OwnCaps /\ \A j \in 1..(next - 1) : args[j].opt # "c"
      BY <1>1, <1>4, <3>1, OneMore DEF CapsOfLast
    <3>2. CASE \E j \in 1..(next - 1) :
                  /\ args[j].opt = "c" /\ caps = Translated({}, args[j].words)
                  /\ \A k \in 1..(next - 1) : args[k].opt = "c" => k <= j
      BY <1>1, <1>4, <3>2, OneMore DEF CapsOfLast, Translated
    <3> QED BY <1>2, <3>1, <3>2 DEF Reading, CapsOfLast
  <2>6. FiltersOfAll'
    <3>1. {i \in 1..(next' - 1) : args'[i].opt = "f"}
             = {i \in 1..(next - 1) : args[i].opt = "f"} \union {next}
      BY <1>1, <1>4, OneMore
    <3> QED BY <1>1, <1>2, <2>1, <3>1 DEF Reading, FiltersOfAll
  <2>7. PolicyOfLast'
    <3>1. CASE /\ mac.policy = "none"
               /\ \A k \in 1..(next - 1) : args[k].opt = "p" => k \in refused
      BY <1>1, <1>4, <2>1, <3>1, OneMore DEF PolicyOfLast
    <3>2. CASE \E k \in 1..(next - 1) :
                  /\ args[k].opt = "p" /\ k \notin refused /\ mac.policy = args[k].policy
                  /\ \A n \in 1..(next - 1) : args[n].opt = "p" /\ n \notin refused => n <= k
      BY <1>1, <1>4, <2>1, <3>2, OneMore DEF PolicyOfLast
    <3> QED BY <1>2, <3>1, <3>2 DEF Reading, PolicyOfLast
  <2>8. Running'
    BY <1>1, <1>2, <1>4 DEF Running
  <2> QED BY <2>3, <2>4, <2>5, <2>6, <2>7, <2>8 DEF Inv, Reading
<1> QED BY <1>3, <1>4 DEF OptionF, Fail, Read

\* -p sets the policy, is refused, or is no policy.
LEMMA StepOptionP == Inv /\ OptionP => Inv'
<1> SUFFICES ASSUME Inv, OptionP PROVE Inv'
  OBVIOUS
<1>1. /\ pc = "options" /\ next <= Len(args) /\ args[next].opt = "p"
      /\ UNCHANGED <<args, caps, child, childMac, status>>
  BY DEF OptionP, Parsing, childVars
<1>2. TypeOK /\ Reading /\ Running /\ child = "none" /\ mac \in Mac
  BY <1>1 DEF Inv, TypeOK
<1>3. CASE pc' = "ended" /\ exit' = 1 /\ UNCHANGED <<next, mac, refused>>
  <2>1. TypeOK'
    BY <1>1, <1>2, <1>3 DEF TypeOK
  <2>2. Reading'
    BY <1>1, <1>2, <1>3 DEF Reading, ReadRight, CapsOfLast, FiltersOfAll, PolicyOfLast,
                           BadWord, Translated, SaysAll
  <2>3. Running'
    BY <1>1, <1>2, <1>3 DEF Running
  <2> QED BY <2>1, <2>2, <2>3 DEF Inv
<1>4. CASE /\ next' = next + 1 /\ UNCHANGED <<pc, exit>>
           /\ args[next].policy \in Policies
           /\ \/ /\ mac' = [mac EXCEPT !.policy = args[next].policy]
                 /\ UNCHANGED refused
              \/ refused' = refused \union {next} /\ UNCHANGED mac
  <2>1. /\ mac'.filters = mac.filters
        /\ \/ mac'.policy = args[next].policy /\ UNCHANGED refused
           \/ refused' = refused \union {next} /\ UNCHANGED mac
    BY <1>2, <1>4 DEF Mac
  <2>2. mac' \in Mac
    BY <1>2, <1>4 DEF Mac
  <2>3. TypeOK'
    BY <1>1, <1>2, <1>4, <2>2, OneMore DEF TypeOK
  <2>4. ReadRight'
    BY <1>1, <1>2, <1>4, OneMore DEF Reading, ReadRight, BadWord
  <2>5. CapsOfLast'
    <3>1. CASE caps = OwnCaps /\ \A j \in 1..(next - 1) : args[j].opt # "c"
      BY <1>1, <1>4, <3>1, OneMore DEF CapsOfLast
    <3>2. CASE \E j \in 1..(next - 1) :
                  /\ args[j].opt = "c" /\ caps = Translated({}, args[j].words)
                  /\ \A k \in 1..(next - 1) : args[k].opt = "c" => k <= j
      BY <1>1, <1>4, <3>2, OneMore DEF CapsOfLast, Translated
    <3> QED BY <1>2, <3>1, <3>2 DEF Reading, CapsOfLast
  <2>6. FiltersOfAll'
    <3>1. {i \in 1..(next' - 1) : args'[i].opt = "f"} = {i \in 1..(next - 1) : args[i].opt = "f"}
      BY <1>1, <1>4, OneMore
    <3> QED BY <1>1, <1>2, <2>1, <3>1 DEF Reading, FiltersOfAll
  <2>7. PolicyOfLast'
    <3>1. CASE mac'.policy = args[next].policy /\ UNCHANGED refused
      <4>1. next \notin refused /\ \A k \in 1..(next' - 1) : k <= next
        BY <1>1, <1>2, <1>4, OneMore, Places DEF TypeOK
      <4>2. next \in 1..(next' - 1)
        BY <1>1, <1>4, OneMore
      <4> QED BY <1>1, <3>1, <4>1, <4>2 DEF PolicyOfLast
    <3>2. ASSUME refused' = refused \union {next}, UNCHANGED mac,
                 mac.policy = "none",
                 \A k \in 1..(next - 1) : args[k].opt = "p" => k \in refused
          PROVE  PolicyOfLast'
      BY <1>1, <1>4, <3>2, OneMore DEF PolicyOfLast
    <3>3. ASSUME refused' = refused \union {next}, UNCHANGED mac,
                 NEW k \in 1..(next - 1),
                 args[k].opt = "p", k \notin refused, mac.policy = args[k].policy,
                 \A n \in 1..(next - 1) : args[n].opt = "p" /\ n \notin refused => n <= k
          PROVE  PolicyOfLast'
      <4>1. k # next /\ k \in 1..(next' - 1)
        BY <1>1, <1>4, <3>3, OneMore, Places
      <4>2. \A n \in 1..(next' - 1) : args'[n].opt = "p" /\ n \notin refused' => n <= k
        BY <1>1, <1>4, <3>3, OneMore
      <4> QED BY <1>1, <3>3, <4>1, <4>2 DEF PolicyOfLast
    <3> QED BY <1>2, <2>1, <3>1, <3>2, <3>3 DEF Reading, PolicyOfLast
  <2>8. Running'
    BY <1>1, <1>2, <1>4 DEF Running
  <2> QED BY <2>3, <2>4, <2>5, <2>6, <2>7, <2>8 DEF Inv, Reading
<1> QED BY <1>3, <1>4 DEF OptionP, Fail, Read, macVars

\* An option execmac does not know ends it.
LEMMA StepOptionBare == Inv /\ OptionBare => Inv'
<1> SUFFICES ASSUME Inv, OptionBare PROVE Inv'
  OBVIOUS
<1>1. /\ pc = "options" /\ pc' = "ended" /\ exit' = 1
      /\ UNCHANGED <<args, next, caps, mac, refused, child, childMac, status>>
  BY DEF OptionBare, Parsing, Fail, childVars, macVars
<1>2. TypeOK /\ Reading /\ Running /\ child = "none"
  BY <1>1 DEF Inv, TypeOK
<1>3. TypeOK'
  BY <1>1, <1>2 DEF TypeOK
<1>4. Reading'
  BY <1>1, <1>2 DEF Reading, ReadRight, CapsOfLast, FiltersOfAll, PolicyOfLast, BadWord, Translated, SaysAll
<1>5. Running'
  BY <1>1, <1>2 DEF Running
<1> QED BY <1>3, <1>4, <1>5 DEF Inv

-----------------------------------------------------------------------------
(* The child.                                                              *)

\* Once there is a child, or execmac waits, the options stay as they were read.
LEMMA StepChild == Inv /\ (Fork \/ Child \/ Wait \/ UNCHANGED vars) => Inv'
<1> SUFFICES ASSUME Inv, Fork \/ Child \/ Wait \/ UNCHANGED vars PROVE Inv'
  OBVIOUS
<1>1. UNCHANGED <<args, next, caps, mac, refused>>
  BY DEF macVars, Fork, Child, SetCaps, Exec, CommandExits, ChildKilled, Wait, childVars, vars
<1>2. TypeOK /\ Reading /\ Running
  BY DEF Inv
<1>3. Reading'
  BY <1>1, <1>2 DEF Reading, ReadRight, CapsOfLast, FiltersOfAll, PolicyOfLast, BadWord, Translated, SaysAll
<1>4. Unread' <=> Unread
  BY <1>1 DEF Unread
<1>5. CASE Fork
  BY <1>1, <1>2, <1>3, <1>4, <1>5 DEF Fork, TypeOK, Running, Inv
<1>6. CASE SetCaps
  <2>1. /\ child = "setcaps" /\ UNCHANGED <<pc, exit>>
        /\ pc # "ended" /\ ~Unread /\ childMac \in Mac
    BY <1>2, <1>6 DEF SetCaps, Running, TypeOK
  <2>2. CASE child' = "exited" /\ status' = 1 /\ UNCHANGED childMac
    BY <1>1, <1>2, <1>3, <1>4, <2>1, <2>2 DEF TypeOK, Running, Inv
  <2>3. CASE /\ childMac' \in {[childMac EXCEPT !.caps = granted] :
                                  granted \in {caps, caps \intersect childMac.caps}}
             /\ child' = "exec" /\ UNCHANGED status
    <3>1. PICK granted \in {caps, caps \intersect childMac.caps} :
              childMac' = [childMac EXCEPT !.caps = granted]
      BY <2>3
    <3>2. granted \subseteq caps /\ granted \subseteq Caps
      BY <1>2 DEF TypeOK
    <3>3. /\ childMac'.filters = childMac.filters /\ childMac'.policy = childMac.policy
          /\ childMac'.caps \subseteq caps /\ childMac' \in Mac
      BY <2>1, <3>1, <3>2 DEF Mac
    <3> QED BY <1>1, <1>2, <1>3, <1>4, <2>1, <2>3, <3>3 DEF TypeOK, Running, Inv
  <2> QED BY <1>6, <2>2, <2>3 DEF SetCaps, CapsRefused, ChildGivesUp
<1>7. CASE Exec
  BY <1>1, <1>2, <1>3, <1>4, <1>7 DEF Exec, ChildGivesUp, TypeOK, Running, Inv
<1>8. CASE CommandExits
  BY <1>1, <1>2, <1>3, <1>4, <1>8 DEF CommandExits, TypeOK, Running, Inv
<1>9. CASE ChildKilled
  BY <1>1, <1>2, <1>3, <1>4, <1>9 DEF ChildKilled, TypeOK, Running, Inv
<1>10. CASE Wait
  BY <1>1, <1>2, <1>3, <1>4, <1>10 DEF Wait, Reaped, childVars, TypeOK, Running, Inv
<1>11. CASE UNCHANGED vars
  BY <1>1, <1>2, <1>3, <1>4, <1>11 DEF vars, TypeOK, Running, Inv
<1> QED BY <1>5, <1>6, <1>7, <1>8, <1>9, <1>10, <1>11 DEF Child

\* So it is always.
LEMMA InvHolds == Spec => []Inv
<1>1. Inv /\ [Next]_vars => Inv'
  BY StepOptionC, StepOptionF, StepOptionP, StepOptionBare, StepChild DEF Next, Options
<1> QED BY <1>1, InitInv, PTL DEF Spec

-----------------------------------------------------------------------------
(* What the command line asks for, once its options are read.              *)

\* The options that count are those that were read.
LEMMA GivenWereRead ==
    ASSUME Inv, ~Unread
    PROVE  \A opt \in {"c", "f", "p", "bare"} :
              Given(opt) = {i \in 1..(next - 1) : args[i].opt = opt}
<1>1. ReadRight
  BY DEF Inv, Reading
<1>2. ASSUME NEW i \in 1..(next - 1) PROVE Counts(i)
  <2>1. i \in DOMAIN args /\ \A j \in 1..i : j \in 1..(next - 1)
    BY Places
  <2> QED BY <1>1, <2>1 DEF Counts, ReadRight
<1>3. ASSUME NEW i \in DOMAIN args, i \notin 1..(next - 1) PROVE ~Counts(i)
  <2>1. next \in DOMAIN args /\ next \in 1..i
    BY <1>3, Places
  <2> QED BY <2>1 DEF Counts, Unread
<1>4. \A i \in 1..(next - 1) : i \in DOMAIN args
  BY Places
<1> QED BY <1>2, <1>3, <1>4 DEF Given

\* Once all options are read, what the command line asks for is what was set.
LEMMA AskedIsDone ==
    ASSUME Inv, ~Unread
    PROVE  /\ AllAlone => CapsAsked = caps
           /\ FiltersAsked = mac.filters
           /\ PolicyGranted = mac.policy
           /\ Given("bare") = {}
           /\ \A i \in Given("c") : ~BadWord(args[i].words)
           /\ \A i \in Given("p") : args[i].policy \in Policies
<1>1. ReadRight /\ CapsOfLast /\ FiltersOfAll /\ PolicyOfLast
  BY DEF Inv, Reading
<1>2. /\ Given("c") = {i \in 1..(next - 1) : args[i].opt = "c"}
      /\ Given("f") = {i \in 1..(next - 1) : args[i].opt = "f"}
      /\ Given("p") = {i \in 1..(next - 1) : args[i].opt = "p"}
      /\ Given("bare") = {i \in 1..(next - 1) : args[i].opt = "bare"}
  BY GivenWereRead
<1>3. ASSUME AllAlone PROVE CapsAsked = caps
  <2>1. CASE caps = OwnCaps /\ \A j \in 1..(next - 1) : args[j].opt # "c"
    BY <1>2, <2>1 DEF CapsAsked
  <2>2. ASSUME NEW j \in 1..(next - 1), args[j].opt = "c",
               caps = Translated({}, args[j].words),
               \A k \in 1..(next - 1) : args[k].opt = "c" => k <= j
        PROVE  CapsAsked = caps
    <3>1. j \in Given("c") /\ \A k \in Given("c") : k <= j
      BY <1>2, <2>2
    <3>2. \A i \in Given("c") : i \in Nat
      BY <1>2, Places
    <3>3. Latest("c") = j
      <4>1. \A i \in Given("c") : (\A k \in Given("c") : k <= i) => i = j
        BY <3>1, <3>2
      <4> QED BY <3>1, <4>1 DEF Latest
    <3> DEFINE words == args[j].words
    <3>4. CapsAsked = IF words = <<"all">> THEN Caps ELSE {words[i] : i \in DOMAIN words}
      BY <3>1, <3>3 DEF CapsAsked
    <3>5. caps = IF SaysAll(words) THEN Caps ELSE {words[i] : i \in DOMAIN words}
      BY <2>2 DEF Translated
    <3>6. SaysAll(words) => words = <<"all">>
      BY <1>3, <3>1 DEF AllAlone
    <3>7. SaysAll(<<"all">>)
      BY DEF SaysAll
    <3> HIDE DEF words
    <3> QED BY <3>4, <3>5, <3>6, <3>7
  <2> QED BY <1>1, <2>1, <2>2 DEF CapsOfLast
<1>4. FiltersAsked = mac.filters
  BY <1>1, <1>2 DEF FiltersAsked, FiltersOfAll
<1>5. PolicyGranted = mac.policy
  <2> DEFINE granted == Given("p") \ refused
  <2>1. CASE /\ mac.policy = "none"
             /\ \A j \in 1..(next - 1) : args[j].opt = "p" => j \in refused
    <3>1. granted = {}
      BY <1>2, <2>1
    <3> QED BY <2>1, <3>1 DEF PolicyGranted
  <2>2. ASSUME NEW j \in 1..(next - 1),
               args[j].opt = "p", j \notin refused, mac.policy = args[j].policy,
               \A k \in 1..(next - 1) : args[k].opt = "p" /\ k \notin refused => k <= j
        PROVE  PolicyGranted = mac.policy
    <3>1. j \in granted /\ \A k \in granted : k <= j
      BY <1>2, <2>2
    <3>2. \A i \in granted : i \in Nat
      BY <1>2, Places
    <3>3. \A i \in granted : (\A k \in granted : k <= i) => i = j
      BY <3>1, <3>2
    <3> QED BY <2>2, <3>1, <3>3 DEF PolicyGranted
  <2> QED BY <1>1, <2>1, <2>2 DEF PolicyOfLast
<1>6. /\ Given("bare") = {}
      /\ \A i \in Given("c") : ~BadWord(args[i].words)
      /\ \A i \in Given("p") : args[i].policy \in Policies
  BY <1>1, <1>2 DEF ReadRight
<1> QED BY <1>3, <1>4, <1>5, <1>6

-----------------------------------------------------------------------------

\* Every variable of Execmac stays in its range, and there is no child before
\* the options are read.
THEOREM TypeCorrect == Spec => []TypeOK
<1>1. Inv => TypeOK
  BY DEF Inv
<1> QED BY <1>1, InvHolds, PTL

\* No command runs with more than its command line gives it (execmac.c:69 to
\* 159), whatever the order of the options, and its policy is that of the last
\* -p which the kernel granted.
THEOREM CommandIsRestricted == Spec => []RunsRestricted
<1>1. Inv => RunsRestricted
  <2> SUFFICES ASSUME Inv, child = "command" PROVE RunsRestricted
    BY DEF RunsRestricted
  <2>1. /\ ~Unread /\ childMac.caps \subseteq caps
        /\ childMac.filters = mac.filters /\ childMac.policy = mac.policy
    BY DEF Inv, Running
  <2> QED BY <2>1, AskedIsDone DEF RunsRestricted, CapsKept
<1> QED BY <1>1, InvHolds, PTL

\* execmac says that the command succeeded only if it ran restricted and did
\* (execmac.c:184 to 191).
THEOREM SuccessIsTheCommands == Spec => []ZeroIsTheCommands
<1>1. Inv => ZeroIsTheCommands
  <2> SUFFICES ASSUME Inv, pc = "ended", exit = 0 PROVE ZeroIsTheCommands
    BY DEF ZeroIsTheCommands
  <2>1. child = "exited" /\ status = 0
    BY DEF Inv, Running
  <2>2. ~Unread /\ childMac.caps \subseteq caps /\ childMac.filters = mac.filters
    BY <2>1 DEF Inv, Running
  <2> QED BY <2>1, <2>2, AskedIsDone DEF ZeroIsTheCommands, CapsKept
<1> QED BY <1>1, InvHolds, PTL
=============================================================================
