------------------------------ MODULE SuProofs ------------------------------
(***************************************************************************)
(* Theorems about Su, for any users, any words and command lines of any    *)
(* length.                                                                 *)
(***************************************************************************)
EXTENDS Su, SequenceTheorems, WellFoundedInduction, TLAPS

-----------------------------------------------------------------------------
(* What the loop over the arguments has read.                              *)

OnlyDashesBefore(m) == \A k \in 1..(m - 1) : args[k] = "-"

\* The loop has come to the end, to a -c, or to a name.
RanOut ==
    /\ user \in {"", "root"} /\ commandAt = 0
    /\ OnlyDashesBefore(Len(args) + 1)
    /\ login <=> Len(args) > 0
AtCommand(m) ==
    /\ user \in {"", "root"} /\ commandAt = m + 1
    /\ args[m] = "-c" /\ OnlyDashesBefore(m)
AtName(m) ==
    /\ user = args[m] /\ commandAt = 0
    /\ args[m] \notin {"-h", "-", "-c"} /\ OnlyDashesBefore(m)
    /\ login <=> m > 1

HasRead == RanOut \/ \E m \in DOMAIN args : AtCommand(m) \/ AtName(m)

\* What su does with it.
SuReads ==
    tool = "su" =>
        /\ stage \in {"args", "lookup", "setuid", "seteuid", "exec", "shell", "ended"}
        /\ stage = "args" =>
              /\ user = "" /\ commandAt = 0
              /\ n <= Len(args) + 1 /\ OnlyDashesBefore(n)
              /\ login <=> n > 1
        /\ stage \in {"lookup", "setuid", "seteuid", "exec", "shell"} => HasRead
        /\ stage \in {"setuid", "seteuid", "exec", "shell"} => user # ""
        /\ stage = "shell" => argv = IF commandAt # 0 THEN ShellArgs(commandAt)
                                  ELSE IF login THEN <<"--login">> ELSE <<>>

\* Whom su has become, with what the kernel has refused.
IdsFollow ==
    tool = "su" =>
        /\ stage \in {"seteuid", "exec", "shell"} =>
              (uid = user /\ euid = user) \/ "setuid" \in refused
        /\ stage \in {"exec", "shell"} =>
              euid = user \/ {"setuid", "seteuid"} \subseteq refused

\* What newgrp has made sure of.
NewgrpReads ==
    tool = "newgrp" =>
        /\ stage \in {"args", "group", "group shell", "shell", "ended"}
        /\ uid = Caller /\ euid = Caller
        /\ stage = "group" =>
              n = 1 \/ (n = 2 /\ args # <<>> /\ args[1] \in {"-x", "-c"})
        /\ stage \in {"group shell", "shell"} =>
              \E k \in DOMAIN args :
                 /\ args[k] \in Numbers /\ gid = ValueOf[args[k]]
                 /\ \A j \in 1..(k - 1) : args[j] \in OptionWords \ {"-", "-xy"}

SuInv == SuTypeOK /\ Len(args) <= MaxWords /\ SuReads /\ IdsFollow /\ NewgrpReads

-----------------------------------------------------------------------------

\* Su is typed, and its arguments are words; for citing.
LEMMA Types ==
    ASSUME SuInv
    PROVE  /\ Len(args) \in Nat /\ DOMAIN args = 1..Len(args)
           /\ \A k \in 1..Len(args) : args[k] \in Words
           /\ n \in Nat /\ n >= 1 /\ commandAt \in Nat
           /\ login \in BOOLEAN
<1>1. args \in Seq(Words)
  BY DEF SuInv, SuTypeOK
<1>2. Len(args) \in Nat /\ DOMAIN args = 1..Len(args)
  BY <1>1, LenProperties
<1>3. \A k \in 1..Len(args) : args[k] \in Words
  BY <1>1, ElementOfSeq
<1>4. n \in 1..(MaxWords + 2) /\ commandAt \in 0..(MaxWords + 1) /\ login \in BOOLEAN
  BY DEF SuInv, SuTypeOK
<1>5. n \in Nat /\ n >= 1 /\ commandAt \in Nat
  BY <1>4, MaxWordsAssumption
<1> QED BY <1>2, <1>3, <1>4, <1>5

\* Words are not empty, and names and numbers are no options.
LEMMA Apart ==
    /\ "" \notin Words
    /\ \A w \in Users \union Texts \union Numbers : w \notin OptionWords
    /\ "-" \in OptionWords /\ "-c" \in OptionWords /\ "-x" \in OptionWords
BY WordsAssumption DEF Words, OptionWords

\* At first no argument is read.
LEMMA InitInv == SuInit => SuInv
<1> SUFFICES ASSUME SuInit PROVE SuInv
  OBVIOUS
<1>1. PICK k \in 0..MaxWords : args \in [1..k -> Words]
  BY DEF SuInit
<1>2. args \in Seq(Words) /\ Len(args) = k /\ k \in Nat
  BY <1>1, MaxWordsAssumption
<1>3. SuTypeOK
  <2>1. argv \in Seq(Words \union {"--login"})
    <3>1. argv = <<>>
      BY DEF SuInit
    <3> QED BY <3>1
  <2>2. n \in 1..(MaxWords + 2) /\ commandAt \in 0..(MaxWords + 1)
    <3>1. n = 1 /\ commandAt = 0
      BY DEF SuInit
    <3> QED BY <3>1, MaxWordsAssumption
  <2>3. uid \in Users /\ euid \in Users /\ gid \in Nat
    BY UsersAssumption, ValuesAssumption DEF SuInit
  <2> QED BY <1>2, <2>1, <2>2, <2>3 DEF SuInit, SuTypeOK
<1>4. SuReads
  <2>1. /\ stage = "args" /\ user = "" /\ commandAt = 0 /\ n = 1 /\ login = FALSE
    BY DEF SuInit
  <2>2. n <= Len(args) + 1 /\ ~(n > 1) /\ OnlyDashesBefore(n)
    <3>1. n = 1 /\ Len(args) \in Nat
      BY <1>2, <2>1
    <3>2. 1..(n - 1) = {}
      BY <3>1
    <3> QED BY <3>1, <3>2 DEF OnlyDashesBefore
  <2> QED BY <2>1, <2>2 DEF SuReads
<1>5. NewgrpReads
  BY DEF SuInit, NewgrpReads
<1>6. Len(args) <= MaxWords
  BY <1>1, <1>2, MaxWordsAssumption
<1>7. IdsFollow
  BY DEF SuInit, IdsFollow
<1> QED BY <1>3, <1>4, <1>5, <1>6, <1>7 DEF SuInv

\* The shell is started with words.
LEMMA ShellArgsType ==
    ASSUME args \in Seq(Words), NEW m \in Nat \ {0}
    PROVE  ShellArgs(m) \in Seq(Words \union {"--login"})
<1>1. \A k \in m..Len(args) : args[k] \in Words
  BY ElementOfSeq, LenProperties
<1>2. SubSeq(args, m, Len(args)) \in Seq(Words)
  BY <1>1, LenProperties, SubSeqProperties
<1>3. "-c" \in Words
  BY DEF Words, OptionWords
<1>4. <<"-c">> \in Seq(Words)
  BY <1>3
<1>5. ShellArgs(m) \in Seq(Words)
  BY <1>2, <1>4, ConcatProperties DEF ShellArgs
<1> QED BY <1>5, SeqMonotonic

\* Each step keeps the types, and the command line as it is.
LEMMA StepType == SuInv /\ [SuNext]_suVars => SuTypeOK' /\ (Len(args) <= MaxWords)'
<1> SUFFICES ASSUME SuInv, [SuNext]_suVars PROVE SuTypeOK' /\ (Len(args) <= MaxWords)'
  OBVIOUS
<1>t. SuTypeOK /\ Len(args) <= MaxWords
  BY DEF SuInv
<1>1. CASE ReadArg
  <2>1. /\ n \in 1..Len(args) /\ args[n] \in Words /\ n' = n + 1
        /\ user' \in {user, args[n]} /\ commandAt' \in {commandAt, n + 1}
        /\ login' \in {login, TRUE} /\ UNCHANGED <<tool, args, ids, argv>>
        /\ stage' \in {"args", "lookup", "ended"} /\ result' \in {result, 0}
    <3>1. n \in 1..Len(args) /\ args[n] \in Words
      BY <1>1, Types DEF ReadArg
    <3> QED BY <1>1, <3>1 DEF ReadArg, SuEnd, ids
  <2>2. n' \in 1..(MaxWords + 2) /\ commandAt' \in 0..(MaxWords + 1)
    <3>1. n \in 1..MaxWords /\ commandAt \in 0..(MaxWords + 1)
      <4>1. n \in Nat /\ Len(args) \in Nat /\ Len(args) <= MaxWords
        BY <1>t, Types
      <4>2. commandAt \in 0..(MaxWords + 1)
        BY <1>t DEF SuTypeOK
      <4> QED BY <2>1, <4>1, <4>2, MaxWordsAssumption
    <3>2. n' = n + 1 /\ commandAt' \in {commandAt, n + 1}
      BY <2>1
    <3> QED BY <3>1, <3>2, MaxWordsAssumption
  <2> QED BY <1>t, <2>1, <2>2 DEF SuTypeOK, ids
<1>2. CASE EndOfArgs
  BY <1>2, <1>t DEF EndOfArgs, readVars, ids, SuTypeOK
<1>3. CASE Lookup
  <2>1. user' \in Words
    BY <1>3, <1>t, UsersAssumption DEF Lookup, Words, SuTypeOK
  <2> QED BY <1>3, <1>t, <2>1 DEF Lookup, NotFound, SuEnd, ids, SuTypeOK
<1>4. CASE SetUid
  BY <1>4, <1>t DEF SetUid, readVars, SuTypeOK
<1>5. CASE SetEuid
  BY <1>5, <1>t DEF SetEuid, readVars, SuTypeOK
<1>6. CASE Exec
  <2>1. argv' \in Seq(Words \union {"--login"})
    <3>1. CASE argv' = argv
      BY <1>t, <3>1 DEF SuTypeOK
    <3>2. CASE commandAt # 0 /\ argv' = ShellArgs(commandAt)
      BY <1>t, <3>2, Types, ShellArgsType DEF SuTypeOK
    <3>3. CASE argv' \in {<<"--login">>, <<>>}
      <4>1. <<"--login">> \in Seq(Words \union {"--login"}) /\ <<>> \in Seq(Words \union {"--login"})
        OBVIOUS
      <4> QED BY <3>3, <4>1
    <3> QED BY <1>6, <3>1, <3>2, <3>3 DEF Exec
  <2> QED BY <1>6, <1>t, <2>1 DEF Exec, SuEnd, readVars, ids, SuTypeOK
<1>7. CASE ReadOptions
  <2>1. n' \in {n, 1, 2}
    BY <1>7 DEF ReadOptions, SuEnd
  <2>2. n' \in 1..(MaxWords + 2)
    <3>1. n \in 1..(MaxWords + 2)
      BY <1>t DEF SuTypeOK
    <3> QED BY <2>1, <3>1, MaxWordsAssumption
  <2> QED BY <1>7, <1>t, <2>2 DEF ReadOptions, SuEnd, ids, SuTypeOK
<1>8. CASE SetGid
  <2>1. gid' \in Nat
    BY <1>8, <1>t, ValuesAssumption DEF SetGid, Refusal, SuTypeOK
  <2> QED BY <1>8, <1>t, <2>1 DEF SetGid, Refusal, SuEnd, readVars, SuTypeOK
<1>9. CASE ExecOwnShell
  BY <1>9, <1>t DEF ExecOwnShell, SuEnd, readVars, ids, SuTypeOK
<1>10. CASE UNCHANGED suVars
  BY <1>10, <1>t DEF suVars, SuTypeOK
<1> QED BY <1>1, <1>2, <1>3, <1>4, <1>5, <1>6, <1>7, <1>8, <1>9, <1>10 DEF SuNext, Su, Newgrp

\* Each step of su keeps what its loop has read.
LEMMA StepSu == SuInv /\ [SuNext]_suVars => SuReads'
<1> SUFFICES ASSUME SuInv, [SuNext]_suVars, tool = "su", tool' = "su" PROVE SuReads'
  BY DEF SuReads, SuNext, Su, Newgrp, ReadArg, EndOfArgs, Lookup, SetUid, SetEuid, Exec,
         ReadOptions, SetGid, ExecOwnShell, suVars
<1>s. SuReads
  BY DEF SuInv
<1>1. CASE ReadArg
  <2>1. stage = "args" /\ n <= Len(args) /\ n' = n + 1 /\ args' = args
    BY <1>1 DEF ReadArg
  <2>2. n \in Nat /\ n >= 1 /\ Len(args) \in Nat /\ DOMAIN args = 1..Len(args)
    BY Types
  <2>3. n <= Len(args) /\ n' = n + 1
    BY <2>1
  <2>4. n \in DOMAIN args
    BY <2>2, <2>3
  <2>5. n' <= Len(args) + 1 /\ n' > 1 /\ n + 1 # 0
    BY <2>2, <2>3
  <2>6. \A k \in 1..(n' - 1) : k \in 1..(n - 1) \/ k = n
    BY <2>2, <2>3
  <2>7. /\ user = "" /\ commandAt = 0 /\ OnlyDashesBefore(n) /\ (login <=> n > 1)
    BY <1>s, <2>1 DEF SuReads
  <2>8. CASE args[n] = "-h"
    BY <1>1, <2>8 DEF ReadArg, SuEnd, SuReads
  <2>9. CASE args[n] = "-"
    <3>1. login' = TRUE /\ UNCHANGED <<stage, user, commandAt>>
      BY <1>1, <2>9 DEF ReadArg
    <3>2. \A k \in 1..(n' - 1) : args'[k] = "-"
      BY <2>1, <2>7, <2>9, <2>6 DEF OnlyDashesBefore
    <3>3. n' <= Len(args') + 1 /\ n' > 1
      BY <2>1, <2>5
    <3> QED BY <2>1, <2>7, <3>1, <3>2, <3>3 DEF SuReads, OnlyDashesBefore
  <2>10. CASE args[n] = "-c"
    <3>1. commandAt' = n + 1 /\ stage' = "lookup" /\ user' = "" /\ UNCHANGED login
      BY <1>1, <2>7, <2>10 DEF ReadArg
    <3>2. /\ args'[n] = "-c" /\ commandAt' = n + 1 /\ user' = ""
          /\ \A k \in 1..(n - 1) : args'[k] = "-"
      BY <2>1, <2>7, <2>10, <3>1 DEF OnlyDashesBefore
    <3>3. n \in DOMAIN args'
      BY <2>1, <2>4
    <3>4. HasRead'
      BY <3>2, <3>3 DEF HasRead, AtCommand, OnlyDashesBefore
    <3> QED BY <3>1, <3>4 DEF SuReads
  <2>11. CASE args[n] \notin {"-h", "-", "-c"}
    <3>1. commandAt' = 0 /\ stage' = "lookup" /\ user' = args[n] /\ UNCHANGED login
      BY <1>1, <2>7, <2>11 DEF ReadArg
    <3>2. /\ user' = args'[n] /\ commandAt' = 0 /\ args'[n] \notin {"-h", "-", "-c"}
          /\ (login' <=> n > 1) /\ \A k \in 1..(n - 1) : args'[k] = "-"
      BY <2>1, <2>7, <2>11, <3>1 DEF OnlyDashesBefore
    <3>3. n \in DOMAIN args'
      BY <2>1, <2>4
    <3>4. HasRead'
      BY <3>2, <3>3 DEF HasRead, AtName, OnlyDashesBefore
    <3> QED BY <3>1, <3>4 DEF SuReads
  <2> QED BY <2>8, <2>9, <2>10, <2>11
<1>2. CASE EndOfArgs
  <2>1. stage = "args" /\ stage' = "lookup" /\ UNCHANGED <<args, user, commandAt, login>> /\ n > Len(args)
    BY <1>2 DEF EndOfArgs, readVars
  <2>2. /\ user = "" /\ commandAt = 0 /\ n <= Len(args) + 1
        /\ OnlyDashesBefore(n) /\ (login <=> n > 1)
    BY <1>s, <2>1 DEF SuReads
  <2>3. n = Len(args) + 1 /\ (n > 1 <=> Len(args) > 0)
    <3>1. n \in Nat /\ Len(args) \in Nat
      BY Types
    <3>2. n > Len(args) /\ n <= Len(args) + 1
      BY <2>1, <2>2
    <3> QED BY <3>1, <3>2
  <2>4. RanOut'
    BY <2>1, <2>2, <2>3 DEF RanOut, OnlyDashesBefore
  <2> QED BY <2>1, <2>4 DEF SuReads, HasRead
<1>3. CASE Lookup
  <2>1. /\ stage = "lookup" /\ UNCHANGED <<args, commandAt, login>> /\ stage' \in {"setuid", "ended"}
        /\ user' = (IF user = "" THEN "root" ELSE user)
    BY <1>3 DEF Lookup, SuEnd
  <2>2. HasRead
    BY <1>s, <2>1 DEF SuReads
  <2>3. user' # ""
    BY <2>1
  <2>4. HasRead'
    <3>1. CASE RanOut
      BY <2>1, <3>1 DEF HasRead, RanOut, OnlyDashesBefore
    <3>2. ASSUME NEW m \in DOMAIN args, AtCommand(m) PROVE HasRead'
      <4>1. AtCommand(m)'
        BY <2>1, <3>2 DEF AtCommand, OnlyDashesBefore
      <4> QED BY <2>1, <4>1 DEF HasRead
    <3>3. ASSUME NEW m \in DOMAIN args, AtName(m) PROVE HasRead'
      <4>1. args[m] \in Words
        BY Types
      <4>2. user # ""
        BY <3>3, <4>1, Apart DEF AtName
      <4>3. AtName(m)'
        BY <2>1, <3>3, <4>2 DEF AtName, OnlyDashesBefore
      <4> QED BY <2>1, <4>3 DEF HasRead
    <3> QED BY <2>2, <3>1, <3>2, <3>3 DEF HasRead
  <2> QED BY <2>1, <2>3, <2>4 DEF SuReads
<1>4. CASE SetUid \/ SetEuid
  <2>1. /\ UNCHANGED <<args, commandAt, login, user>> /\ stage' \in {"seteuid", "exec"}
        /\ stage \in {"setuid", "seteuid"}
    BY <1>4 DEF SetUid, SetEuid, readVars
  <2>2. HasRead /\ user # ""
    BY <1>s, <2>1 DEF SuReads
  <2>3. HasRead'
    BY <2>1, <2>2 DEF HasRead, RanOut, AtCommand, AtName, OnlyDashesBefore
  <2> QED BY <2>1, <2>2, <2>3 DEF SuReads
<1>5. CASE Exec
  <2>1. stage = "exec" /\ UNCHANGED <<args, commandAt, login, user>> /\ stage' \in {"shell", "ended"}
    BY <1>5 DEF Exec, SuEnd, readVars
  <2>2. HasRead /\ user # ""
    BY <1>s, <2>1 DEF SuReads
  <2>3. HasRead'
    BY <2>1, <2>2 DEF HasRead, RanOut, AtCommand, AtName, OnlyDashesBefore
  <2>4. stage' = "shell" => argv' = IF commandAt # 0 THEN ShellArgs(commandAt)
                                 ELSE IF login THEN <<"--login">> ELSE <<>>
    BY <1>5 DEF Exec, SuEnd
  <2> QED BY <2>1, <2>2, <2>3, <2>4 DEF SuReads, ShellArgs
<1>6. CASE UNCHANGED suVars
  BY <1>6, <1>s DEF suVars, SuReads, HasRead, RanOut, AtCommand, AtName, OnlyDashesBefore, ShellArgs
<1>7. ~ReadOptions /\ ~SetGid /\ ~ExecOwnShell
  BY <1>s DEF ReadOptions, SetGid, ExecOwnShell, SuReads
<1> QED BY <1>1, <1>2, <1>3, <1>4, <1>5, <1>6, <1>7 DEF SuNext, Su, Newgrp

\* Each step of su keeps whom it has become.
LEMMA StepIds == SuInv /\ [SuNext]_suVars => IdsFollow'
<1> SUFFICES ASSUME SuInv, [SuNext]_suVars, tool = "su", tool' = "su" PROVE IdsFollow'
  BY DEF IdsFollow, SuNext, Su, Newgrp, ReadArg, EndOfArgs, Lookup, SetUid, SetEuid, Exec,
         ReadOptions, SetGid, ExecOwnShell, suVars
<1>s. IdsFollow
  BY DEF SuInv
<1>0. stage \in {"args", "lookup", "setuid", "seteuid", "exec", "shell", "ended"}
  BY DEF SuInv, SuReads
<1>1. CASE ReadArg \/ EndOfArgs \/ Lookup
  <2>1. stage' \in {"args", "lookup", "setuid", "ended"}
    BY <1>1 DEF ReadArg, EndOfArgs, Lookup, SuEnd
  <2> QED BY <2>1 DEF IdsFollow
<1>2. CASE SetUid
  BY <1>2 DEF SetUid, readVars, IdsFollow
<1>3. CASE SetEuid
  <2>1. (uid = user /\ euid = user) \/ "setuid" \in refused
    BY <1>s, <1>3 DEF SetEuid, IdsFollow
  <2> QED BY <1>3, <2>1 DEF SetEuid, readVars, IdsFollow
<1>4. CASE Exec
  <2>1. stage = "exec" /\ UNCHANGED <<uid, euid, refused, user>>
    BY <1>4 DEF Exec, ids, readVars
  <2> QED BY <1>s, <2>1 DEF IdsFollow
<1>5. CASE UNCHANGED suVars
  BY <1>5, <1>s DEF suVars, IdsFollow
<1>6. ~ReadOptions /\ ~SetGid /\ ~ExecOwnShell
  BY <1>0 DEF ReadOptions, SetGid, ExecOwnShell
<1> QED BY <1>1, <1>2, <1>3, <1>4, <1>5, <1>6 DEF SuNext, Su, Newgrp

\* Each step of newgrp keeps what it has made sure of.
LEMMA StepNewgrp == SuInv /\ [SuNext]_suVars => NewgrpReads'
<1> SUFFICES ASSUME SuInv, [SuNext]_suVars, tool = "newgrp", tool' = "newgrp" PROVE NewgrpReads'
  BY DEF NewgrpReads, SuNext, Su, Newgrp, ReadArg, EndOfArgs, Lookup, SetUid, SetEuid, Exec,
         ReadOptions, SetGid, ExecOwnShell, suVars
<1>g. NewgrpReads
  BY DEF SuInv
<1>1. CASE ReadOptions
  BY <1>1, <1>g DEF ReadOptions, SuEnd, ids, NewgrpReads
<1>2. CASE SetGid
  <2>1. stage = "group" /\ UNCHANGED <<args, uid, euid>>
    BY <1>2 DEF SetGid
  <2>2. CASE Refusal
    BY <2>1, <2>2, <1>g DEF Refusal, SuEnd, NewgrpReads
  <2>3. CASE n <= Len(args) /\ args[n] \in Numbers /\ gid' = ValueOf[args[n]] /\ stage' = "group shell"
    <3>1. n \in DOMAIN args'
      <4>1. n \in Nat /\ n >= 1 /\ Len(args) \in Nat /\ DOMAIN args = 1..Len(args)
        BY Types
      <4>2. n <= Len(args) /\ args' = args
        BY <2>1, <2>3
      <4>3. n \in 1..Len(args)
        BY <4>1, <4>2
      <4> QED BY <4>1, <4>2, <4>3
    <3>2. n = 1 \/ (n = 2 /\ args[1] \in {"-x", "-c"})
      BY <1>g, <2>1 DEF NewgrpReads
    <3>3. \A j \in 1..(n - 1) : args'[j] \in OptionWords \ {"-", "-xy"}
      <4>1. CASE n = 1
        BY <4>1
      <4>2. CASE n = 2 /\ args[1] \in {"-x", "-c"}
        <5>1. \A j \in 1..(n - 1) : j = 1
          BY <4>2
        <5> QED BY <4>2, <5>1, <2>1 DEF OptionWords
      <4> QED BY <3>2, <4>1, <4>2
    <3> QED BY <1>g, <2>1, <2>3, <3>1, <3>3 DEF NewgrpReads
  <2> QED BY <1>2, <2>2, <2>3 DEF SetGid
<1>3. CASE ExecOwnShell
  BY <1>3, <1>g DEF ExecOwnShell, SuEnd, ids, NewgrpReads
<1>4. CASE UNCHANGED suVars
  BY <1>4, <1>g DEF suVars, NewgrpReads
<1>5. ~Su
  BY <1>g DEF Su, ReadArg, EndOfArgs, Lookup, SetUid, SetEuid, Exec, NewgrpReads
<1> QED BY <1>1, <1>2, <1>3, <1>4, <1>5 DEF SuNext, Newgrp

\* So they always hold.
LEMMA InvHolds == SuSpec => []SuInv
<1>1. SuInv /\ [SuNext]_suVars => SuInv'
  BY StepType, StepSu, StepIds, StepNewgrp DEF SuInv
<1> QED BY <1>1, InitInv, PTL DEF SuSpec

-----------------------------------------------------------------------------

\* Every variable of Su stays in its range, and past the look-up su has a user
\* there is.
THEOREM SuTypeCorrect == SuSpec => []SuTypeOK
<1>1. SuInv => SuTypeOK
  BY DEF SuInv
<1> QED BY <1>1, InvHolds, PTL

\* newgrp starts a shell only in the group its command line gives, as who
\* called it (newgrp.c:36 to 66).
THEOREM NewgrpGivesGroup == SuSpec => []NewgrpAsAsked
<1>1. SuInv => NewgrpAsAsked
  BY DEF SuInv, NewgrpReads, NewgrpAsAsked
<1> QED BY <1>1, InvHolds, PTL
-----------------------------------------------------------------------------
(* What the command line of su asks for, once the loop has ended.          *)

\* DashC is the first -c there is.
LEMMA FirstDashC ==
    ASSUME SuInv
    PROVE  \/ DashC = 0 /\ \A k \in 1..Len(args) : args[k] # "-c"
           \/ /\ DashC \in 1..Len(args) /\ args[DashC] = "-c"
              /\ \A k \in 1..Len(args) : args[k] = "-c" => DashC <= k
<1> DEFINE I == {k \in 1..Len(args) : args[k] = "-c"}
<1>1. DashC = IF I # {} THEN Min(I) ELSE 0
  BY DEF DashC, SelectInSeq
<1>2. CASE I = {}
  BY <1>1, <1>2
<1>3. CASE I # {}
  <2>1. I \subseteq Nat
    BY Types
  <2>2. \E k \in I : \A j \in I : k <= j
    <3>1. PICK k \in I : \A j \in I : ~(j < k)
      <4>1. PICK k \in I : \A j \in I : ~(<<j, k>> \in OpToRel(<, Nat))
        BY <1>3, <2>1, WFMin, NatLessThanWellFounded
      <4> QED BY <2>1, <4>1 DEF OpToRel
    <3> QED BY <2>1, <3>1
  <2>3. Min(I) \in I /\ \A j \in I : Min(I) <= j
    <3> HIDE DEF I
    <3> QED BY <2>2 DEF Min
  <2> QED BY <1>1, <1>3, <2>3
<1> QED BY <1>2, <1>3

\* What is before it.
LEMMA BeforeDashC ==
    ASSUME SuInv
    PROVE  /\ Len(BeforeC) = IF DashC = 0 THEN Len(args) ELSE DashC - 1
           /\ DOMAIN BeforeC = 1..Len(BeforeC)
           /\ \A k \in 1..Len(BeforeC) : BeforeC[k] = args[k]
           /\ Len(BeforeC) \in Nat
           /\ BeforeC \in Seq(Words)
<1>1. CASE DashC = 0
  BY <1>1, Types DEF BeforeC, SuInv, SuTypeOK
<1>2. CASE DashC # 0
  <2>1. DashC \in 1..Len(args) /\ Len(args) \in Nat /\ \A k \in 1..Len(args) : args[k] \in Words
    BY <1>2, FirstDashC, Types
  <2>2. DashC - 1 \in Int /\ \A k \in 1..(DashC - 1) : args[k] \in Words
    BY <2>1
  <2> DEFINE d == DashC - 1
  <2>3. BeforeC = SubSeq(args, 1, d)
    BY <1>2 DEF BeforeC
  <2>4. d \in Nat
    BY <2>1
  <2> HIDE DEF d
  <2>5. /\ SubSeq(args, 1, d) \in Seq(Words)
        /\ Len(SubSeq(args, 1, d)) = d
        /\ \A k \in 1..d : SubSeq(args, 1, d)[k] = args[k]
    BY <2>2, <2>4, SubSeqProperties DEF d
  <2>6. DOMAIN BeforeC = 1..Len(BeforeC)
    BY <2>3, <2>5, LenProperties
  <2> QED BY <1>2, <2>3, <2>4, <2>5, <2>6 DEF d
<1> QED BY <1>1, <1>2

\* It says - or names nobody.
LEMMA OnlyDashesNameNobody ==
    ASSUME SuInv, \A k \in 1..Len(BeforeC) : BeforeC[k] = "-"
    PROVE  Name = ""
<1>1. CASE BeforeC = <<>>
  BY <1>1 DEF Name
<1>2. CASE BeforeC # <<>>
  <2>1. Len(BeforeC) \in 1..Len(BeforeC)
    BY <1>2, BeforeDashC, EmptySeq
  <2>2. Last(BeforeC) = "-"
    BY <2>1 DEF Last
  <2> QED BY <2>2 DEF Name
<1> QED BY <1>1, <1>2

\* The shell is of the user that was looked up, but for what was refused.
LEMMA OfTheUser ==
    ASSUME SuInv, tool = "su", stage = "shell", user = UserAsked
    PROVE  /\ uid = UserAsked \/ "setuid" \in refused
           /\ euid = UserAsked \/ {"setuid", "seteuid"} \subseteq refused
BY DEF SuInv, IdsFollow

\* su with dashes only, or with no arguments, is root's shell.
LEMMA AsAskedWithoutName ==
    ASSUME SuInv, tool = "su", stage = "shell", RanOut
    PROVE  SuAsAsked
<1>1. /\ user = "root" /\ commandAt = 0 /\ (login <=> Len(args) > 0)
      /\ argv = IF login THEN <<"--login">> ELSE <<>>
  BY DEF SuInv, SuReads, RanOut
<1>2. \A k \in 1..Len(args) : args[k] = "-"
  <2>1. \A k \in 1..Len(args) : k \in 1..((Len(args) + 1) - 1)
    BY Types
  <2> QED BY <2>1 DEF RanOut, OnlyDashesBefore
<1>3. DashC = 0 /\ BeforeC = args
  BY <1>2, FirstDashC DEF BeforeC
<1>4. Name = ""
  BY <1>2, <1>3, OnlyDashesNameNobody
<1>5. "-" \in {BeforeC[k] : k \in DOMAIN BeforeC} <=> Len(args) > 0
  <2>1. DOMAIN args = 1..Len(args) /\ Len(args) \in Nat
    BY Types
  <2>2. Len(args) > 0 => 1 \in DOMAIN args /\ args[1] = "-"
    BY <1>2, <2>1
  <2>3. 1..0 = {}
    OBVIOUS
  <2>4. ~(Len(args) > 0) => DOMAIN args = {}
    BY <2>1, <2>3
  <2> QED BY <1>3, <2>2, <2>4
<1>6. argv = ArgvAsked
  BY <1>1, <1>3, <1>5 DEF ArgvAsked
<1>7. user = UserAsked
  BY <1>1, <1>4 DEF UserAsked
<1> QED BY <1>6, <1>7, OfTheUser DEF SuAsAsked

\* su with a -c before any name runs the command as root.
LEMMA AsAskedWithCommand ==
    ASSUME SuInv, tool = "su", stage = "shell", NEW m \in DOMAIN args, AtCommand(m)
    PROVE  SuAsAsked
<1>1. m \in 1..Len(args) /\ m \in Nat /\ m >= 1 /\ Len(args) \in Nat
  BY Types
<1>2. user = "root" /\ commandAt = m + 1 /\ args[m] = "-c" /\ \A k \in 1..(m - 1) : args[k] = "-"
  BY DEF AtCommand, OnlyDashesBefore, SuInv, SuReads
<1>3. DashC = m
  <2>1. DashC \in 1..Len(args) /\ args[DashC] = "-c" /\ DashC <= m
    BY <1>1, <1>2, FirstDashC
  <2>2. DashC \notin 1..(m - 1)
    BY <1>2, <2>1
  <2> QED BY <1>1, <2>1, <2>2
<1>4. Name = ""
  <2>1. m # 0
    BY <1>1
  <2>2. Len(BeforeC) = m - 1 /\ \A k \in 1..Len(BeforeC) : BeforeC[k] = args[k]
    BY <1>3, <2>1, BeforeDashC
  <2> QED BY <1>2, <2>2, OnlyDashesNameNobody
<1>5. argv = ArgvAsked
  <2>1. m # 0 /\ commandAt # 0
    BY <1>1, <1>2
  <2>2. argv = ShellArgs(commandAt)
    BY <2>1 DEF SuInv, SuReads
  <2> QED BY <1>2, <1>3, <2>1, <2>2 DEF ShellArgs, ArgvAsked
<1>6. user = UserAsked
  BY <1>2, <1>4 DEF UserAsked
<1> QED BY <1>5, <1>6, OfTheUser DEF SuAsAsked

\* The loop has ended at the name, and without a -c there is no more to read.
LEMMA AsAskedWithName ==
    ASSUME SuInv, tool = "su", stage = "shell", NEW m \in DOMAIN args, AtName(m)
    PROVE  SuAsAsked
<1> SUFFICES ASSUME UsageLine, ~NameAndCommand
             PROVE  user = UserAsked /\ argv = ArgvAsked
  BY OfTheUser DEF SuAsAsked
<1>1. /\ m \in 1..Len(args) /\ m \in Nat /\ m >= 1 /\ Len(args) \in Nat
      /\ args[m] \in Words
  BY Types
<1>2. /\ user = args[m] /\ args[m] \notin {"-h", "-", "-c"}
      /\ \A k \in 1..(m - 1) : args[k] = "-"
      /\ argv = IF m > 1 THEN <<"--login">> ELSE <<>>
  BY DEF AtName, OnlyDashesBefore, SuInv, SuReads
<1>3. m \in 1..Len(BeforeC)
  <2>1. CASE DashC = 0
    BY <1>1, <2>1, BeforeDashC
  <2>2. CASE DashC # 0
    <3>1. DashC \in 1..Len(args) /\ args[DashC] = "-c" /\ Len(BeforeC) = DashC - 1
      BY <2>2, FirstDashC, BeforeDashC
    <3>2. DashC # m /\ DashC \notin 1..(m - 1)
      BY <1>2, <3>1
    <3> QED BY <1>1, <3>1, <3>2
  <2> QED BY <2>1, <2>2
<1>4. BeforeC[m] = args[m]
  BY <1>3, BeforeDashC
<1>5. \/ m = 1 /\ BeforeC = <<Name>>
      \/ m = 2 /\ BeforeC = <<"-", Name>>
  <2>1. CASE BeforeC = <<>>
    <3>1. Len(BeforeC) = 0
      BY <2>1
    <3> QED BY <1>1, <1>3, <3>1
  <2>2. CASE BeforeC = <<"-">>
    <3>1. m = 1
      <4>1. Len(BeforeC) = 1
        BY <2>2
      <4> QED BY <1>3, <4>1
    <3> QED BY <1>2, <1>4, <2>2, <3>1
  <2>3. CASE BeforeC = <<Name>>
    <3>1. Len(BeforeC) = 1
      BY <2>3
    <3> QED BY <1>3, <2>3, <3>1
  <2>4. CASE BeforeC = <<"-", Name>>
    <3>1. Len(BeforeC) = 2
      BY <2>4
    <3>2. m = 1 \/ m = 2
      BY <1>3, <3>1
    <3>3. m # 1
      BY <1>2, <1>4, <2>4
    <3> QED BY <2>4, <3>2, <3>3
  <2> QED BY <2>1, <2>2, <2>3, <2>4 DEF UsageLine
<1>6. user = Name /\ Name # "" /\ user = UserAsked
  <2>1. BeforeC[m] = Name
    BY <1>5
  <2>2. args[m] # ""
    BY <1>1, Apart
  <2> QED BY <1>2, <1>4, <2>1, <2>2 DEF UserAsked
<1>7. DashC = 0
  BY <1>6 DEF NameAndCommand
<1>8. argv = ArgvAsked
  <2>1. CASE m = 1 /\ BeforeC = <<Name>>
    <3>1. "-" \notin {BeforeC[k] : k \in DOMAIN BeforeC}
      BY <1>2, <1>4, <2>1
    <3>2. argv = <<>>
      BY <1>2, <2>1
    <3> QED BY <1>6, <1>7, <3>1, <3>2 DEF ArgvAsked
  <2>2. CASE m = 2 /\ BeforeC = <<"-", Name>>
    <3>1. "-" \in {BeforeC[k] : k \in DOMAIN BeforeC}
      BY <2>2
    <3>2. argv = <<"--login">>
      BY <1>2, <2>2
    <3> QED BY <1>6, <1>7, <3>1, <3>2 DEF ArgvAsked
  <2> QED BY <1>5, <2>1, <2>2
<1> QED BY <1>6, <1>8

\* For a line that does not both name a user and give a command, su starts the
\* shell that the line asks for, of the user it names but for what the kernel has
\* refused (su.c:50 to 92).
THEOREM SuDoesAsAsked == SuSpec => []SuAsAsked
<1>1. SuInv => SuAsAsked
  <2> SUFFICES ASSUME SuInv, tool = "su", stage = "shell" PROVE SuAsAsked
    BY DEF SuAsAsked
  <2>1. HasRead
    BY DEF SuInv, SuReads
  <2> QED BY <2>1, AsAskedWithoutName, AsAskedWithCommand, AsAskedWithName DEF HasRead
<1> QED BY <1>1, InvHolds, PTL
=============================================================================
