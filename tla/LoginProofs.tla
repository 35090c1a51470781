----------------------------- MODULE LoginProofs ----------------------------
(***************************************************************************)
(* Theorems about Login, for any users, words and lines and any number of  *)
(* lines typed ahead.                                                      *)
(***************************************************************************)
EXTENDS Login, SequenceTheorems, WellFoundedInduction, TLAPS

Letters == Words \union Space
Named == Words \union {"blank"}

-----------------------------------------------------------------------------
(* What fgets() and scanf() take from the buffer.                          *)

\* A set of numbers that is not empty has a smallest one.
LEMMA Smallest ==
    ASSUME NEW S, S \subseteq Nat, S # {}
    PROVE  \E m \in S : \A k \in S : m <= k
<1>1. PICK m \in S : \A k \in S : ~(<<k, m>> \in OpToRel(<, Nat))
  BY WFMin, NatLessThanWellFounded
<1>2. \A k \in S : ~(k < m)
  BY <1>1 DEF OpToRel
<1> QED BY <1>2

\* What stdio has is typed, and ends with a newline.
LEMMA BufferFacts ==
    ASSUME TypeOK
    PROVE  /\ buf \in Seq(Letters) /\ Len(buf) \in Nat /\ DOMAIN buf = 1..Len(buf)
           /\ \A k \in 1..Len(buf) : buf[k] \in Letters
           /\ buf # <<>> => Len(buf) >= 1 /\ buf[Len(buf)] = "newline"
<1>1. buf \in Seq(Letters)
  BY DEF TypeOK, Letters
<1>2. Len(buf) \in Nat /\ DOMAIN buf = 1..Len(buf)
  BY <1>1, LenProperties
<1>3. \A k \in 1..Len(buf) : buf[k] \in Letters
  BY <1>1, ElementOfSeq
<1>4. ASSUME buf # <<>> PROVE Len(buf) >= 1 /\ buf[Len(buf)] = "newline"
  <2>1. Last(buf) = "newline"
    BY <1>4 DEF TypeOK
  <2>2. Len(buf) \in Nat \ {0}
    BY <1>1, <1>4, EmptySeq
  <2> QED BY <2>1, <2>2 DEF Last
<1> QED BY <1>1, <1>2, <1>3, <1>4

\* What is left of the buffer still ends with its newline.
LEMMA Rest ==
    ASSUME TypeOK, NEW k \in Nat, k >= 1, k <= Len(buf) + 1
    PROVE  LET rest == SubSeq(buf, k, Len(buf)) IN
           /\ rest \in Seq(Letters)
           /\ rest # <<>> => Last(rest) = "newline"
           /\ Len(rest) = (Len(buf) - k) + 1
           /\ \A j \in 1..Len(rest) : rest[j] = buf[(k + j) - 1]
<1> DEFINE rest == SubSeq(buf, k, Len(buf))
<1>1. k \in Int /\ Len(buf) \in Int /\ \A j \in k..Len(buf) : buf[j] \in Letters
  BY BufferFacts
<1>2. /\ rest \in Seq(Letters)
      /\ Len(rest) = IF k <= Len(buf) THEN Len(buf) - k + 1 ELSE 0
      /\ \A j \in 1..(Len(buf) - k + 1) : rest[j] = buf[k + j - 1]
  BY <1>1, SubSeqProperties
<1>3. Len(rest) = (Len(buf) - k) + 1
  BY <1>1, <1>2
<1> HIDE DEF rest
<1>4. ASSUME rest # <<>> PROVE Last(rest) = "newline"
  <2>1. Len(rest) \in Nat \ {0}
    BY <1>2, <1>4, EmptySeq
  <2>2. Len(rest) \in 1..(Len(buf) - k + 1) /\ k + Len(rest) - 1 = Len(buf)
    BY <1>1, <1>3, <2>1
  <2>3. rest[Len(rest)] = buf[Len(buf)]
    BY <1>2, <2>2
  <2>4. Len(buf) # 0
    BY <1>1, <2>2, <2>1, <1>3
  <2>5. buf # <<>>
    BY <2>4
  <2> QED BY <2>3, <2>5, BufferFacts DEF Last
<1> QED BY <1>1, <1>2, <1>3, <1>4 DEF rest

\* What fgets() takes ends with the first newline, or where the user's name has
\* no more room.
LEMMA LineLenFacts ==
    ASSUME TypeOK, buf # <<>>
    PROVE  /\ LineLen \in Nat /\ LineLen >= 1 /\ LineLen <= Len(buf)
           /\ \A k \in 1..(LineLen - 1) : buf[k] # "newline"
           /\ buf[LineLen] = "newline" \/ LineLen = UserMax
<1> DEFINE First(m) == buf[m] = "newline" /\ \A k \in 1..(m - 1) : buf[k] # "newline"
           newline == CHOOSE m \in DOMAIN buf : First(m)
           Ends == {k \in DOMAIN buf : buf[k] = "newline"}
<1>1. Ends \subseteq Nat /\ Len(buf) \in Ends
  BY BufferFacts
<1>2. PICK m \in Ends : \A k \in Ends : m <= k
  <2> HIDE DEF Ends
  <2> QED BY <1>1, Smallest
<1>3. First(m)
  <2>1. ASSUME NEW k \in 1..(m - 1) PROVE buf[k] # "newline"
    <3>1. k \in DOMAIN buf /\ ~(m <= k)
      BY <1>1, <1>2, BufferFacts
    <3> QED BY <1>2, <3>1
  <2> QED BY <1>2, <2>1
<1>4. newline \in DOMAIN buf /\ First(newline)
  <2>1. m \in DOMAIN buf
    BY <1>2
  <2> HIDE DEF First
  <2> QED BY <1>3, <2>1
<1>5. newline \in Nat /\ newline >= 1 /\ newline <= Len(buf)
  BY <1>4, BufferFacts
<1>6. LineLen = IF newline < UserMax THEN newline ELSE UserMax
  BY DEF LineLen
<1> HIDE DEF newline
<1>7. LineLen \in Nat /\ LineLen >= 1 /\ LineLen <= newline /\ LineLen \in {newline, UserMax}
  BY <1>5, <1>6, UserMaxAssumption
<1>8. \A k \in 1..(LineLen - 1) : k \in 1..(newline - 1)
  BY <1>5, <1>7
<1>9. LineLen <= Len(buf)
  BY <1>5, <1>7
<1> QED BY <1>4, <1>7, <1>8, <1>9

\* The name is cut at its newline.
LEMMA NameFacts ==
    ASSUME TypeOK, buf # <<>>
    PROVE  Cut(SubSeq(buf, 1, LineLen)) \in Seq(Named)
<1> DEFINE text == SubSeq(buf, 1, LineLen)
           l == LineLen
<1>1. /\ l \in Nat /\ l >= 1 /\ l <= Len(buf) /\ Len(buf) \in Nat
      /\ \A k \in 1..Len(buf) : buf[k] \in Letters
      /\ \A k \in 1..(l - 1) : buf[k] # "newline"
  BY LineLenFacts, BufferFacts
<1>2. text = SubSeq(buf, 1, l)
  OBVIOUS
<1> HIDE DEF text, l
<1>3. 1 \in Int /\ l \in Int /\ \A k \in 1..l : buf[k] \in Letters
  BY <1>1
<1>4. /\ text \in Seq(Letters) /\ Len(text) = l
      /\ \A k \in 1..l : text[k] = buf[k]
  <2>1. /\ SubSeq(buf, 1, l) \in Seq(Letters)
        /\ Len(SubSeq(buf, 1, l)) = IF 1 <= l THEN l - 1 + 1 ELSE 0
        /\ \A k \in 1..(l - 1 + 1) : SubSeq(buf, 1, l)[k] = buf[1 + k - 1]
    BY <1>3, SubSeqProperties
  <2>2. l - 1 + 1 = l /\ \A k \in 1..l : 1 + k - 1 = k
    BY <1>1
  <2> QED BY <1>1, <1>2, <2>1, <2>2
<1>5. \A k \in 1..(l - 1) : text[k] \in Named
  <2>1. \A k \in 1..(l - 1) : k \in 1..l /\ k \in 1..Len(buf)
    BY <1>1
  <2> QED BY <1>1, <1>4, <2>1 DEF Letters, Named, Space
<1>6. CASE Last(text) = "newline"
  <2>1. Front(text) = SubSeq(text, 1, l - 1)
    BY <1>4 DEF Front
  <2>2. l - 1 \in Int
    BY <1>1
  <2>3. SubSeq(text, 1, l - 1) \in Seq(Named)
    BY <1>3, <1>5, <2>2, SubSeqProperties
  <2> QED BY <1>6, <2>1, <2>3 DEF Cut, text, l
<1>7. CASE Last(text) # "newline"
  <2>1. text[l] \in Named
    <3>1. l \in 1..l
      BY <1>1
    <3>2. text[l] \in Letters /\ text[l] # "newline"
      BY <1>3, <1>4, <1>7, <3>1 DEF Last
    <3> QED BY <3>2 DEF Letters, Named, Space
  <2>2. \A k \in 1..l : text[k] \in Named
    BY <1>1, <1>5, <2>1
  <2>3. text \in Seq(Named)
    <3>1. text \in [1..l -> Named]
      <4>1. text \in [1..l -> Letters]
        BY <1>4, LenProperties
      <4> QED BY <2>2, <4>1
    <3> QED BY <1>1, <3>1
  <2> QED BY <1>7, <2>3 DEF Cut, text, l
<1> QED BY <1>6, <1>7

\* The word that scanf() takes, and what it leaves.
LEMMA WordFacts ==
    ASSUME TypeOK, \E k \in DOMAIN buf : buf[k] \notin Space
    PROVE  LET first == CHOOSE k \in DOMAIN buf :
                            buf[k] \notin Space /\ \A j \in 1..(k - 1) : buf[j] \in Space
               after == CHOOSE k \in first..Len(buf) :
                            buf[k] \in Space /\ \A j \in first..(k - 1) : buf[j] \notin Space
           IN  /\ SubSeq(buf, first, after - 1) \in Seq(Named)
               /\ after \in Nat /\ after >= 1 /\ after <= Len(buf)
<1> DEFINE Begins(k) == buf[k] \notin Space /\ \A j \in 1..(k - 1) : buf[j] \in Space
           first == CHOOSE k \in DOMAIN buf : Begins(k)
           Ends(k) == buf[k] \in Space /\ \A j \in first..(k - 1) : buf[j] \notin Space
           after == CHOOSE k \in first..Len(buf) : Ends(k)
<1>1. first \in DOMAIN buf /\ Begins(first)
  <2> DEFINE S == {k \in DOMAIN buf : buf[k] \notin Space}
  <2>1. S \subseteq Nat /\ S # {}
    BY BufferFacts
  <2>2. PICK m \in S : \A k \in S : m <= k
    <3> HIDE DEF S
    <3> QED BY <2>1, Smallest
  <2>3. Begins(m)
    <3>1. ASSUME NEW j \in 1..(m - 1) PROVE buf[j] \in Space
      <4>1. j \in DOMAIN buf /\ ~(m <= j)
        BY <2>1, <2>2, BufferFacts
      <4> QED BY <2>2, <4>1
    <3> QED BY <2>2, <3>1
  <2>4. m \in DOMAIN buf
    BY <2>2
  <2> HIDE DEF Begins
  <2> QED BY <2>3, <2>4
<1>2. first \in Nat /\ first >= 1 /\ first <= Len(buf) /\ Len(buf) \in Nat
  BY <1>1, BufferFacts
<1>3. buf # <<>>
  BY <1>1
<1> HIDE DEF first
<1>4. after \in first..Len(buf) /\ Ends(after)
  <2> DEFINE S == {k \in first..Len(buf) : buf[k] \in Space}
  <2>1. S \subseteq Nat /\ Len(buf) \in S
    BY <1>2, <1>3, BufferFacts DEF Space
  <2>2. PICK m \in S : \A k \in S : m <= k
    <3> HIDE DEF S
    <3> QED BY <2>1, Smallest
  <2>3. Ends(m)
    <3>1. ASSUME NEW j \in first..(m - 1) PROVE buf[j] \notin Space
      <4>1. j \in first..Len(buf) /\ ~(m <= j)
        BY <1>2, <2>1, <2>2
      <4> QED BY <2>2, <4>1
    <3> QED BY <2>2, <3>1
  <2>4. m \in first..Len(buf)
    BY <2>2
  <2> HIDE DEF Ends
  <2> QED BY <2>3, <2>4
<1>5. after \in Nat /\ after >= 1 /\ after <= Len(buf) /\ after - 1 \in Int /\ first \in Int
  BY <1>2, <1>4
<1>6. \A j \in first..(after - 1) : buf[j] \in Named
  <2>1. \A j \in first..(after - 1) : j \in 1..Len(buf)
    BY <1>2, <1>5
  <2>2. \A j \in first..(after - 1) : buf[j] \in Letters /\ buf[j] \notin Space
    BY <1>4, <2>1, BufferFacts
  <2> QED BY <2>2 DEF Letters, Named
<1>7. SubSeq(buf, first, after - 1) \in Seq(Named)
  BY <1>5, <1>6, SubSeqProperties
<1> QED BY <1>5, <1>7 DEF first

-----------------------------------------------------------------------------
(* What login has made sure of at each place.                              *)

Checked ==
    /\ pc \in {"password", "restore"} /\ "restore" \notin lapses => save = found
    /\ EchoAsFound
    /\ pc \in {"hide", "password", "restore", "verify", "welcome", "session"}
          => Passwd[pwd] # "invalid"
    /\ pc = "welcome" => Passwd[pwd] = "" \/ user = <<Passwd[pwd]>>
    /\ ShellUndisturbed
    /\ UtmpNamesUsers

Inv == TypeOK /\ Checked

\* At first nobody is checked.
LEMMA InitInv == Init => Inv
<1> SUFFICES ASSUME Init PROVE Inv
  OBVIOUS
<1>1. user \in Seq(Words \union {"blank"})
  BY LinesAssumption DEF Init
<1>2. /\ tty = <<>> /\ buf = <<>> /\ utmp = <<>>
      /\ pc = "username" /\ child = "none" /\ ids = [uid |-> "login", gid |-> "login"]
      /\ echo = TRUE /\ found = TRUE /\ save = TRUE /\ bufSeen = TRUE /\ unseen = TRUE
      /\ lapses = {}
      /\ pwd \in DOMAIN Passwd
  BY DEF Init, LoginIds
<1>3. tty \in Seq([text : Lines, seen : BOOLEAN]) /\ Len(tty) <= MaxTyped
  BY <1>2, UserMaxAssumption
<1>4. buf \in Seq(Words \union Space) /\ utmp \in Seq(Words)
  BY <1>2
<1>5. ids \in [uid : DOMAIN Passwd \union {"login"}, gid : DOMAIN Passwd \union {"login"}]
  BY <1>2
<1>6. TypeOK
  BY <1>1, <1>2, <1>3, <1>4, <1>5 DEF TypeOK
<1>7. Checked
  BY <1>2 DEF Checked, EchoAsFound, ShellUndisturbed, UtmpNamesUsers
<1> QED BY <1>6, <1>7 DEF Inv

\* Who types, and stdio.
LEMMA StepTypeLine == Inv /\ TypeLine => Inv'
<1> SUFFICES ASSUME Inv, TypeLine PROVE Inv'
  OBVIOUS
<1>1. /\ UNCHANGED <<pc, echo, found, lapses, save, buf, bufSeen, unseen, user, pwd, child, ids, utmp>>
      /\ Len(tty) < MaxTyped
  BY DEF TypeLine, bufVars, childVars
<1>2. PICK line \in Lines : tty' = Append(tty, [text |-> line, seen |-> echo])
  BY DEF TypeLine
<1>3. TypeOK /\ Checked
  BY DEF Inv
<1>4. tty' \in Seq([text : Lines, seen : BOOLEAN]) /\ Len(tty') = Len(tty) + 1
  BY <1>2, <1>3, AppendProperties DEF TypeOK
<1>5. Len(tty') <= MaxTyped
  <2>1. Len(tty) \in Nat
    BY <1>3, LenProperties DEF TypeOK
  <2> QED BY <1>1, <1>4, <2>1, UserMaxAssumption
<1>6. TypeOK'
  BY <1>1, <1>3, <1>4, <1>5 DEF TypeOK
<1>7. Checked'
  BY <1>1, <1>3 DEF Checked, EchoAsFound, ShellUndisturbed, UtmpNamesUsers
<1> QED BY <1>6, <1>7 DEF Inv

\* A line that is there, and the lines after it.
LEMMA FirstLine ==
    ASSUME TypeOK, tty # <<>>
    PROVE  /\ Head(tty).text \in Seq(Named) /\ Head(tty).seen \in BOOLEAN
           /\ Tail(tty) \in Seq([text : Lines, seen : BOOLEAN])
           /\ Len(Tail(tty)) <= MaxTyped
<1> DEFINE S == [text : Lines, seen : BOOLEAN]
<1>1. tty \in Seq(S) /\ Len(tty) <= MaxTyped
  BY DEF TypeOK
<1> HIDE DEF S
<1>2. Head(tty) \in S /\ Tail(tty) \in Seq(S) /\ Len(Tail(tty)) = Len(tty) - 1 /\ Len(tty) \in Nat
  BY <1>1, HeadTailProperties, LenProperties
<1>3. Len(Tail(tty)) <= MaxTyped
  BY <1>1, <1>2, UserMaxAssumption
<1> QED BY <1>2, <1>3, LinesAssumption DEF S, Named

\* stdio reads a line of the terminal.
LEMMA StepFill == Inv /\ Fill => Inv'
<1> SUFFICES ASSUME Inv, Fill PROVE Inv'
  OBVIOUS
<1>1. /\ UNCHANGED <<pc, echo, found, lapses, save, user, unseen, pwd, child, ids, utmp>>
      /\ tty # <<>> /\ tty' = Tail(tty) /\ bufSeen' = Head(tty).seen
      /\ buf' = Append(Head(tty).text, "newline")
  BY DEF Fill, childVars
<1>2. TypeOK /\ Checked
  BY DEF Inv
<1>3. Head(tty).text \in Seq(Words \union Space) /\ "newline" \in Words \union Space
  <2>1. Named \subseteq Words \union Space
    BY DEF Named, Space
  <2> QED BY <1>1, <1>2, <2>1, FirstLine, SeqMonotonic DEF Space
<1>4. buf' \in Seq(Words \union Space) /\ Last(buf') = "newline"
  BY <1>1, <1>3, AppendProperties DEF Last
<1>5. TypeOK'
  BY <1>1, <1>2, <1>4, FirstLine DEF TypeOK
<1>6. Checked'
  BY <1>1, <1>2 DEF Checked, EchoAsFound, ShellUndisturbed, UtmpNamesUsers
<1> QED BY <1>5, <1>6 DEF Inv

\* The two reads, and what comes of them.
LEMMA StepGetName == Inv /\ (GetName \/ NameEof) => Inv'
<1> SUFFICES ASSUME Inv, GetName \/ NameEof PROVE Inv'
  OBVIOUS
<1>1. /\ UNCHANGED <<tty, echo, found, lapses, save, bufSeen, unseen, pwd, child, ids, utmp>>
      /\ pc = "username" /\ pc' = "lookup"
  BY DEF GetName, NameEof, ttyVars, bufVars, childVars
<1>2. TypeOK /\ Checked
  BY DEF Inv
<1>3. /\ user' \in Seq(Words \union {"blank"}) /\ buf' \in Seq(Words \union Space)
      /\ buf' # <<>> => Last(buf') = "newline"
  <2>1. CASE NameEof
    BY <1>2, <2>1 DEF NameEof, bufVars, TypeOK
  <2>2. CASE GetName
    <3>1. /\ buf # <<>> /\ user' = Cut(SubSeq(buf, 1, LineLen))
          /\ buf' = SubSeq(buf, LineLen + 1, Len(buf))
      BY <2>2 DEF GetName
    <3>2. LineLen + 1 \in Nat /\ LineLen + 1 >= 1 /\ LineLen + 1 <= Len(buf) + 1
      BY <1>2, <3>1, LineLenFacts, BufferFacts
    <3>3. buf' \in Seq(Letters) /\ (buf' # <<>> => Last(buf') = "newline")
      BY <1>2, <3>1, <3>2, Rest
    <3>4. user' \in Seq(Named)
      BY <1>2, <3>1, NameFacts
    <3> QED BY <3>3, <3>4 DEF Letters, Named
  <2> QED BY <2>1, <2>2
<1>4. TypeOK'
  BY <1>1, <1>2, <1>3 DEF TypeOK
<1>5. Checked'
  BY <1>1, <1>2 DEF Checked, EchoAsFound, ShellUndisturbed, UtmpNamesUsers
<1> QED BY <1>4, <1>5 DEF Inv

\* The user that was read is looked up.
LEMMA StepLookup == Inv /\ Lookup => Inv'
<1> SUFFICES ASSUME Inv, Lookup PROVE Inv'
  OBVIOUS
<1>1. /\ UNCHANGED <<tty, echo, found, lapses, save, buf, bufSeen, unseen, user, child, ids, utmp>>
      /\ pc = "lookup"
  BY DEF Lookup, ttyVars, bufVars, childVars
<1>2. TypeOK /\ Checked
  BY DEF Inv
<1>3. \/ pc' = "username" /\ pwd' \in DOMAIN Passwd
      \/ pc' = "welcome" /\ pwd' \in DOMAIN Passwd /\ Passwd[pwd'] = ""
      \/ pc' = "hide" /\ pwd' \in DOMAIN Passwd /\ Passwd[pwd'] # "invalid"
  <2>1. CASE Known
    <3>1. pwd' = user[1] /\ pc' = AfterName(user[1])
      BY <2>1 DEF Lookup
    <3>2. user[1] \in DOMAIN Passwd
      BY <2>1 DEF Known
    <3>3. /\ Passwd[user[1]] = "" => AfterName(user[1]) = "welcome"
          /\ Passwd[user[1]] = "invalid" => AfterName(user[1]) = "username"
          /\ Passwd[user[1]] \notin {"", "invalid"} => AfterName(user[1]) = "hide"
      BY DEF AfterName
    <3> QED BY <3>1, <3>2, <3>3
  <2>2. CASE ~Known
    BY <1>2, <2>2 DEF Lookup, AskAgain, TypeOK
  <2> QED BY <2>1, <2>2
<1>4. TypeOK'
  BY <1>1, <1>2, <1>3 DEF TypeOK
<1>5. Checked'
  BY <1>1, <1>2, <1>3 DEF Checked, EchoAsFound, ShellUndisturbed, UtmpNamesUsers
<1> QED BY <1>4, <1>5 DEF Inv

\* The echo is switched off, and what was typed ahead is thrown away.
LEMMA StepHideEcho == Inv /\ HideEcho => Inv'
<1> SUFFICES ASSUME Inv, HideEcho PROVE Inv'
  OBVIOUS
<1>1. /\ UNCHANGED <<found, buf, bufSeen, user, pwd, child, ids, utmp>>
      /\ pc = "hide" /\ pc' = "password" /\ unseen' = TRUE
  BY DEF HideEcho, childVars
<1>2. PICK failed \in SUBSET {"restore", "hide"} :
          /\ IF "restore" \in failed THEN save' \in BOOLEAN ELSE save' = echo
          /\ IF "hide" \in failed THEN UNCHANGED <<echo, tty>> ELSE echo' = FALSE /\ tty' = <<>>
          /\ lapses' = (lapses \ {"hide"}) \union failed
  BY DEF HideEcho, Saved, Flushed
<1>3. TypeOK /\ Checked
  BY DEF Inv
<1>4. /\ tty' \in Seq([text : Lines, seen : BOOLEAN]) /\ Len(tty') <= MaxTyped
      /\ echo' \in BOOLEAN
  <2>1. CASE UNCHANGED <<echo, tty>>
    BY <1>3, <2>1 DEF TypeOK
  <2>2. CASE echo' = FALSE /\ tty' = <<>>
    <3>1. tty' \in Seq([text : Lines, seen : BOOLEAN]) /\ Len(tty') <= MaxTyped
      BY <2>2, UserMaxAssumption
    <3> QED BY <2>2, <3>1
  <2> QED BY <1>2, <2>1, <2>2
<1>5. save' \in BOOLEAN /\ lapses' \subseteq {"hide", "restore"}
  BY <1>2, <1>3 DEF TypeOK
<1>6. TypeOK'
  BY <1>1, <1>3, <1>4, <1>5 DEF TypeOK
<1>7. "restore" \notin lapses' => save' = found'
  BY <1>1, <1>2, <1>3 DEF Checked, EchoAsFound
<1>8. Checked'
  BY <1>1, <1>3, <1>7 DEF Checked, EchoAsFound, ShellUndisturbed, UtmpNamesUsers
<1> QED BY <1>6, <1>8 DEF Inv

\* A password is read, or there is none to read.
LEMMA StepScanPassword == Inv /\ (ScanPassword \/ PasswordEof) => Inv'
<1> SUFFICES ASSUME Inv, ScanPassword \/ PasswordEof PROVE Inv'
  OBVIOUS
<1>1. /\ UNCHANGED <<tty, echo, found, lapses, save, bufSeen, pwd, child, ids, utmp>>
      /\ pc = "password"
  BY DEF ScanPassword, PasswordEof, ttyVars, bufVars, childVars
<1>2. TypeOK /\ Checked
  BY DEF Inv
<1>3. /\ pc' \in {"password", "restore"} /\ unseen' \in BOOLEAN
      /\ user' \in Seq(Words \union {"blank"}) /\ buf' \in Seq(Words \union Space)
      /\ buf' # <<>> => Last(buf') = "newline"
  <2>1. CASE PasswordEof
    BY <1>2, <2>1 DEF PasswordEof, bufVars, TypeOK
  <2>2. CASE buf' = <<>> /\ UNCHANGED <<pc, user, unseen>>
    BY <1>1, <1>2, <2>2 DEF TypeOK
  <2> DEFINE first == CHOOSE k \in DOMAIN buf :
                          buf[k] \notin Space /\ \A j \in 1..(k - 1) : buf[j] \in Space
             after == CHOOSE k \in first..Len(buf) :
                          buf[k] \in Space /\ \A j \in first..(k - 1) : buf[j] \notin Space
  <2>3. CASE /\ \E k \in DOMAIN buf : buf[k] \notin Space
             /\ user' = SubSeq(buf, first, after - 1) /\ buf' = SubSeq(buf, after, Len(buf))
             /\ unseen' = ~bufSeen /\ pc' = "restore"
    <3>1. /\ SubSeq(buf, first, after - 1) \in Seq(Named)
          /\ after \in Nat /\ after >= 1 /\ after <= Len(buf)
      BY <1>2, <2>3, WordFacts
    <3> HIDE DEF after, first
    <3>2. after <= Len(buf) + 1
      BY <1>2, <3>1, BufferFacts
    <3>3. buf' \in Seq(Letters) /\ (buf' # <<>> => Last(buf') = "newline")
      BY <1>2, <2>3, <3>1, <3>2, Rest
    <3>4. unseen' \in BOOLEAN
      BY <2>3
    <3> QED BY <2>3, <3>1, <3>3, <3>4 DEF Letters, Named
  <2>4. CASE ScanPassword
    <3> HIDE DEF after
    <3> QED BY <2>2, <2>3, <2>4 DEF ScanPassword, after
  <2> QED BY <2>1, <2>4
<1>4. TypeOK'
  BY <1>1, <1>2, <1>3 DEF TypeOK
<1>5. Checked'
  BY <1>1, <1>2, <1>3 DEF Checked, EchoAsFound, ShellUndisturbed, UtmpNamesUsers
<1> QED BY <1>4, <1>5 DEF Inv

\* After the password: the echo comes back, the password is verified, and a
\* session begins or ends.
LEMMA StepDecide == Inv /\ (RestoreEcho \/ Verify \/ Welcome \/ WaitChild) => Inv'
<1> SUFFICES ASSUME Inv, RestoreEcho \/ Verify \/ Welcome \/ WaitChild PROVE Inv'
  OBVIOUS
<1>1. TypeOK /\ Checked
  BY DEF Inv
<1>2. CASE RestoreEcho
  <2>1. /\ UNCHANGED <<tty, found, save, buf, bufSeen, unseen, user, pwd, child, ids, utmp>>
        /\ pc = "restore" /\ pc' = "verify"
        /\ \/ echo' = save /\ lapses' = lapses
           \/ echo' = echo /\ lapses' = lapses \union {"restore"}
    BY <1>2 DEF RestoreEcho, bufVars, childVars
  <2>2. TypeOK'
    BY <1>1, <2>1 DEF TypeOK
  <2>3. Checked'
    BY <1>1, <2>1 DEF Checked, EchoAsFound, ShellUndisturbed, UtmpNamesUsers
  <2> QED BY <2>2, <2>3 DEF Inv
<1>3. CASE Verify
  <2>1. /\ UNCHANGED <<tty, echo, found, lapses, save, buf, bufSeen, unseen, user, pwd, child, ids, utmp>>
        /\ pc = "verify" /\ pc' = IF user = <<Passwd[pwd]>> THEN "welcome" ELSE "username"
    BY <1>3 DEF Verify, ttyVars, bufVars, childVars
  <2>2. TypeOK'
    BY <1>1, <2>1 DEF TypeOK
  <2>3. Checked'
    BY <1>1, <2>1 DEF Checked, EchoAsFound, ShellUndisturbed, UtmpNamesUsers
  <2> QED BY <2>2, <2>3 DEF Inv
<1>4. CASE Welcome
  <2>1. /\ UNCHANGED <<tty, echo, found, lapses, save, buf, bufSeen, unseen, user, pwd, ids, utmp>>
        /\ pc = "welcome"
        /\ (pc' = "ended" /\ child' = child) \/ (pc' = "session" /\ child' = "record")
    BY <1>4 DEF Welcome, ttyVars, bufVars
  <2>2. TypeOK'
    BY <1>1, <2>1 DEF TypeOK
  <2>3. Checked'
    BY <1>1, <2>1 DEF Checked, EchoAsFound, ShellUndisturbed, UtmpNamesUsers
  <2> QED BY <2>2, <2>3 DEF Inv
<1>5. CASE WaitChild
  <2>1. /\ UNCHANGED <<tty, echo, found, lapses, save, buf, bufSeen, unseen, user, pwd, child, ids, utmp>>
        /\ pc = "session" /\ pc' = "username" /\ child = "none"
    BY <1>5 DEF WaitChild, Ended, ttyVars, bufVars, childVars
  <2> QED BY <1>1, <2>1 DEF TypeOK, Checked, EchoAsFound, ShellUndisturbed, UtmpNamesUsers, Inv
<1> QED BY <1>2, <1>3, <1>4, <1>5

\* The child runs in a session, of a user who may log in.
LEMMA StepChild == Inv /\ (Child \/ Shell) => Inv'
<1> SUFFICES ASSUME Inv, Child \/ Shell PROVE Inv'
  OBVIOUS
<1>1. /\ UNCHANGED <<pc, save, buf, bufSeen, unseen, user, pwd>>
      /\ child \in {"record", "setuid", "setgid", "exec", "shell"}
  BY DEF Child, Record, SetUid, SetGid, Exec, Shell, bufVars
<1>2. TypeOK /\ Checked
  BY DEF Inv
<1>3. /\ pc \in {"session", "ended"} /\ Passwd[pwd] # "invalid" /\ pwd \in DOMAIN Passwd
      /\ "restore" \notin lapses => echo = found
  BY <1>1, <1>2 DEF Checked, EchoAsFound, ShellUndisturbed, TypeOK
<1> DEFINE Ids == [uid : DOMAIN Passwd \union {"login"}, gid : DOMAIN Passwd \union {"login"}]
<1>4. child' \in {"none", "setuid", "setgid", "exec", "shell"}
  BY <1>1 DEF Child, Record, SetUid, SetGid, Exec, Shell, ChildEnds
<1>5. ids' \in Ids
  <2>1. ids \in Ids /\ LoginIds \in Ids
    BY <1>2 DEF TypeOK, LoginIds
  <2>2. [ids EXCEPT !.uid = pwd] \in Ids /\ [ids EXCEPT !.gid = pwd] \in Ids
    BY <1>3, <2>1
  <2> HIDE DEF Ids
  <2>3. ids' \in {ids, LoginIds, [ids EXCEPT !.uid = pwd], [ids EXCEPT !.gid = pwd]}
    BY DEF Child, Record, SetUid, SetGid, Exec, Shell, ChildEnds, childVars
  <2> QED BY <2>1, <2>2, <2>3
<1>6. utmp' \in {utmp, <<pwd>>}
  BY DEF Child, Record, SetUid, SetGid, Exec, Shell, ChildEnds, Recorded
<1>7. utmp' \in Seq(Words)
  <2>1. <<pwd>> \in Seq(Words)
    <3>1. pwd \in Words
      BY <1>3, PasswdAssumption
    <3> QED BY <3>1
  <2> QED BY <1>2, <1>6, <2>1 DEF TypeOK
<1>8. /\ tty' \in Seq([text : Lines, seen : BOOLEAN]) /\ Len(tty') <= MaxTyped
      /\ echo' \in BOOLEAN /\ found' \in BOOLEAN /\ lapses' \subseteq {"hide", "restore"}
      /\ "restore" \notin lapses' => echo' = found'
  <2>1. CASE UNCHANGED <<tty, echo, found, lapses>>
    BY <1>2, <1>3, <2>1 DEF TypeOK
  <2>2. CASE tty # <<>> /\ tty' = Tail(tty) /\ UNCHANGED <<echo, found, lapses>>
    BY <1>2, <1>3, <2>2, FirstLine DEF TypeOK
  <2>3. CASE /\ echo' \in BOOLEAN /\ found' = echo' /\ UNCHANGED tty
             /\ lapses' = lapses \ {"restore"}
    BY <1>2, <2>3 DEF TypeOK
  <2> QED BY <2>1, <2>2, <2>3 DEF Child, Record, SetUid, SetGid, Exec, Shell, ttyVars
<1>9. TypeOK'
  BY <1>1, <1>2, <1>4, <1>5, <1>7, <1>8 DEF TypeOK
<1>10. UtmpNamesUsers'
  BY <1>2, <1>3, <1>6 DEF Checked, EchoAsFound, ShellUndisturbed, UtmpNamesUsers
<1>11. Checked'
  BY <1>1, <1>3, <1>8, <1>10 DEF Checked, EchoAsFound, ShellUndisturbed
<1> QED BY <1>9, <1>11 DEF Inv

\* login is interrupted, in a session or without a child.
LEMMA StepInterrupt == Inv /\ Interrupt => Inv'
<1> SUFFICES ASSUME Inv, Interrupt PROVE Inv'
  OBVIOUS
<1>1. /\ UNCHANGED <<tty, echo, found, save, buf, bufSeen, unseen, user, pwd, utmp>>
      /\ pc' = "ended" /\ pc # "ended"
      /\ child' \in {child, "none"} /\ ids' \in {ids, LoginIds}
      /\ lapses' = IF pc \in {"password", "restore"} THEN lapses \union {"restore"} ELSE lapses
  BY DEF Interrupt, bufVars, ChildEnds
<1>2. TypeOK /\ Checked
  BY DEF Inv
<1>3. TypeOK'
  <2>1. ids' \in [uid : DOMAIN Passwd \union {"login"}, gid : DOMAIN Passwd \union {"login"}]
    BY <1>1, <1>2 DEF TypeOK, LoginIds
  <2> QED BY <1>1, <1>2, <2>1 DEF TypeOK
<1>4. Checked'
  BY <1>1, <1>2 DEF Checked, EchoAsFound, ShellUndisturbed, UtmpNamesUsers
<1> QED BY <1>3, <1>4 DEF Inv

\* Each step, and none, keeps it.
LEMMA StepInv == Inv /\ [Next]_vars => Inv'
<1>1. Inv /\ UNCHANGED vars => Inv'
  <2> SUFFICES ASSUME Inv, UNCHANGED vars PROVE Inv'
    OBVIOUS
  <2>1. UNCHANGED <<pc, tty, echo, found, lapses, save, buf, bufSeen, unseen, user, pwd, child, ids, utmp>>
    BY DEF vars
  <2>2. TypeOK'
    BY <2>1 DEF Inv, TypeOK
  <2>3. Checked'
    BY <2>1 DEF Inv, Checked, EchoAsFound, ShellUndisturbed, UtmpNamesUsers
  <2> QED BY <2>2, <2>3 DEF Inv
<1> QED BY <1>1, StepTypeLine, StepFill, StepGetName, StepLookup, StepHideEcho, StepScanPassword,
           StepDecide, StepChild, StepInterrupt DEF Next, Own

\* So it always holds.
LEMMA InvHolds == Spec => []Inv
BY InitInv, StepInv, PTL DEF Spec

-----------------------------------------------------------------------------

\* Every variable of Login stays in its range, and what is in the buffer ends
\* with a newline.
THEOREM TypeCorrect == Spec => []TypeOK
<1>1. Inv => TypeOK
  BY DEF Inv
<1> QED BY <1>1, InvHolds, PTL

\* Outside the password prompt the terminal echoes as login found it
\* (login.c:87 to 96), whatever was entered there, unless a prompt since then
\* was interrupted or refused the flags: nothing else leaves the echo off.
THEOREM EchoIsGivenBack == Spec => []EchoAsFound
<1>1. Inv => EchoAsFound
  BY DEF Inv, Checked
<1> QED BY <1>1, InvHolds, PTL

\* A session begins only for a user without a password, or with the password
\* that was entered last (login.c:78 to 112).
THEOREM SessionsAreEarned == Spec => SessionEarned
<1>1. Inv /\ [Next]_vars
         => [pc' = "session" /\ pc # "session" => Passwd[pwd] = "" \/ user = <<Passwd[pwd]>>]_vars
  <2> SUFFICES ASSUME Inv, Next, pc' = "session", pc # "session"
               PROVE  Passwd[pwd] = "" \/ user = <<Passwd[pwd]>>
    BY DEF vars
  <2>1. pc = "welcome"
    <3>1. ~(TypeLine \/ Fill \/ GetName \/ NameEof \/ HideEcho \/ ScanPassword \/ PasswordEof
            \/ RestoreEcho \/ Verify \/ WaitChild \/ Child \/ Shell \/ Interrupt)
      BY DEF TypeLine, Fill, GetName, NameEof, HideEcho, ScanPassword, PasswordEof,
             RestoreEcho, Verify, WaitChild, Child, Record, SetUid, SetGid, Exec, Shell, Interrupt
    <3>2. ~Lookup
      BY DEF Lookup, AfterName, AskAgain
    <3> QED BY <3>1, <3>2 DEF Next, Own, Welcome
  <2> QED BY <2>1 DEF Inv, Checked
<1> QED BY <1>1, InvHolds, PTL DEF Spec, SessionEarned

\* While a shell or its forerunner runs, login waits (login.c:139), and its
\* user is one who may log in.
THEOREM ShellIsUndisturbed == Spec => []ShellUndisturbed
<1>1. Inv => ShellUndisturbed
  BY DEF Inv, Checked
<1> QED BY <1>1, InvHolds, PTL

\* utmp never names what was left in the buffer (login.c:117 to 124).
THEOREM UtmpHasUsers == Spec => []UtmpNamesUsers
<1>1. Inv => UtmpNamesUsers
  BY DEF Inv, Checked
<1> QED BY <1>1, InvHolds, PTL

-----------------------------------------------------------------------------
(* The password is typed in the dark, if a name leaves fgets() room for    *)
(* the newline.                                                            *)

NamesFit == UserMax > 1

OneLine == \A k \in 1..(Len(buf) - 1) : buf[k] # "newline"

\* A name that is known was all there was in the buffer, whatever part of a
\* line fgets() took for it.
Dark ==
    /\ OneLine
    /\ pc = "lookup" /\ Known => buf = <<>>
    /\ pc = "hide" => buf = <<>>
    /\ pc = "password" /\ "hide" \notin lapses =>
          /\ echo = FALSE
          /\ \A k \in 1..Len(tty) : tty[k].seen = FALSE
          /\ buf # <<>> => bufSeen = FALSE
    /\ "hide" \notin lapses => unseen = TRUE

\* At first nothing is read.
LEMMA DarkInit == Init => Dark
<1> SUFFICES ASSUME Init PROVE Dark
  OBVIOUS
<1>1. buf = <<>> /\ pc = "username" /\ unseen = TRUE
  BY DEF Init
<1>2. Len(buf) = 0 /\ 1..(0 - 1) = {}
  BY <1>1
<1> QED BY <1>1, <1>2 DEF Dark, OneLine

\* What is typed while the password is asked for is typed in the dark.
LEMMA DarkTypeLine == Inv /\ Dark /\ TypeLine => Dark'
<1> SUFFICES ASSUME Inv, Dark, TypeLine PROVE Dark'
  OBVIOUS
<1>1. UNCHANGED <<pc, echo, lapses, buf, bufSeen, unseen>>
  BY DEF TypeLine, bufVars
<1>0. Known' = Known
  BY DEF TypeLine, Known
<1>2. PICK line \in Lines : tty' = Append(tty, [text |-> line, seen |-> echo])
  BY DEF TypeLine
<1>3. tty \in Seq([text : Lines, seen : BOOLEAN]) /\ Len(tty) \in Nat
  BY LenProperties DEF Inv, TypeOK
<1> DEFINE r == [text |-> line, seen |-> echo]
<1>4. r.seen = echo
  OBVIOUS
<1>5. ASSUME pc = "password", "hide" \notin lapses PROVE \A k \in 1..Len(tty') : tty'[k].seen = FALSE
  <2>1. echo = FALSE /\ \A k \in 1..Len(tty) : tty[k].seen = FALSE
    BY <1>5 DEF Dark
  <2> HIDE DEF r
  <2>2. /\ Len(tty') = Len(tty) + 1 /\ tty'[Len(tty) + 1] = r
        /\ \A k \in 1..Len(tty) : tty'[k] = tty[k]
    BY <1>2, <1>3 DEF r
  <2>3. \A k \in 1..Len(tty') : k \in 1..Len(tty) \/ k = Len(tty) + 1
    BY <1>3, <2>2
  <2> QED BY <1>4, <2>1, <2>2, <2>3
<1> QED BY <1>0, <1>1, <1>5 DEF Dark, OneLine

\* stdio reads a line into an empty buffer.
LEMMA DarkFill == Inv /\ Dark /\ Fill => Dark'
<1> SUFFICES ASSUME Inv, Dark, Fill PROVE Dark'
  OBVIOUS
<1>1. /\ UNCHANGED <<pc, echo, lapses, unseen>> /\ pc \in {"username", "password"}
      /\ tty # <<>> /\ tty' = Tail(tty) /\ bufSeen' = Head(tty).seen
      /\ buf' = Append(Head(tty).text, "newline")
  BY DEF Fill
<1> DEFINE S == [text : Lines, seen : BOOLEAN]
           text == Head(tty).text
<1>2. tty \in Seq(S) /\ Head(tty) = tty[1]
  BY DEF Inv, TypeOK
<1>3. text \in Lines
  <2>1. Head(tty) \in S
    <3> HIDE DEF S
    <3> QED BY <1>1, <1>2, HeadTailProperties
  <2> QED BY <2>1
<1>4. text \in Seq(Named)
  BY <1>3, LinesAssumption DEF Named
<1> HIDE DEF text
<1>5. Len(text) \in Nat /\ \A k \in 1..Len(text) : text[k] \in Named
  BY <1>4, LenProperties, ElementOfSeq
<1>6. Len(buf') = Len(text) + 1 /\ \A k \in 1..Len(text) : buf'[k] = text[k]
  BY <1>1, <1>4, AppendProperties DEF text
<1>8. OneLine'
  <2>1. \A k \in 1..(Len(buf') - 1) : k \in 1..Len(text)
    BY <1>5, <1>6
  <2>2. "newline" \notin Named
    BY WordsAssumption DEF Named
  <2> QED BY <1>5, <1>6, <2>1, <2>2 DEF OneLine
<1>9. ASSUME pc = "password", "hide" \notin lapses
      PROVE  bufSeen' = FALSE /\ \A k \in 1..Len(tty') : tty'[k].seen = FALSE
  <2>1. \A k \in 1..Len(tty) : tty[k].seen = FALSE
    BY <1>9 DEF Dark
  <2> HIDE DEF S
  <2>2. /\ Len(tty) \in Nat /\ Len(tty) >= 1 /\ Len(tty') = Len(tty) - 1
        /\ \A k \in 1..Len(tty') : tty'[k] = tty[k + 1]
    BY <1>1, <1>2, HeadTailProperties, EmptySeq, LenProperties
  <2>3. 1 \in 1..Len(tty) /\ \A k \in 1..Len(tty') : k + 1 \in 1..Len(tty)
    BY <2>2
  <2> QED BY <1>1, <1>2, <2>1, <2>2, <2>3
<1> QED BY <1>1, <1>8, <1>9 DEF Dark

\* fgets() takes all there is, or so much that it is no name.
LEMMA DarkGetName == NamesFit /\ Inv /\ Dark /\ GetName => Dark'
<1> SUFFICES ASSUME NamesFit, Inv, Dark, GetName PROVE Dark'
  OBVIOUS
<1>1. /\ UNCHANGED <<tty, echo, lapses, bufSeen, unseen>> /\ pc' = "lookup"
      /\ buf # <<>> /\ buf' = SubSeq(buf, LineLen + 1, Len(buf))
      /\ user' = Cut(SubSeq(buf, 1, LineLen))
  BY DEF GetName, ttyVars
<1>2. TypeOK /\ Len(buf) \in Nat /\ buf \in Seq(Letters) /\ UserMax \in Nat /\ UserMax > 1
  BY BufferFacts, UserMaxAssumption DEF Inv, NamesFit
<1> DEFINE l == LineLen
<1>3. /\ l \in Nat /\ l >= 1 /\ l <= Len(buf)
      /\ buf[l] = "newline" \/ l = UserMax
  BY <1>1, <1>2, LineLenFacts
<1> HIDE DEF l
<1>4. buf' = SubSeq(buf, l + 1, Len(buf)) /\ user' = Cut(SubSeq(buf, 1, l))
  BY <1>1 DEF l
<1>5. /\ buf' \in Seq(Letters) /\ Len(buf') = Len(buf) - l
      /\ \A j \in 1..Len(buf') : buf'[j] = buf[l + j]
  <2> DEFINE m == l + 1
             n == Len(buf)
  <2>1. m \in Nat /\ m >= 1 /\ m <= n + 1
    BY <1>2, <1>3
  <2>2. n \in Nat /\ m = l + 1 /\ buf' = SubSeq(buf, m, Len(buf))
    BY <1>2, <1>4
  <2> HIDE DEF m
  <2>3. /\ buf' \in Seq(Letters) /\ Len(buf') = (n - m) + 1
        /\ \A j \in 1..Len(buf') : buf'[j] = buf[(m + j) - 1]
    BY <1>2, <2>1, <2>2, Rest
  <2> HIDE DEF n
  <2>4. (n - m) + 1 = n - l /\ \A j \in Int : (m + j) - 1 = l + j
    BY <1>3, <2>2
  <2> QED BY <2>3, <2>4 DEF n
<1>6. OneLine'
  <2>1. \A j \in 1..(Len(buf') - 1) : j \in 1..Len(buf') /\ l + j \in 1..(Len(buf) - 1)
    BY <1>2, <1>3, <1>5
  <2> QED BY <1>5, <2>1 DEF Dark, OneLine
<1>7. CASE buf[l] = "newline"
  <2>1. l \notin 1..(Len(buf) - 1)
    BY <1>7 DEF Dark, OneLine
  <2>2. Len(buf') = 0
    BY <1>2, <1>3, <1>5, <2>1
  <2>3. buf' = <<>>
    BY <1>5, <2>2, EmptySeq
  <2> QED BY <1>1, <1>6, <2>3 DEF Dark
<1>8. CASE buf[l] # "newline"
  <2> DEFINE text == SubSeq(buf, 1, l)
  <2>1. /\ text \in Seq(Letters) /\ Len(text) = l /\ text[l] = buf[l]
    BY <1>2, <1>3, SubSeqProperties
  <2> HIDE DEF text
  <2>2. Last(text) = buf[l]
    BY <2>1 DEF Last
  <2>3. user' = text
    BY <1>4, <1>8, <2>2 DEF Cut, text
  <2>4. Len(user') > 1
    BY <1>2, <1>3, <1>8, <2>1, <2>3
  <2>5. ASSUME NEW u, user' = <<u>> PROVE FALSE
    BY <2>4, <2>5
  <2>6. ~Known'
    BY <2>5 DEF Known
  <2> QED BY <1>1, <1>6, <2>6 DEF Dark
<1> QED BY <1>7, <1>8

\* A password is taken from what was typed in the dark.
LEMMA DarkScanPassword == Inv /\ Dark /\ ScanPassword => Dark'
<1> SUFFICES ASSUME Inv, Dark, ScanPassword PROVE Dark'
  OBVIOUS
<1>1. UNCHANGED <<tty, echo, lapses, bufSeen>> /\ pc = "password" /\ Inv /\ TypeOK
  BY DEF ScanPassword, ttyVars, Inv
<1>2. CASE buf' = <<>> /\ UNCHANGED <<pc, unseen>>
  <2>1. Len(buf') = 0 /\ 1..(0 - 1) = {}
    BY <1>2
  <2> QED BY <1>1, <1>2, <2>1 DEF Dark, OneLine
<1> DEFINE first == CHOOSE k \in DOMAIN buf :
                        buf[k] \notin Space /\ \A j \in 1..(k - 1) : buf[j] \in Space
           after == CHOOSE k \in first..Len(buf) :
                        buf[k] \in Space /\ \A j \in first..(k - 1) : buf[j] \notin Space
<1>3. CASE /\ \E k \in DOMAIN buf : buf[k] \notin Space
           /\ buf' = SubSeq(buf, after, Len(buf))
           /\ unseen' = ~bufSeen /\ pc' = "restore"
  <2>1. after \in Nat /\ after >= 1 /\ after <= Len(buf)
    BY <1>1, <1>3, WordFacts
  <2> HIDE DEF after, first
  <2>2. Len(buf) \in Nat /\ after <= Len(buf) + 1 /\ buf # <<>>
    BY <1>1, <1>3, <2>1, BufferFacts
  <2>3. /\ Len(buf') = (Len(buf) - after) + 1
        /\ \A j \in 1..Len(buf') : buf'[j] = buf[(after + j) - 1]
    BY <1>1, <1>3, <2>1, <2>2, Rest
  <2>5. OneLine'
    <3>1. \A j \in 1..(Len(buf') - 1) : j \in 1..Len(buf') /\ (after + j) - 1 \in 1..(Len(buf) - 1)
      BY <2>1, <2>2, <2>3
    <3> QED BY <2>3, <3>1 DEF Dark, OneLine
  <2>6. "hide" \notin lapses => unseen' = TRUE
    BY <1>1, <1>3, <2>2 DEF Dark
  <2> QED BY <1>1, <1>3, <2>5, <2>6 DEF Dark
<1> QED
  <2> HIDE DEF after
  <2> QED BY <1>2, <1>3 DEF ScanPassword, after

\* When the echo is switched off, nothing that was typed before is left.  When
\* that is refused, it is a lapse.
LEMMA DarkHideEcho == Inv /\ Dark /\ HideEcho => Dark'
<1> SUFFICES ASSUME Inv, Dark, HideEcho PROVE Dark'
  OBVIOUS
<1>1. /\ UNCHANGED <<buf, bufSeen>> /\ unseen' = TRUE
      /\ pc = "hide" /\ pc' = "password"
      /\ "hide" \notin lapses' => echo' = FALSE /\ tty' = <<>>
  BY DEF HideEcho, Flushed
<1>2. tty' = <<>> => 1..Len(tty') = {}
  OBVIOUS
<1> QED BY <1>1, <1>2 DEF Dark, OneLine

\* No other step reads or types anything.
LEMMA DarkOthers ==
    Inv /\ Dark /\ (NameEof \/ Lookup \/ PasswordEof \/ RestoreEcho \/ Verify \/ Welcome
                    \/ WaitChild \/ Child \/ Shell \/ Interrupt \/ UNCHANGED vars) => Dark'
<1> SUFFICES ASSUME Inv, Dark,
                    NameEof \/ Lookup \/ PasswordEof \/ RestoreEcho \/ Verify \/ Welcome
                    \/ WaitChild \/ Child \/ Shell \/ Interrupt \/ UNCHANGED vars
             PROVE  Dark'
  OBVIOUS
<1>1. UNCHANGED <<buf, bufSeen, unseen>>
  BY DEF NameEof, Lookup, PasswordEof, RestoreEcho, Verify, Welcome, WaitChild, Child, Record,
         SetUid, SetGid, Exec, Shell, Interrupt, bufVars, vars
<1>2. "hide" \in lapses' <=> "hide" \in lapses
  BY DEF NameEof, Lookup, PasswordEof, RestoreEcho, Verify, Welcome, WaitChild, Child, Record,
         SetUid, SetGid, Exec, Shell, Interrupt, ttyVars, vars
<1>3. (pc' = "lookup" /\ Known') \/ pc' = "hide" => buf = <<>>
  <2>1. CASE NameEof
    BY <2>1 DEF NameEof, AtEnd
  <2>2. CASE Lookup
    BY <2>2 DEF Lookup, Dark, AskAgain, AfterName
  <2>3. CASE UNCHANGED <<pc, user>>
    BY <2>3 DEF Dark, Known
  <2>4. CASE PasswordEof \/ RestoreEcho \/ Verify \/ Welcome \/ WaitChild \/ Interrupt
    BY <2>4 DEF PasswordEof, RestoreEcho, Verify, Welcome, WaitChild, Interrupt
  <2> QED BY <2>1, <2>2, <2>3, <2>4 DEF Child, Record, SetUid, SetGid, Exec, Shell, vars
<1>4. pc' = "password" => UNCHANGED <<pc, tty, echo>>
  <2>1. CASE UNCHANGED vars
    BY <2>1 DEF vars
  <2>2. CASE Child \/ Shell
    <3>1. pc \in {"session", "ended"} /\ pc' = pc
      BY <2>2 DEF Inv, Checked, ShellUndisturbed, Child, Record, SetUid, SetGid, Exec, Shell
    <3> QED BY <3>1
  <2>3. CASE Lookup
    BY <2>3 DEF Lookup, AfterName, AskAgain
  <2>4. CASE NameEof \/ PasswordEof \/ RestoreEcho \/ Verify \/ Welcome \/ WaitChild \/ Interrupt
    BY <2>4 DEF NameEof, PasswordEof, RestoreEcho, Verify, Welcome, WaitChild, Interrupt
  <2> QED BY <2>1, <2>2, <2>3, <2>4
<1> QED BY <1>1, <1>2, <1>3, <1>4 DEF Dark, OneLine

\* No password was typed where it could be seen (login.c:91 to 94), however
\* long the lines are that are typed and whatever came before, if its prompt
\* could switch the echo off, and if fgets() takes a name together with the end
\* of its line.
THEOREM PasswordStaysUnseen ==
    ASSUME UserMax > 1
    PROVE  Spec => []PasswordUnseen
<1>1. NamesFit
  BY DEF NamesFit
<1>2. Init => Inv /\ Dark
  BY InitInv, DarkInit
<1>3. Inv /\ Dark /\ [Next]_vars => (Inv /\ Dark)'
  BY <1>1, StepInv, DarkTypeLine, DarkFill, DarkGetName, DarkScanPassword, DarkHideEcho, DarkOthers
     DEF Next, Own
<1>4. Dark => PasswordUnseen
  BY DEF Dark, PasswordUnseen
<1> QED BY <1>2, <1>3, <1>4, PTL DEF Spec
=============================================================================
