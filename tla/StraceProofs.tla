---------------------------- MODULE StraceProofs ----------------------------
(***************************************************************************)
(* Theorems about Strace, for any set of thread ids, any return values and *)
(* any capacity of the pipe.                                               *)
(***************************************************************************)
EXTENDS Strace, SequenceTheorems, WellFoundedInduction, TLAPS

-----------------------------------------------------------------------------
(* Type correctness.                                                       *)

\* The kernel's write leaves sent a sequence of records, longer by at most
\* one.
LEMMA ReportType ==
    ASSUME NEW t \in Threads, NEW kind \in {"call", "ret"},
           NEW rax \in Calls, NEW clean \in BOOLEAN,
           sent \in Seq(Record), Report(t, kind, rax, clean)
    PROVE  /\ sent' \in Seq(Record)
           /\ Len(sent') >= Len(sent)
<1> DEFINE r == [tid |-> t, kind |-> kind, rax |-> rax, clean |-> clean]
<1>1. r \in Record
  BY DEF Record
<1>2. sent' = sent \/ sent' = Append(sent, r)
  BY DEF Report
<1>3. CASE sent' = sent
  BY <1>3, LenProperties
<1>4. CASE sent' = Append(sent, r)
  <2> HIDE DEF r
  <2> QED BY <1>1, <1>4, LenProperties, AppendProperties
<1> QED BY <1>2, <1>3, <1>4

\* Every step keeps the variables in their ranges and the printed lines no
\* more than the records.
LEMMA TypeStep ==
    ASSUME TypeOK, [Next]_vars
    PROVE  TypeOK'
<1> USE DEF TypeOK, Gone
<1> USE MakesAssumption, RetValsAssumption
<1>a. Len(sent) \in Nat /\ Len(out) \in Nat
  BY LenProperties
<1>1. ASSUME NEW t \in Threads, NEW c \in Makes, MakeCall(t, c)
      PROVE  TypeOK'
  <2>1. c \in Calls /\ c \in {"user", "exec"} \union Returning
    BY DEF Returning, Calls, NoReturn
  <2>2. sent' \in Seq(Record) /\ Len(sent') >= Len(sent)
    BY <1>1, <2>1, ReportType DEF MakeCall
  <2>3. Len(sent') \in Nat
    BY <2>2, LenProperties
  <2>4. calls' \in 0..MaxCalls
    BY <1>1, MaxCallsAssumption DEF MakeCall
  <2> QED BY <1>1, <1>a, <2>1, <2>2, <2>3, <2>4 DEF MakeCall, tracerVars
<1>2. ASSUME NEW t \in Threads, ReturnFromCall(t)
      PROVE  TypeOK'
  <2>1. sent' \in Seq(Record) /\ Len(sent') >= Len(sent)
    BY <1>2, ReportType DEF ReturnFromCall
  <2>2. Len(sent') \in Nat
    BY <2>1, LenProperties
  <2>3. thr' \in [Threads -> {"none", "user", "exec"} \union Returning]
    BY <1>2 DEF ReturnFromCall
  <2>4. bg' \in BOOLEAN
    <3>1. PICK b \in {bg, bg \/ thr[t] = "fork"} : bg' = b
      BY <1>2 DEF ReturnFromCall
    <3> QED BY <3>1
  <2> QED BY <1>2, <1>a, <2>1, <2>2, <2>3, <2>4 DEF ReturnFromCall, tracerVars
<1>3. ASSUME NEW t \in Threads, ExecFails(t)
      PROVE  TypeOK'
  <2>1. "other" \in Calls
    BY DEF Calls
  <2>2. sent' \in Seq(Record) /\ Len(sent') >= Len(sent)
    BY <1>3, <2>1, ReportType DEF ExecFails
  <2>3. Len(sent') \in Nat
    BY <2>2, LenProperties
  <2> QED BY <1>3, <1>a, <2>2, <2>3 DEF ExecFails, tracerVars
<1>4. ASSUME NEW t \in Threads, NEW u \in Threads, ExecSucceeds(t, u)
      PROVE  TypeOK'
  BY <1>4 DEF ExecSucceeds, TornBy, tracerVars
<1>5. ASSUME NEW t \in Threads, ExitThread(t) \/ ExitProcess(t)
      PROVE  TypeOK'
  <2>1. "exit" \in Calls /\ "exit_thread" \in Calls
    BY DEF Calls
  <2>2. sent' \in Seq(Record) /\ Len(sent') >= Len(sent)
    BY <1>5, <2>1, ReportType DEF ExitThread, ExitProcess
  <2>3. Len(sent') \in Nat
    BY <2>2, LenProperties
  <2> QED BY <1>5, <1>a, <2>2, <2>3
          DEF ExitThread, ExitProcess, TornBy, tracerVars
<1>6. ASSUME KillProcess \/ CloseFiles \/ BecomeZombie \/ BackgroundEnds
      PROVE  TypeOK'
  BY <1>6 DEF KillProcess, CloseFiles, BecomeZombie, BackgroundEnds, TornBy,
              tracerVars
<1>7. ASSUME ReadRecord
      PROVE  TypeOK'
  <2> DEFINE r == sent[Len(out) + 1]
             line == [tid  |-> r.tid,
                      kind |-> IF is_syscall[r.tid] THEN "call" ELSE "ret",
                      rax  |-> r.rax]
  <2>1. Len(out) + 1 \in 1..Len(sent)
    BY <1>7, <1>a DEF ReadRecord
  <2>2. r \in Record
    BY <2>1, ElementOfSeq
  <2>3. line \in Line
    BY <2>2 DEF Line, Record
  <2>4. out' = Append(out, line) /\ sent' = sent
    BY <1>7 DEF ReadRecord, traceeVars
  <2>5. out' \in Seq(Line) /\ Len(out') = Len(out) + 1
    <3> HIDE DEF line
    <3> QED BY <2>3, <2>4, AppendProperties
  <2>6. seen' \subseteq Threads /\ is_syscall' \in [Threads -> BOOLEAN]
    BY <1>7, <2>2 DEF ReadRecord, Record, StaysCall
  <2> QED BY <1>7, <1>a, <2>1, <2>4, <2>5, <2>6 DEF ReadRecord, traceeVars
<1>8. ASSUME Attach \/ AttachFails \/ Poll \/ PollFails \/ NoMemory \/ WaitChild
      PROVE  TypeOK'
  BY <1>8, <1>a DEF Attach, CloseOwnEnd, AttachFails, Poll, PollFails, NoMemory, WaitChild,
                    Readable, tracerVars, traceeVars
<1>9. CASE UNCHANGED vars
  BY <1>9 DEF vars, tracerVars, traceeVars
<1> QED BY <1>1, <1>2, <1>3, <1>4, <1>5, <1>6, <1>7, <1>8, <1>9
        DEF Next, Tracer, Tracee

\* Type correctness: in every reachable state of the tracer and the tracee
\* each variable is in its range, and strace has printed no record that the
\* kernel has not written.
THEOREM TypeCorrect == Spec => []TypeOK
<1>1. Init => TypeOK
  <2> SUFFICES ASSUME Init PROVE TypeOK
    OBVIOUS
  <2>1. thr \in [Threads -> {"none", "user", "exec"} \union Returning]
    BY DEF Init, Returning, Calls, NoReturn
  <2>2. out \in Seq(Line) /\ sent \in Seq(Record) /\ Len(out) <= Len(sent)
    BY EmptySeq DEF Init
  <2>3. is_syscall \in [Threads -> BOOLEAN] /\ calls \in 0..MaxCalls
    BY MaxCallsAssumption DEF Init
  <2>4. /\ pc = "attach" /\ own = TRUE /\ seen = {} /\ torn = {}
        /\ traced = FALSE /\ fdsOpen = TRUE /\ bg = FALSE /\ waitable = FALSE
    BY DEF Init
  <2> QED BY <2>1, <2>2, <2>3, <2>4, Zenon DEF TypeOK
<1>2. TypeOK /\ [Next]_vars => TypeOK'
  BY TypeStep
<1> QED BY <1>1, <1>2, PTL DEF Spec

-----------------------------------------------------------------------------
(* The pairing of calls and returns.                                       *)

\* Among the first n records either none is about t or one is the last.
LEMMA LastExists ==
    ASSUME NEW s \in Seq(Record), NEW t \in Threads, NEW n \in 0..Len(s)
    PROVE  NoneOf(s, t, n) \/ \E i \in 1..n : LastOf(s, t, n, i)
<1> SUFFICES ASSUME ~NoneOf(s, t, n)
             PROVE  \E i \in 1..n : LastOf(s, t, n, i)
  OBVIOUS
<1>1. n \in Nat
  BY LenProperties
<1> DEFINE Back == {m \in Nat : m < n /\ s[n - m].tid = t}
<1>2. Back # {}
  <2>1. PICK k \in 1..n : s[k].tid = t
    BY DEF NoneOf
  <2>2. n - k \in Nat /\ n - k < n /\ n - (n - k) = k
    BY <1>1
  <2> QED BY <2>1, <2>2
<1>3. PICK m \in Back : \A x \in Back : ~ (x < m)
  <2>1. PICK m \in Back : \A x \in Back : ~ (<<x, m>> \in OpToRel(<, Nat))
    <3> HIDE DEF Back
    <3>1. Back \subseteq Nat
      BY DEF Back
    <3> QED BY <1>2, <3>1, WFMin, NatLessThanWellFounded
  <2> QED BY <2>1 DEF OpToRel
<1>4. n - m \in 1..n /\ s[n - m].tid = t
  BY <1>1
<1>5. ASSUME NEW k \in (n - m) + 1..n
      PROVE  s[k].tid # t
  <2>1. n - k \in Nat /\ n - k < m /\ n - k < n /\ n - (n - k) = k
    BY <1>1, <1>4
  <2> QED BY <1>3, <2>1
<1> QED BY <1>4, <1>5 DEF LastOf

\* A record written at the end leaves what is known of the ones before it,
\* and is the last about its own thread.
LEMMA AppendFacts ==
    ASSUME sent \in Seq(Record), NEW r \in Record, sent' = Append(sent, r)
    PROVE  /\ Len(sent) \in Nat
           /\ Len(sent') = Len(sent) + 1
           /\ \A k \in 1..Len(sent) : sent'[k] = sent[k]
           /\ sent'[Len(sent) + 1] = r
           /\ \A t \in Threads, n \in 0..Len(sent) :
                 NoneOf(sent', t, n) <=> NoneOf(sent, t, n)
           /\ \A t \in Threads, n \in 0..Len(sent) : \A i \in 1..n :
                 LastOf(sent', t, n, i) <=> LastOf(sent, t, n, i)
<1>1. /\ Len(sent) \in Nat
      /\ Len(sent') = Len(sent) + 1
      /\ \A k \in 1..Len(sent) : sent'[k] = sent[k]
      /\ sent'[Len(sent) + 1] = r
  BY LenProperties, AppendProperties
<1>2. ASSUME NEW t \in Threads, NEW n \in 0..Len(sent)
      PROVE  NoneOf(sent', t, n) <=> NoneOf(sent, t, n)
  BY <1>1 DEF NoneOf
<1>3. ASSUME NEW t \in Threads, NEW n \in 0..Len(sent), NEW i \in 1..n
      PROVE  LastOf(sent', t, n, i) <=> LastOf(sent, t, n, i)
  <2>1. /\ n \in 1..Len(sent)
        /\ i \in 1..Len(sent)
        /\ \A k \in i + 1..n : k \in 1..Len(sent)
    BY <1>1
  <2> QED BY <1>1, <2>1 DEF LastOf
<1> QED BY <1>1, <1>2, <1>3

\* A step that writes and prints nothing keeps the pairing, if every thread
\* that stops or starts waiting for a return is torn by it.
LEMMA SilentStep ==
    ASSUME Pairing,
           UNCHANGED <<sent, out, is_syscall, traced>>,
           pc' = "attach" => pc = "attach",
           torn \subseteq torn',
           \A u \in Threads \ torn' :
              traced => (thr'[u] \in Returning <=> thr[u] \in Returning)
    PROVE  Pairing'
<1>1. StreamPairs' /\ FlagsPair' /\ CleanRecordsPrintedRight'
  BY DEF Pairing, StreamPairs, FlagsPair, CleanRecordsPrintedRight
<1>2. ThreadsPair'
  BY DEF Pairing, ThreadsPair
<1> QED BY <1>1, <1>2 DEF Pairing

\* A step in which thread t reports record r keeps the pairing, if r is
\* clean only when it is what the thread's state calls for and, unless t is
\* torn, the thread's next state is the one that r leads to.
LEMMA ReportStep ==
    ASSUME TypeOK, Pairing, traced,
           UNCHANGED <<out, is_syscall, traced, pc>>,
           NEW t \in Threads, NEW r \in Record,
           r.tid = t,
           sent' = Append(sent, r),
           torn \subseteq torn',
           r.clean => /\ t \notin torn
                      /\ r.kind = "ret" <=> thr[t] \in Returning,
           t \notin torn' => /\ r.clean
                             /\ thr'[t] \in Returning <=> ExpectsReturn(r),
           \A u \in Threads \ torn' :
              u # t => (thr'[u] \in Returning <=> thr[u] \in Returning)
    PROVE  Pairing'
<1>b. sent \in Seq(Record)
  BY DEF TypeOK
<1>1. /\ Len(sent) \in Nat
      /\ Len(sent') = Len(sent) + 1
      /\ \A k \in 1..Len(sent) : sent'[k] = sent[k]
      /\ sent'[Len(sent) + 1] = r
      /\ \A v \in Threads, n \in 0..Len(sent) :
            NoneOf(sent', v, n) <=> NoneOf(sent, v, n)
      /\ \A v \in Threads, n \in 0..Len(sent) : \A i \in 1..n :
            LastOf(sent', v, n, i) <=> LastOf(sent, v, n, i)
  BY <1>b, AppendFacts
<1>2. \A k \in 1..Len(sent) : sent[k] \in Record /\ sent[k].tid \in Threads
  <2>1. \A k \in 1..Len(sent) : sent[k] \in Record
    BY <1>b, ElementOfSeq
  <2> QED BY <2>1 DEF Record
<1>3. Len(out) \in Nat /\ Len(out) <= Len(sent) /\ DOMAIN out = 1..Len(out)
  BY LenProperties DEF TypeOK
<1>4. StreamPairs'
  <2> SUFFICES ASSUME NEW j \in 1..Len(sent) + 1, sent'[j].clean
               PROVE  /\ NoneOf(sent', sent'[j].tid, j - 1) =>
                            sent'[j].kind = "call"
                      /\ \A i \in 1..j - 1 :
                            LastOf(sent', sent'[j].tid, j - 1, i) =>
                               /\ sent'[i].clean
                               /\ sent'[j].kind = "ret" <=>
                                     ExpectsReturn(sent'[i])
    BY <1>1 DEF StreamPairs
  <2>1. CASE j \in 1..Len(sent)
    BY <1>1, <1>2, <2>1 DEF Pairing, StreamPairs
  <2>2. CASE j = Len(sent) + 1
    BY <1>1, <1>2, <2>2 DEF Pairing, ThreadsPair, Record
  <2> QED BY <1>1, <2>1, <2>2
<1>5. ThreadsPair'
  <2> SUFFICES ASSUME NEW u \in Threads \ torn'
               PROVE  /\ NoneOf(sent', u, Len(sent) + 1) =>
                            thr'[u] \notin Returning
                      /\ \A i \in 1..Len(sent) + 1 :
                            LastOf(sent', u, Len(sent) + 1, i) =>
                               /\ sent'[i].clean
                               /\ thr'[u] \in Returning <=>
                                     ExpectsReturn(sent'[i])
    BY <1>1 DEF ThreadsPair
  <2>1. CASE u = t
    BY <1>1, <2>1 DEF NoneOf, LastOf
  <2>2. CASE u # t
    <3>1. NoneOf(sent', u, Len(sent) + 1) => NoneOf(sent, u, Len(sent))
      BY <1>1 DEF NoneOf
    <3>2. ASSUME NEW i \in 1..Len(sent) + 1,
                 LastOf(sent', u, Len(sent) + 1, i)
          PROVE  i \in 1..Len(sent) /\ LastOf(sent, u, Len(sent), i)
      BY <1>1, <2>2, <3>2 DEF LastOf
    <3> QED BY <1>1, <2>2, <3>1, <3>2 DEF Pairing, ThreadsPair
  <2> QED BY <2>1, <2>2
<1>6. FlagsPair'
  BY <1>1, <1>3 DEF Pairing, FlagsPair
<1>7. CleanRecordsPrintedRight'
  BY <1>1, <1>3 DEF Pairing, CleanRecordsPrintedRight
<1> QED BY <1>4, <1>5, <1>6, <1>7 DEF Pairing, TypeOK

\* Reading and printing one record: the flag of its thread says rightly
\* what a clean record is, and then says what to expect next.
LEMMA ReadStep ==
    ASSUME TypeOK, Pairing, ReadRecord
    PROVE  Pairing'
<1> DEFINE n == Len(out)
           r == sent[n + 1]
           line == [tid  |-> r.tid,
                    kind |-> IF is_syscall[r.tid] THEN "call" ELSE "ret",
                    rax  |-> r.rax]
<1>b. sent \in Seq(Record) /\ out \in Seq(Line)
  BY DEF TypeOK
<1>1. n \in Nat /\ n + 1 \in 1..Len(sent) /\ Len(sent) \in Nat
  BY <1>b, LenProperties DEF TypeOK, ReadRecord
<1>2. \A k \in 1..Len(sent) : sent[k] \in Record
  BY <1>b, ElementOfSeq
<1>3. r \in Record /\ r.tid \in Threads
  <2>1. r \in Record
    BY <1>1, <1>2
  <2> QED BY <2>1 DEF Record
<1>4. line \in Line
  BY <1>3 DEF Line, Record
<1>5. out' = Append(out, line)
  BY DEF ReadRecord
<1>6. /\ Len(out') = n + 1
      /\ DOMAIN out' = 1..n + 1
      /\ DOMAIN out = 1..n
      /\ \A i \in 1..n : out'[i] = out[i]
      /\ out'[n + 1] = line
  <2> HIDE DEF line
  <2> QED BY <1>b, <1>4, <1>5, AppendProperties, LenProperties
<1>7. UNCHANGED <<sent, thr, traced, torn>> /\ pc' = "wait"
  BY DEF ReadRecord, traceeVars
<1>8. is_syscall' = [is_syscall EXCEPT ![r.tid] = ~@ \/ r.rax \in NoReturn]
  BY DEF ReadRecord, StaysCall
<1>9. is_syscall \in [Threads -> BOOLEAN]
  BY DEF TypeOK
<1> HIDE DEF line, r, n
<1>10. r.clean => (is_syscall[r.tid] <=> r.kind = "call")
  <2> SUFFICES ASSUME r.clean
               PROVE  is_syscall[r.tid] <=> r.kind = "call"
    OBVIOUS
  <2>1. CASE NoneOf(sent, r.tid, n)
    BY <1>1, <1>3, <2>1 DEF Pairing, StreamPairs, FlagsPair, r, n
  <2>2. ASSUME NEW i \in 1..n, LastOf(sent, r.tid, n, i)
        PROVE  is_syscall[r.tid] <=> r.kind = "call"
    <3>1. sent[i].clean /\ (r.kind = "ret" <=> ExpectsReturn(sent[i]))
      BY <1>1, <2>2 DEF Pairing, StreamPairs, r, n
    <3>2. is_syscall[r.tid] <=> ~ExpectsReturn(sent[i])
      BY <1>3, <2>2, <3>1 DEF Pairing, FlagsPair, n
    <3>3. r.kind \in {"call", "ret"}
      BY <1>3 DEF Record
    <3> QED BY <3>1, <3>2, <3>3
  <2>3. NoneOf(sent, r.tid, n) \/ \E i \in 1..n : LastOf(sent, r.tid, n, i)
    BY <1>b, <1>1, <1>3, LastExists
  <2> QED BY <2>1, <2>2, <2>3
<1>11. CleanRecordsPrintedRight'
  <2>1. out'[n + 1].kind = IF is_syscall[r.tid] THEN "call" ELSE "ret"
    BY <1>6 DEF line
  <2>2. r.clean => out'[n + 1].kind = r.kind
    BY <1>3, <1>10, <2>1 DEF Record
  <2> QED BY <1>1, <1>6, <1>7, <2>2
          DEF Pairing, CleanRecordsPrintedRight, r
<1>12. FlagsPair'
  <2> SUFFICES ASSUME NEW t \in Threads
               PROVE  /\ NoneOf(sent, t, n + 1) => is_syscall'[t]
                      /\ \A i \in 1..n + 1 : LastOf(sent, t, n + 1, i) =>
                            (sent[i].clean =>
                               (is_syscall'[t] <=> ~ExpectsReturn(sent[i])))
    BY <1>6, <1>7 DEF FlagsPair
  <2>1. CASE t = r.tid
    <3>1. ~NoneOf(sent, t, n + 1)
      BY <1>1, <2>1 DEF NoneOf, r
    <3>2. ASSUME NEW i \in 1..n + 1, LastOf(sent, t, n + 1, i)
          PROVE  sent[i] = r
      BY <1>1, <2>1, <3>2 DEF LastOf, r
    <3>3. is_syscall'[t] <=> (~is_syscall[t] \/ r.rax \in NoReturn)
      BY <1>3, <1>8, <1>9, <2>1
    <3>4. r.clean => (is_syscall'[t] <=> ~ExpectsReturn(r))
      BY <1>10, <2>1, <3>3 DEF ExpectsReturn
    <3> QED BY <3>1, <3>2, <3>4
  <2>2. CASE t # r.tid
    <3>1. is_syscall'[t] = is_syscall[t]
      BY <1>8, <1>9, <2>2
    <3>2. NoneOf(sent, t, n + 1) => NoneOf(sent, t, n)
      BY <1>1 DEF NoneOf
    <3>3. ASSUME NEW i \in 1..n + 1, LastOf(sent, t, n + 1, i)
          PROVE  i \in 1..n /\ LastOf(sent, t, n, i)
      BY <1>1, <2>2, <3>3 DEF LastOf, r
    <3> QED BY <3>1, <3>2, <3>3 DEF Pairing, FlagsPair, n
  <2> QED BY <2>1, <2>2
<1>13. StreamPairs' /\ ThreadsPair'
  BY <1>7 DEF Pairing, StreamPairs, ThreadsPair
<1> QED BY <1>7, <1>11, <1>12, <1>13 DEF Pairing

\* The kernel's write, whether the tracee is traced yet or not.
LEMMA KernelStep ==
    ASSUME TypeOK, Pairing,
           NEW t \in Threads, NEW kind \in {"call", "ret"},
           NEW rax \in Calls, NEW clean \in BOOLEAN,
           Report(t, kind, rax, clean),
           UNCHANGED <<out, is_syscall, traced, pc>>,
           torn \subseteq torn',
           clean => /\ t \notin torn
                    /\ kind = "ret" <=> thr[t] \in Returning,
           traced /\ t \notin torn' =>
               /\ clean
               /\ thr'[t] \in Returning <=> (kind = "call" /\ rax \notin NoReturn),
           \A u \in Threads \ torn' :
              traced /\ u # t => (thr'[u] \in Returning <=> thr[u] \in Returning)
    PROVE  Pairing'
<1> DEFINE r == [tid |-> t, kind |-> kind, rax |-> rax, clean |-> clean]
<1>1. CASE traced
  <2>1. sent' = Append(sent, r) /\ r \in Record
    BY <1>1 DEF Report, Record
  <2>2. ExpectsReturn(r) <=> (kind = "call" /\ rax \notin NoReturn)
    BY DEF ExpectsReturn
  <2>3. r.tid = t /\ r.kind = kind /\ r.clean = clean
    OBVIOUS
  <2> HIDE DEF r
  <2> QED BY <1>1, <2>1, <2>2, <2>3, ReportStep
<1>2. CASE ~traced
  <2>1. sent' = sent
    BY <1>2 DEF Report
  <2>2. /\ StreamPairs' /\ FlagsPair' /\ CleanRecordsPrintedRight'
        /\ ~traced' /\ sent' = << >>
    BY <1>2, <2>1
       DEF Pairing, StreamPairs, FlagsPair, CleanRecordsPrintedRight
  <2> QED BY <2>2 DEF Pairing, ThreadsPair
<1> QED BY <1>1, <1>2

\* Every step keeps the pairing.
LEMMA PairingStep ==
    ASSUME TypeOK, Pairing, [Next]_vars
    PROVE  Pairing'
<1>b. /\ \A c \in Calls : c \in Returning <=> c \notin NoReturn
      /\ Makes \subseteq Calls /\ RetVals \subseteq Calls
      /\ {"exit", "exit_thread", "other"} \subseteq Calls
      /\ {"exit", "exit_thread"} \subseteq NoReturn
      /\ {"none", "user", "exec"} \cap Returning = {}
  BY MakesAssumption, RetValsAssumption DEF Returning, Calls, NoReturn
<1>a. thr \in [Threads -> {"none", "user", "exec"} \union Returning]
  BY DEF TypeOK
<1>1. ASSUME NEW t \in Threads, NEW c \in Makes, MakeCall(t, c)
      PROVE  Pairing'
  <2>1. UNCHANGED <<out, is_syscall, traced, pc, torn>>
    BY <1>1 DEF MakeCall, tracerVars
  <2>2. thr[t] = "user" /\ thr' = [thr EXCEPT ![t] = c]
    BY <1>1 DEF MakeCall
  <2>3. thr'[t] = c /\ \A u \in Threads : u # t => thr'[u] = thr[u]
    BY <1>a, <2>2
  <2>4. Report(t, "call", c, t \notin torn) /\ c \in Calls
    BY <1>b, <1>1 DEF MakeCall
  <2> QED BY <1>b, <2>1, <2>2, <2>3, <2>4, KernelStep
<1>2. ASSUME NEW t \in Threads, ReturnFromCall(t)
      PROVE  Pairing'
  <2>1. UNCHANGED <<out, is_syscall, traced, pc, torn>>
    BY <1>2 DEF ReturnFromCall, tracerVars
  <2>2. thr[t] \in Returning
    BY <1>2 DEF ReturnFromCall
  <2>3. /\ thr'[t] = "user"
        /\ \A u \in Threads : u # t =>
              thr'[u] = thr[u] \/ (thr[u] = "none" /\ thr'[u] = "user")
    BY <1>a, <1>2 DEF ReturnFromCall
  <2>4. PICK x \in RetVals : Report(t, "ret", x, t \notin torn)
    BY <1>2 DEF ReturnFromCall
  <2> QED BY <1>b, <2>1, <2>2, <2>3, <2>4, KernelStep
<1>3. ASSUME NEW t \in Threads, ExecFails(t)
      PROVE  Pairing'
  <2>1. UNCHANGED <<out, is_syscall, traced, pc>>
    BY <1>3 DEF ExecFails, tracerVars
  <2>2. thr' = [thr EXCEPT ![t] = "user"]
    BY <1>3 DEF ExecFails
  <2>3. \A u \in Threads : u # t => thr'[u] = thr[u]
    BY <1>a, <2>2
  <2>4. Report(t, "ret", "other", FALSE)
    BY <1>3 DEF ExecFails
  <2>5. torn \subseteq torn' /\ (traced => t \in torn')
    BY <1>3 DEF ExecFails
  <2> QED BY <1>b, <2>1, <2>3, <2>4, <2>5, KernelStep
<1>4. ASSUME NEW t \in Threads, NEW u \in Threads, ExecSucceeds(t, u)
      PROVE  Pairing'
  <2>1. UNCHANGED <<sent, out, is_syscall, traced, pc>>
    BY <1>4 DEF ExecSucceeds, tracerVars
  <2>2. \A v \in Threads : thr'[v] \notin Returning
    BY <1>b, <1>4 DEF ExecSucceeds
  <2>3. /\ torn \subseteq torn'
        /\ \A v \in Threads \ torn' : traced => thr[v] \notin Returning
    BY <1>4 DEF ExecSucceeds, TornBy
  <2> QED BY <2>1, <2>2, <2>3, SilentStep
<1>5. ASSUME NEW t \in Threads, ExitThread(t)
      PROVE  Pairing'
  <2>1. UNCHANGED <<out, is_syscall, traced, pc, torn>>
    BY <1>5 DEF ExitThread, tracerVars
  <2>2. thr[t] = "user" /\ thr' = [thr EXCEPT ![t] = "none"]
    BY <1>5 DEF ExitThread
  <2>3. thr'[t] = "none" /\ \A u \in Threads : u # t => thr'[u] = thr[u]
    BY <1>a, <2>2
  <2>4. Report(t, "call", "exit_thread", t \notin torn)
    BY <1>5 DEF ExitThread
  <2> QED BY <1>b, <2>1, <2>2, <2>3, <2>4, KernelStep
<1>6. ASSUME NEW t \in Threads, ExitProcess(t)
      PROVE  Pairing'
  <2>1. UNCHANGED <<out, is_syscall, traced, pc>>
    BY <1>6 DEF ExitProcess, tracerVars
  <2>2. thr[t] = "user" /\ \A u \in Threads : thr'[u] = "none"
    BY <1>6 DEF ExitProcess
  <2>3. /\ torn \subseteq torn'
        /\ traced => torn' = torn \union {u \in Threads : thr[u] \in Returning}
    BY <1>6 DEF ExitProcess, TornBy
  <2>4. Report(t, "call", "exit", t \notin torn)
    BY <1>6 DEF ExitProcess
  <2> QED BY <1>b, <2>1, <2>2, <2>3, <2>4, KernelStep
<1>7. ASSUME KillProcess
      PROVE  Pairing'
  <2>1. UNCHANGED <<sent, out, is_syscall, traced, pc>>
    BY <1>7 DEF KillProcess, tracerVars
  <2>2. \A v \in Threads : thr'[v] \notin Returning
    BY <1>b, <1>7 DEF KillProcess
  <2>3. /\ torn \subseteq torn'
        /\ \A v \in Threads \ torn' : traced => thr[v] \notin Returning
    BY <1>7 DEF KillProcess, TornBy
  <2> QED BY <2>1, <2>2, <2>3, SilentStep
<1>8. ASSUME CloseFiles \/ BecomeZombie \/ BackgroundEnds
      PROVE  Pairing'
  BY <1>8, SilentStep
     DEF CloseFiles, BecomeZombie, BackgroundEnds, tracerVars
<1>9. ASSUME Attach
      PROVE  Pairing'
  <2>1. sent = << >> /\ UNCHANGED <<sent, out, is_syscall, thr>>
    BY <1>9 DEF Attach, Pairing
  <2>2. traced' /\ pc' = "poll" /\ torn' = {u \in Threads : thr[u] \in Returning}
    BY <1>9 DEF Attach
  <2>3. Len(sent) = 0
    BY <2>1
  <2>4. ThreadsPair'
    BY <2>1, <2>2, <2>3 DEF ThreadsPair, LastOf
  <2>5. StreamPairs' /\ FlagsPair' /\ CleanRecordsPrintedRight'
    BY <2>1 DEF Pairing, StreamPairs, FlagsPair, CleanRecordsPrintedRight
  <2> QED BY <2>2, <2>4, <2>5 DEF Pairing
<1>10. ASSUME AttachFails \/ Poll \/ PollFails \/ NoMemory \/ WaitChild
       PROVE  Pairing'
  BY <1>10, SilentStep
     DEF AttachFails, Poll, PollFails, NoMemory, WaitChild, traceeVars
<1>11. ASSUME ReadRecord
       PROVE  Pairing'
  BY <1>11, ReadStep
<1>12. CASE UNCHANGED vars
  BY <1>12, SilentStep DEF vars, tracerVars, traceeVars
<1> QED BY <1>1, <1>2, <1>3, <1>4, <1>5, <1>6, <1>7, <1>8, <1>9, <1>10,
           <1>11, <1>12
        DEF Next, Tracer, Tracee

\* The tracer's flags, the records in the pipe and the tracee agree, thread
\* id by thread id, on whether the next record is a call or a return.
THEOREM PairingHolds == Spec => []Pairing
<1>1. Init => Pairing
  <2> SUFFICES ASSUME Init PROVE Pairing
    OBVIOUS
  <2>1. /\ sent = << >> /\ out = << >> /\ ~traced
        /\ \A t \in Threads : is_syscall[t]
    BY DEF Init
  <2>2. Len(sent) = 0 /\ Len(out) = 0 /\ DOMAIN out = {}
    BY <2>1
  <2> QED BY <2>1, <2>2 DEF Pairing, StreamPairs, ThreadsPair, FlagsPair,
                            CleanRecordsPrintedRight, LastOf
<1>2. TypeOK /\ Pairing /\ [Next]_vars => Pairing'
  BY PairingStep
<1> QED BY <1>1, <1>2, TypeCorrect, PTL DEF Spec

\* As long as a thread's records pair up, strace prints each of them as the
\* call or the return that it is (strace.c:309-338).
THEOREM PrintsCleanRecordsRight == Spec => []CleanRecordsPrintedRight
<1>1. Pairing => CleanRecordsPrintedRight
  BY DEF Pairing
<1> QED BY <1>1, PairingHolds, PTL

-----------------------------------------------------------------------------
(* Strace implements SyscallTrace.                                         *)

Events == [i \in DOMAIN sent |-> Seen(sent[i], sent[i].clean)]
Lines == [i \in DOMAIN out |-> Seen(out[i], sent[i].clean)]

\* The sequences the abstract tracer sees.
LEMMA EventsFacts ==
    ASSUME TypeOK
    PROVE  /\ Events \in Seq(Promise!Event) /\ Len(Events) = Len(sent)
           /\ \A i \in 1..Len(sent) : Events[i] = Seen(sent[i], sent[i].clean)
           /\ Lines \in Seq(Promise!Event) /\ Len(Lines) = Len(out)
           /\ \A i \in 1..Len(out) : Lines[i] = Seen(out[i], sent[i].clean)
           /\ Len(sent) \in Nat /\ Len(out) \in Nat /\ Len(out) <= Len(sent)
<1>1. /\ DOMAIN sent = 1..Len(sent) /\ DOMAIN out = 1..Len(out)
      /\ Len(sent) \in Nat /\ Len(out) \in Nat /\ Len(out) <= Len(sent)
  BY LenProperties DEF TypeOK
<1>2. ASSUME NEW r, r \in Record \/ r \in Line, NEW c \in BOOLEAN
      PROVE  Seen(r, c) \in Promise!Event
  BY <1>2 DEF Seen, Promise!Event, Record, Line
<1>3. /\ \A i \in 1..Len(sent) : sent[i] \in Record /\ sent[i].clean \in BOOLEAN
      /\ \A i \in 1..Len(out) : out[i] \in Line /\ sent[i].clean \in BOOLEAN
  <2>1. \A i \in 1..Len(sent) : sent[i] \in Record
    BY ElementOfSeq DEF TypeOK
  <2>2. \A i \in 1..Len(out) : out[i] \in Line
    BY ElementOfSeq DEF TypeOK
  <2>3. \A i \in 1..Len(out) : i \in 1..Len(sent)
    BY <1>1
  <2> QED BY <2>1, <2>2, <2>3 DEF Record
<1>4. Events \in [1..Len(sent) -> Promise!Event] /\ Lines \in [1..Len(out) -> Promise!Event]
  BY <1>1, <1>2, <1>3 DEF Events, Lines
<1>5. Events \in Seq(Promise!Event) /\ Lines \in Seq(Promise!Event)
  BY <1>1, <1>4
<1>6. Len(Events) = Len(sent) /\ Len(Lines) = Len(out)
  BY <1>1, <1>4
<1> QED BY <1>1, <1>5, <1>6 DEF Events, Lines

\* What is known of a sequence extended by one element.
LEMMA IsAppended ==
    ASSUME NEW T, NEW s \in Seq(T), NEW u \in Seq(T), NEW e \in T,
           Len(u) = Len(s) + 1, \A i \in 1..Len(s) : u[i] = s[i], u[Len(s) + 1] = e
    PROVE  u = Append(s, e)
<1>1. /\ Append(s, e) \in Seq(T) /\ Len(Append(s, e)) = Len(s) + 1
      /\ \A i \in 1..Len(s) : Append(s, e)[i] = s[i] /\ Append(s, e)[Len(s) + 1] = e
  BY AppendProperties
<1>2. Len(s) \in Nat
  BY LenProperties
<1>3. \A i \in 1..(Len(s) + 1) : i \in 1..Len(s) \/ i = Len(s) + 1
  BY <1>2
<1>4. Append(s, e)[Len(s) + 1] = e
  BY AppendProperties
<1>5. \A i \in 1..(Len(s) + 1) : u[i] = Append(s, e)[i]
  BY <1>1, <1>3, <1>4
<1>6. /\ DOMAIN u = 1..(Len(s) + 1) /\ DOMAIN Append(s, e) = 1..(Len(s) + 1)
      /\ u \in [1..(Len(s) + 1) -> T] /\ Append(s, e) \in [1..(Len(s) + 1) -> T]
  BY <1>1, LenProperties
<1> QED BY <1>5, <1>6

\* A record the kernel writes is an event that happens: if it is clean, its
\* thread was not lost, and it returns if and only if it was inside a call.
LEMMA HappenStep ==
    ASSUME TypeOK, TypeOK', Pairing', NEW r \in Record,
           sent' = Append(sent, r), UNCHANGED out
    PROVE  Promise!Next
<1> DEFINE e == Seen(r, r.clean)
<1>s. sent \in Seq(Record)
  BY DEF TypeOK
<1>1. /\ Len(sent') = Len(sent) + 1 /\ sent'[Len(sent) + 1] = r /\ Len(sent) \in Nat
      /\ \A i \in 1..Len(sent) : sent'[i] = sent[i]
  BY <1>s, AppendProperties, LenProperties
<1>2. e \in Promise!Event
  BY DEF Seen, Promise!Event, Record
<1>3. Events' = Append(Events, e)
  <2>1. /\ Events \in Seq(Promise!Event) /\ Len(Events) = Len(sent)
        /\ \A i \in 1..Len(sent) : Events[i] = Seen(sent[i], sent[i].clean)
    BY EventsFacts
  <2>2. DOMAIN sent' = 1..Len(sent')
    BY LenProperties DEF TypeOK
  <2>3. /\ Len(sent) + 1 \in 1..Len(sent')
        /\ \A i \in 1..Len(sent) : i \in 1..Len(sent')
    BY <1>1
  <2>4. \A i \in 1..Len(sent') : Events'[i] = Seen(sent'[i], sent'[i].clean)
    BY <2>2 DEF Events, Seen
  <2>5. Events'[Len(sent) + 1] = e /\ \A i \in 1..Len(sent) : Events'[i] = Events[i]
    BY <1>1, <2>1, <2>3, <2>4
  <2>6. Events' \in Seq(Promise!Event) /\ Len(Events') = Len(sent')
    <3>1. \A i \in 1..Len(sent') : i \in 1..Len(sent) \/ i = Len(sent) + 1
      BY <1>1
    <3>2. \A i \in 1..Len(sent) : Events[i] \in Promise!Event
      BY <2>1, ElementOfSeq
    <3>3. \A i \in 1..Len(sent') : Events'[i] \in Promise!Event
      BY <1>2, <2>5, <3>1, <3>2
    <3>4. Events' = [i \in 1..Len(sent') |-> Events'[i]]
      BY <2>2 DEF Events
    <3>5. Events' \in [1..Len(sent') -> Promise!Event]
      BY <3>3, <3>4
    <3>6. Len(sent') \in Nat
      BY <1>1
    <3> QED BY <3>5, <3>6
  <2> HIDE DEF e
  <2> QED BY <1>1, <1>2, <2>1, <2>5, <2>6, IsAppended
<1>4. Lines' = Lines
  <2>1. \A i \in DOMAIN out : i \in 1..Len(sent)
    BY LenProperties DEF TypeOK
  <2> QED BY <1>1, <2>1 DEF Lines, Seen
<1>5. ASSUME r.clean
      PROVE  ~Promise!Lost(Events, r.tid) /\ (r.kind = "ret" <=> Promise!Inside(Events, r.tid))
  <2> DEFINE n == Len(sent)
             t == r.tid
  <2>1. n + 1 \in 1..Len(sent') /\ (n + 1) - 1 = n /\ t \in Threads /\ n \in Nat
    BY <1>1 DEF Record
  <2>2. /\ NoneOf(sent', t, n) => r.kind = "call"
        /\ \A i \in 1..n : LastOf(sent', t, n, i) =>
              sent'[i].clean /\ (r.kind = "ret" <=> ExpectsReturn(sent'[i]))
    BY <1>1, <1>5, <2>1 DEF Pairing, StreamPairs
  <2>3. /\ Len(Events) = n /\ DOMAIN Events = 1..n
        /\ \A i \in 1..n : Events[i] = Seen(sent'[i], sent'[i].clean)
    <3>1. Events \in Seq(Promise!Event) /\ Len(Events) = n
      BY EventsFacts
    <3>2. DOMAIN Events = 1..n
      BY <3>1, LenProperties
    <3> QED BY <1>1, <3>1, <3>2, EventsFacts
  <2>4. \A i \in 1..n : Events[i].tid = sent'[i].tid /\ Events[i].rax = sent'[i].rax
    BY <2>3 DEF Seen
  <2>5. ASSUME NEW i, Promise!LastIs(Events, t, i)
        PROVE  /\ i \in 1..n /\ Events[i].kind = sent'[i].kind /\ sent'[i].kind # "any"
               /\ r.kind = "ret" <=> Promise!ExpectsReturn(Events[i])
    <3>1. i \in 1..n /\ sent'[i].tid = t /\ \A k \in 1..n : k > i => sent'[k].tid # t
      BY <2>3, <2>4, <2>5 DEF Promise!LastIs
    <3>2. LastOf(sent', t, n, i)
      <4>1. \A k \in (i + 1)..n : k \in 1..n /\ k > i
        BY <2>1, <3>1
      <4> QED BY <3>1, <4>1 DEF LastOf
    <3>3. sent'[i].clean /\ (r.kind = "ret" <=> ExpectsReturn(sent'[i]))
      BY <2>2, <3>1, <3>2
    <3>4. Events[i].kind = sent'[i].kind
      BY <2>3, <3>1, <3>3 DEF Seen
    <3>5. sent'[i].kind # "any"
      <4>1. sent[i] \in Record
        BY <1>s, <3>1, ElementOfSeq
      <4> QED BY <1>1, <3>1, <4>1 DEF Record
    <3> QED BY <2>4, <3>1, <3>3, <3>4, <3>5 DEF ExpectsReturn, Promise!ExpectsReturn
  <2>6. ASSUME r.kind = "ret" PROVE \E i : Promise!LastIs(Events, t, i)
    <3>1. ~NoneOf(sent', t, n)
      BY <2>2, <2>6
    <3>2. PICK i \in 1..n : LastOf(sent', t, n, i)
      <4>1. \E i \in 1..n : LastOf(sent, t, n, i)
        <5>1. ~NoneOf(sent, t, n)
          BY <1>1, <3>1 DEF NoneOf
        <5>2. n \in 0..Len(sent)
          BY <2>1
        <5> QED BY <1>s, <5>1, <5>2, LastExists, <2>1
      <4>2. PICK i \in 1..n : LastOf(sent, t, n, i)
        BY <4>1
      <4>3. \A k \in (i + 1)..n : k \in 1..n
        BY <2>1
      <4> QED BY <1>1, <4>2, <4>3 DEF LastOf
    <3>3. \A k \in 1..n : k > i => k \in (i + 1)..n
      BY <2>1, <3>2
    <3> QED BY <2>3, <2>4, <3>2, <3>3 DEF LastOf, Promise!LastIs
  <2>7. ~Promise!Lost(Events, t)
    BY <2>5 DEF Promise!Lost
  <2>8. r.kind = "ret" => Promise!Inside(Events, t)
    <3> SUFFICES ASSUME r.kind = "ret" PROVE Promise!Inside(Events, t)
      OBVIOUS
    <3>1. PICK i : Promise!LastIs(Events, t, i)
      BY <2>6
    <3>2. i \in DOMAIN Events /\ Promise!ExpectsReturn(Events[i])
      BY <2>3, <2>5, <3>1
    <3> QED BY <3>1, <3>2 DEF Promise!Inside
  <2>9. Promise!Inside(Events, t) => r.kind = "ret"
    BY <2>5 DEF Promise!Inside
  <2> QED BY <2>7, <2>8, <2>9
<1>6. e.tid = r.tid /\ (e.kind # "any" => r.clean /\ e.kind = r.kind)
  BY DEF Seen
<1>7. Promise!Happen(e)
  <2> HIDE DEF e
  <2> QED BY <1>3, <1>4, <1>5, <1>6 DEF Promise!Happen, Events, Lines
<1> QED BY <1>2, <1>7 DEF Promise!Next

\* What the kernel does to the records in one step of the tracee.
LEMMA TraceeWrites ==
    ASSUME TypeOK, Tracee
    PROVE  /\ UNCHANGED out
           /\ sent' = sent \/ \E r \in Record : sent' = Append(sent, r)
<1>1. ASSUME NEW t \in Threads, NEW kind \in {"call", "ret"}, NEW rax \in Calls,
             NEW clean \in BOOLEAN, Report(t, kind, rax, clean)
      PROVE  sent' = sent \/ \E r \in Record : sent' = Append(sent, r)
  <2> DEFINE r == [tid |-> t, kind |-> kind, rax |-> rax, clean |-> clean]
  <2>1. r \in Record
    BY DEF Record
  <2> QED BY <1>1, <2>1 DEF Report
<1>2. /\ "exit" \in Calls /\ "exit_thread" \in Calls /\ "other" \in Calls
      /\ RetVals \subseteq Calls /\ Makes \subseteq Calls
  BY RetValsAssumption, MakesAssumption DEF Calls, Returning, NoReturn
<1>3. ASSUME NEW t \in Threads, NEW c \in Makes, MakeCall(t, c)
      PROVE  UNCHANGED out /\ (sent' = sent \/ \E r \in Record : sent' = Append(sent, r))
  <2>1. UNCHANGED out /\ Report(t, "call", c, t \notin torn)
    BY <1>3 DEF MakeCall, tracerVars
  <2>2. c \in Calls /\ (t \notin torn) \in BOOLEAN
    BY <1>2
  <2> QED BY <1>1, <2>1, <2>2
<1>4. ASSUME NEW t \in Threads, ReturnFromCall(t)
      PROVE  UNCHANGED out /\ (sent' = sent \/ \E r \in Record : sent' = Append(sent, r))
  <2>1. UNCHANGED out
    BY <1>4 DEF ReturnFromCall, tracerVars
  <2>2. PICK x \in RetVals : Report(t, "ret", x, t \notin torn)
    BY <1>4 DEF ReturnFromCall
  <2>3. x \in Calls /\ (t \notin torn) \in BOOLEAN
    BY <1>2
  <2> QED BY <1>1, <2>1, <2>2, <2>3
<1>5. ASSUME NEW t \in Threads, ExecFails(t) \/ ExitThread(t) \/ ExitProcess(t)
      PROVE  UNCHANGED out /\ (sent' = sent \/ \E r \in Record : sent' = Append(sent, r))
  <2>1. UNCHANGED out
    BY <1>5 DEF ExecFails, ExitThread, ExitProcess, tracerVars
  <2>2. \/ Report(t, "ret", "other", FALSE)
        \/ Report(t, "call", "exit_thread", t \notin torn)
        \/ Report(t, "call", "exit", t \notin torn)
    BY <1>5 DEF ExecFails, ExitThread, ExitProcess
  <2>3. (t \notin torn) \in BOOLEAN
    OBVIOUS
  <2> QED BY <1>1, <1>2, <2>1, <2>2, <2>3
<1>6. ASSUME NEW t \in Threads, NEW u \in Threads, ExecSucceeds(t, u)
      PROVE  UNCHANGED <<out, sent>>
  BY <1>6 DEF ExecSucceeds, tracerVars
<1>7. ASSUME KillProcess \/ CloseFiles \/ BecomeZombie \/ BackgroundEnds
      PROVE  UNCHANGED <<out, sent>>
  BY <1>7 DEF KillProcess, CloseFiles, BecomeZombie, BackgroundEnds, tracerVars
<1> QED BY <1>3, <1>4, <1>5, <1>6, <1>7 DEF Tracee

\* A record that is read is shown as the event it is.
LEMMA ShowStep ==
    ASSUME TypeOK, TypeOK', Pairing', ReadRecord
    PROVE  Promise!Next
<1> DEFINE n == Len(out)
           line == [tid  |-> sent[n + 1].tid,
                    kind |-> IF is_syscall[sent[n + 1].tid] THEN "call" ELSE "ret",
                    rax  |-> sent[n + 1].rax]
<1>1. out' = Append(out, line) /\ UNCHANGED sent
  BY DEF ReadRecord, traceeVars
<1>2. n \in Nat /\ n + 1 \in 1..Len(sent) /\ n < Len(sent) /\ sent[n + 1] \in Record
  <2>1. Len(out) < Len(sent) /\ Len(out) \in Nat /\ Len(sent) \in Nat
    BY LenProperties DEF ReadRecord, TypeOK
  <2>2. n + 1 \in 1..Len(sent)
    BY <2>1
  <2> QED BY <2>1, <2>2, ElementOfSeq DEF TypeOK
<1>3. /\ Len(out') = n + 1 /\ out'[n + 1] = line
      /\ \A i \in 1..n : out'[i] = out[i]
  <2>1. line \in Line
    BY <1>2 DEF Line, Record
  <2>2. out \in Seq(Line)
    BY DEF TypeOK
  <2> HIDE DEF line
  <2> QED BY <1>1, <2>1, <2>2, AppendProperties
<1>4. Events' = Events
  BY <1>1 DEF Events, Seen
<1>5. Lines'[n + 1] = Events[n + 1] /\ n + 1 \in 1..Len(out')
  <2>1. n + 1 \in DOMAIN out' /\ n + 1 \in 1..Len(out')
    BY <1>2, <1>3, LenProperties DEF TypeOK
  <2>2. Lines'[n + 1] = Seen(line, sent[n + 1].clean)
    BY <1>1, <1>3, <2>1 DEF Lines, Seen
  <2>3. sent[n + 1].clean => line.kind = sent[n + 1].kind
    BY <1>1, <1>3, <2>1 DEF Pairing, CleanRecordsPrintedRight
  <2>4. Events[n + 1] = Seen(sent[n + 1], sent[n + 1].clean)
    BY <1>2, EventsFacts
  <2> QED BY <2>1, <2>2, <2>3, <2>4 DEF Seen
<1>6. Lines' = Append(Lines, Events[n + 1])
  <2>1. /\ Lines \in Seq(Promise!Event) /\ Len(Lines) = n
        /\ \A i \in 1..n : Lines[i] = Seen(out[i], sent[i].clean)
        /\ Events[n + 1] \in Promise!Event
    BY <1>2, EventsFacts, ElementOfSeq
  <2>2. DOMAIN out' = 1..(n + 1)
    BY <1>3, LenProperties DEF TypeOK
  <2>3. \A i \in 1..n : i \in 1..(n + 1)
    BY <1>2
  <2>4. \A i \in 1..n : Lines'[i] = Lines[i]
    BY <1>1, <1>3, <2>1, <2>2, <2>3 DEF Lines, Seen
  <2>5. Lines' \in Seq(Promise!Event) /\ Len(Lines') = n + 1
    <3>1. \A i \in 1..(n + 1) : i \in 1..n \/ i = n + 1
      BY <1>2
    <3>2. \A i \in 1..n : Lines[i] \in Promise!Event
      BY <2>1, ElementOfSeq
    <3>3. \A i \in 1..(n + 1) : Lines'[i] \in Promise!Event
      BY <1>5, <2>1, <2>4, <3>1, <3>2
    <3>4. Lines' = [i \in 1..(n + 1) |-> Lines'[i]]
      BY <2>2 DEF Lines
    <3>5. Lines' \in [1..(n + 1) -> Promise!Event] /\ n + 1 \in Nat
      BY <1>2, <3>3, <3>4
    <3> QED BY <3>5
  <2> HIDE DEF n
  <2> QED BY <1>5, <2>1, <2>4, <2>5, IsAppended
<1>7. Len(Lines) = n /\ Len(Events) = Len(sent)
  BY EventsFacts
<1>8. Promise!Show
  BY <1>2, <1>4, <1>6, <1>7 DEF Promise!Show, Events, Lines
<1> QED BY <1>8 DEF Promise!Next

\* strace implements the abstract tracer: each of its steps is one of it, or
\* none, for any threads and calls and any capacity of the pipe.
THEOREM ImplementsPromise == Spec => PromiseSpec
<1>1. Init => Promise!Init
  <2> SUFFICES ASSUME Init PROVE Promise!Init
    OBVIOUS
  <2>1. sent = <<>> /\ out = <<>>
    BY DEF Init
  <2>2. DOMAIN sent = {} /\ DOMAIN out = {}
    BY <2>1
  <2> QED BY <2>1, <2>2 DEF Promise!Init
<1>2. TypeOK /\ TypeOK' /\ Pairing' /\ [Next]_vars => [Promise!Next]_(Promise!vars)
  <2> SUFFICES ASSUME TypeOK, TypeOK', Pairing', [Next]_vars
               PROVE  [Promise!Next]_(Promise!vars)
    OBVIOUS
  <2>1. CASE UNCHANGED <<sent, out>>
    BY <2>1 DEF Promise!vars, Seen
  <2>2. ASSUME NEW r \in Record, sent' = Append(sent, r), UNCHANGED out
        PROVE  Promise!Next
    BY <2>2, HappenStep
  <2>3. CASE Tracee
    BY <2>1, <2>2, <2>3, TraceeWrites
  <2>4. CASE ReadRecord
    BY <2>4, ShowStep
  <2>5. CASE Attach \/ AttachFails \/ Poll \/ PollFails \/ NoMemory \/ WaitChild \/ UNCHANGED vars
    BY <2>1, <2>5 DEF Attach, AttachFails, Poll, PollFails, NoMemory, WaitChild,
                      tracerVars, traceeVars, vars
  <2> QED BY <2>3, <2>4, <2>5 DEF Next, Tracer
<1> QED BY <1>1, <1>2, TypeCorrect, PairingHolds, PTL DEF Spec, PromiseSpec, Promise!Spec
=============================================================================
