------------------------- MODULE RenicePowerdProofs -------------------------
(***************************************************************************)
(* Theorems about two programs that have nothing to do with each other,    *)
(* each on its own: about Renice, for any finite number of renices and any *)
(* processes, groups and users, and, at the end, about Powerd, which has   *)
(* no constants: what holds of it does because of how the entries of       *)
(* polled, their revents and the loop over them hang together.             *)
(***************************************************************************)
EXTENDS Renice, Powerd, FiniteSetTheorems, WellFoundedInduction, TLAPS

-----------------------------------------------------------------------------
(* Sums over sets of renices.                                              *)

\* The recursion over a set that MapThenSumSet stands for.
Pick(S) == CHOOSE t \in S : TRUE
SumsUp(g, f) ==
    g = [S \in SUBSET Tools |-> IF S = {} THEN 0 ELSE f[Pick(S)] + g[S \ {Pick(S)}]]

\* From a set of renices to what f gives them together.
SumOf(f) == CHOOSE g : SumsUp(g, f)

\* A set of numbers has a smallest one.
LEMMA Smallest ==
    ASSUME NEW S, S \subseteq Nat, S # {}
    PROVE  \E m \in S : \A k \in S : m <= k
<1>1. PICK m \in S : \A k \in S : ~(<<k, m>> \in OpToRel(<, Nat))
  BY WFMin, NatLessThanWellFounded
<1>2. \A k \in S : ~(k < m)
  BY <1>1 DEF OpToRel
<1> QED BY <1>2

\* A set of renices is finite, and without one of them smaller by one.
LEMMA Smaller ==
    ASSUME NEW S \in SUBSET Tools
    PROVE  /\ IsFiniteSet(S) /\ Cardinality(S) \in Nat
           /\ Cardinality(S) <= Cardinality(Tools)
           /\ S # {} => Pick(S) \in S
           /\ \A t \in S : Cardinality(S \ {t}) = Cardinality(S) - 1
<1>1. IsFiniteSet(S) /\ Cardinality(S) <= Cardinality(Tools)
  BY ToolsAssumption, FS_Subset
<1>2. \A t \in S : Cardinality(S \ {t}) = Cardinality(S) - 1
  BY <1>1, FS_RemoveElement
<1>3. S # {} => Pick(S) \in S
  BY DEF Pick
<1> QED BY <1>1, <1>2, <1>3, FS_CardinalityType

\* There is such a function: one for the sets of up to m renices gives one for
\* those of m + 1.
LEMMA SumExists ==
    ASSUME NEW f \in [Tools -> Nat]
    PROVE  SumsUp(SumOf(f), f)
<1> DEFINE Upto(n) == {S \in SUBSET Tools : Cardinality(S) <= n}
           Sums(g, n) == g = [S \in Upto(n) |->
               IF S = {} THEN 0 ELSE f[Pick(S)] + g[S \ {Pick(S)}]]
           Without == {n \in Nat : ~\E g : Sums(g, n)}
<1>1. Without = {}
  <2>1. SUFFICES ASSUME Without # {} PROVE FALSE
    OBVIOUS
  <2>2. PICK m \in Without : \A k \in Without : m <= k
    BY <2>1, Smallest
  <2>3. m # 0
    <3>1. \A S \in Upto(0) : S = {}
      BY Smaller, FS_EmptySet
    <3>2. Sums([S \in Upto(0) |-> 0], 0)
      BY <3>1
    <3> QED BY <3>2
  <2>4. m - 1 \in Nat /\ m - 1 \notin Without
    <3>1. Without \subseteq Nat
      OBVIOUS
    <3> HIDE DEF Without
    <3>2. m \in Nat /\ m - 1 \in Nat
      BY <2>2, <2>3, <3>1
    <3>3. ~(m <= m - 1)
      BY <3>2
    <3> QED BY <2>2, <3>2, <3>3
  <2>5. PICK g : Sums(g, m - 1)
    BY <2>4
  <2> DEFINE h == [S \in Upto(m) |->
                      IF S = {} THEN 0 ELSE f[Pick(S)] + g[S \ {Pick(S)}]]
  <2>6. ASSUME NEW S \in Upto(m), S # {}
        PROVE  h[S \ {Pick(S)}] = g[S \ {Pick(S)}]
    <3>1. S \ {Pick(S)} \in Upto(m - 1) /\ S \ {Pick(S)} \in Upto(m)
      BY <2>6, Smaller
    <3> QED BY <3>1, <2>5
  <2>7. Sums(h, m)
    BY <2>6
  <2> QED BY <2>2, <2>7
<1>2. Cardinality(Tools) \in Nat
  BY Smaller
<1>3. PICK g : Sums(g, Cardinality(Tools))
  BY <1>1, <1>2
<1>4. Upto(Cardinality(Tools)) = SUBSET Tools
  BY Smaller
<1>5. SumsUp(g, f)
  BY <1>3, <1>4 DEF SumsUp
<1> QED BY <1>5 DEF SumOf

\* Whichever renice is taken out, its part goes with it.
LEMMA SumWithout ==
    ASSUME NEW f \in [Tools -> Nat], NEW S \in SUBSET Tools
    PROVE  /\ SumOf(f)[S] \in Nat
           /\ \A t \in S : SumOf(f)[S] = f[t] + SumOf(f)[S \ {t}]
<1> DEFINE g == SumOf(f)
           Right(T) == g[T] \in Nat /\ \A t \in T : g[T] = f[t] + g[T \ {t}]
           Wrong == {n \in Nat : \E T \in SUBSET Tools : Cardinality(T) = n /\ ~Right(T)}
<1>1. \A T \in SUBSET Tools :
         g[T] = IF T = {} THEN 0 ELSE f[Pick(T)] + g[T \ {Pick(T)}]
  BY SumExists DEF SumsUp
<1>2. Wrong = {}
  <2>1. SUFFICES ASSUME Wrong # {} PROVE FALSE
    OBVIOUS
  <2>2. PICK m \in Wrong : \A k \in Wrong : m <= k
    BY <2>1, Smallest
  <2>3. PICK T \in SUBSET Tools : Cardinality(T) = m /\ ~Right(T)
    BY <2>2
  <2>4. ASSUME NEW R \in SUBSET Tools, Cardinality(R) < m PROVE Right(R)
    <3>1. Cardinality(R) \in Nat /\ m \in Nat
      BY <2>2, Smaller
    <3>2. ASSUME ~Right(R) PROVE FALSE
      <4>1. Cardinality(R) \in Wrong
        BY <3>1, <3>2
      <4> QED BY <2>2, <2>4, <3>1, <4>1
    <3> QED BY <3>2
  <2> DEFINE x == Pick(T)
  <2>5. T # {}
    <3>1. g[{}] = 0
      BY <1>1
    <3>2. Right({})
      BY <3>1
    <3> QED BY <2>3, <3>2
  <2>6. x \in T /\ g[T] = f[x] + g[T \ {x}]
    BY <1>1, <2>5, Smaller
  <2> HIDE DEF g, x, Right
  <2>7. ASSUME NEW t \in T PROVE Right(T \ {t})
    <3>1. Cardinality(T \ {t}) = m - 1 /\ m \in Nat
      BY <2>3, Smaller
    <3> QED BY <2>4, <3>1
  <2>8. \A t \in T : f[t] \in Nat
    OBVIOUS
  <2>9. g[T \ {x}] \in Nat /\ g[T] \in Nat
    <3>1. g[T \ {x}] \in Nat
      BY <2>6, <2>7 DEF Right
    <3>2. f[x] \in Nat
      BY <2>6, <2>8
    <3> QED BY <2>6, <3>1, <3>2
  <2>10. ASSUME NEW t \in T, t # x PROVE g[T] = f[t] + g[T \ {t}]
    <3> DEFINE r == (T \ {x}) \ {t}
    <3>1. r = (T \ {t}) \ {x} /\ t \in T \ {x} /\ x \in T \ {t}
      BY <2>6, <2>10
    <3>2. g[T \ {x}] = f[t] + g[r]
      BY <2>6, <2>7, <3>1 DEF Right
    <3>3. g[T \ {t}] = f[x] + g[r] /\ g[T \ {t}] \in Nat
      BY <2>7, <3>1 DEF Right
    <3>4. g[r] \in Nat
      <4>1. Cardinality(T \ {x}) = m - 1 /\ Cardinality(r) = Cardinality(T \ {x}) - 1
        BY <2>3, <2>6, <3>1, Smaller
      <4>2. Cardinality(r) < m /\ r \in SUBSET Tools
        BY <2>2, <4>1
      <4> HIDE DEF r
      <4> QED BY <2>4, <4>2 DEF Right
    <3> HIDE DEF r
    <3> QED BY <2>6, <2>8, <3>2, <3>3, <3>4
  <2> QED BY <2>3, <2>6, <2>9, <2>10 DEF Right
<1>3. Cardinality(S) \in Nat
  BY Smaller
<1> QED BY <1>2, <1>3

-----------------------------------------------------------------------------
(* The increments.                                                         *)

\* What each renice may add, and take away.
Upwards == [t \in Tools |-> IF cmd[t].n.bad THEN 0 ELSE Up(cmd[t])]
Downwards == [t \in Tools |-> IF cmd[t].n.bad THEN 0 ELSE Down(cmd[t])]

\* The sums that WithinIncrements speaks of are these over all renices.
LEMMA TotalUpwards ==
    ASSUME Upwards \in [Tools -> Nat]
    PROVE  MapThenSumSet(LAMBDA t : IF cmd[t].n.bad THEN 0 ELSE Up(cmd[t]), Tools)
             = SumOf(Upwards)[Tools]
<1> DEFINE Iter(g) ==
        g = [S \in SUBSET Tools |->
               IF S = {} THEN 0
               ELSE LET t == CHOOSE u \in S : TRUE
                    IN  (IF cmd[t].n.bad THEN 0 ELSE Up(cmd[t])) + g[S \ {t}]]
<1>1. MapThenSumSet(LAMBDA t : IF cmd[t].n.bad THEN 0 ELSE Up(cmd[t]), Tools)
        = (CHOOSE g : Iter(g))[Tools]
  BY DEF MapThenSumSet, MapThenFoldSet
<1>2. ASSUME NEW g PROVE SumsUp(g, Upwards) <=> Iter(g)
  <2>1. \A S \in SUBSET Tools :
           S # {} => Upwards[Pick(S)] = IF cmd[Pick(S)].n.bad THEN 0 ELSE Up(cmd[Pick(S)])
    BY DEF Upwards, Pick
  <2>2. [S \in SUBSET Tools |-> IF S = {} THEN 0 ELSE Upwards[Pick(S)] + g[S \ {Pick(S)}]]
        = [S \in SUBSET Tools |->
             IF S = {} THEN 0
             ELSE (IF cmd[Pick(S)].n.bad THEN 0 ELSE Up(cmd[Pick(S)])) + g[S \ {Pick(S)}]]
    BY <2>1
  <2> QED BY <2>2 DEF SumsUp, Pick
<1> HIDE DEF Iter
<1>3. (CHOOSE g : Iter(g)) = CHOOSE g : SumsUp(g, Upwards)
  BY <1>2
<1> QED BY <1>1, <1>3 DEF SumOf

\* The same downwards.
LEMMA TotalDownwards ==
    ASSUME Downwards \in [Tools -> Nat]
    PROVE  MapThenSumSet(LAMBDA t : IF cmd[t].n.bad THEN 0 ELSE Down(cmd[t]), Tools)
             = SumOf(Downwards)[Tools]
<1> DEFINE Iter(g) ==
        g = [S \in SUBSET Tools |->
               IF S = {} THEN 0
               ELSE LET t == CHOOSE u \in S : TRUE
                    IN  (IF cmd[t].n.bad THEN 0 ELSE Down(cmd[t])) + g[S \ {t}]]
<1>1. MapThenSumSet(LAMBDA t : IF cmd[t].n.bad THEN 0 ELSE Down(cmd[t]), Tools)
        = (CHOOSE g : Iter(g))[Tools]
  BY DEF MapThenSumSet, MapThenFoldSet
<1>2. ASSUME NEW g PROVE SumsUp(g, Downwards) <=> Iter(g)
  <2>1. \A S \in SUBSET Tools :
           S # {} => Downwards[Pick(S)] = IF cmd[Pick(S)].n.bad THEN 0 ELSE Down(cmd[Pick(S)])
    BY DEF Downwards, Pick
  <2>2. [S \in SUBSET Tools |-> IF S = {} THEN 0 ELSE Downwards[Pick(S)] + g[S \ {Pick(S)}]]
        = [S \in SUBSET Tools |->
             IF S = {} THEN 0
             ELSE (IF cmd[Pick(S)].n.bad THEN 0 ELSE Down(cmd[Pick(S)])) + g[S \ {Pick(S)}]]
    BY <2>1
  <2> QED BY <2>2 DEF SumsUp, Pick
<1> HIDE DEF Iter
<1>3. (CHOOSE g : Iter(g)) = CHOOSE g : SumsUp(g, Downwards)
  BY <1>2
<1> QED BY <1>1, <1>3 DEF SumOf

\* An increment is a number, and what may be added or taken away at most.
LEMMA IncrementFacts ==
    ASSUME NEW c \in Command
    PROVE  /\ Increment(c) \in Int /\ Up(c) \in Nat /\ Down(c) \in Nat
           /\ c.n.bad => Increment(c) = 0
           /\ Increment(c) <= Up(c) /\ -Increment(c) <= Down(c)
<1>1. c.n.bad \/ c.n.value \in Increments
  BY DEF Command
<1>2. Increment(c) \in Int
  <2>1. \A v \in Increments : v \in Int
    BY IncrementsAssumption, NiceAssumption
  <2> QED BY <1>1, <2>1 DEF Increment
<1>3. c.n.bad => Increment(c) = 0
  BY DEF Increment
<1> QED BY <1>2, <1>3 DEF Up, Down

\* So the increments have sums.
LEMMA StepsFacts ==
    ASSUME TypeOK
    PROVE  /\ Upwards \in [Tools -> Nat] /\ Downwards \in [Tools -> Nat]
           /\ \A t \in Tools : /\ Increment(cmd[t]) \in Int
                              /\ Increment(cmd[t]) <= Upwards[t]
                              /\ -Increment(cmd[t]) <= Downwards[t]
<1>1. \A t \in Tools : cmd[t] \in Command
  BY DEF TypeOK
<1>2. ASSUME NEW t \in Tools
      PROVE  /\ Upwards[t] \in Nat /\ Downwards[t] \in Nat
             /\ Increment(cmd[t]) \in Int
             /\ Increment(cmd[t]) <= Upwards[t]
             /\ -Increment(cmd[t]) <= Downwards[t]
  BY <1>1, IncrementFacts DEF Upwards, Downwards
<1> QED BY <1>2 DEF Upwards, Downwards

-----------------------------------------------------------------------------
(* The invariant.                                                          *)

Going == {t \in Tools : pc[t] # "ended"}

\* What the renices that have ended may have added and taken away together.
Raised == SumOf(Upwards)[Tools] - SumOf(Upwards)[Going]
Lowered == SumOf(Downwards)[Tools] - SumOf(Downwards)[Going]

Within(n) == /\ \E q \in Targets : n <= InitNice[q] + Raised
             /\ \E q \in Targets : n >= InitNice[q] - Lowered

\* What a process has, and what a renice has been told and is about to add to,
\* counts the increments of those that have ended and of no others: in
\* particular not yet that of the renice itself.
Bounded ==
    /\ Raised \in Nat /\ Lowered \in Nat
    /\ \A p \in Targets : Within(nice[p])
    /\ \A t \in Tools : pc[t] = "set" => prio[t] \in Niceness /\ Within(prio[t])

Inv == TypeOK /\ (NoOverflow => Bounded)

\* Whoever has named something is about processes that there are.
LEMMA WhoFacts ==
    ASSUME NEW c \in Command, Given(c) # {}
    PROVE  Who(c) \in SUBSET Targets
<1>1. Which(c) \in Entities /\ c.id[Which(c)] # "none"
  BY DEF Which, Given, Entities
<1>2. c.id[Which(c)] \in Ids \union {"bad"}
  BY <1>1 DEF Command
<1> QED BY <1>1, <1>2, MembersAssumption DEF Who

\* The lowest niceness of some processes is that of one of them.
LEMMA LowestFacts ==
    ASSUME TypeOK, NEW P \in SUBSET Targets, P # {}
    PROVE  \E p \in P : Lowest(P) = nice[p]
<1> DEFINE Above == {n \in Nat : \E p \in P : n = nice[p] - NiceMin}
<1>1. \A p \in P : nice[p] \in Int /\ nice[p] - NiceMin \in Nat
  BY NiceAssumption DEF TypeOK, Niceness
<1>2. Above \subseteq Nat /\ Above # {}
  BY <1>1
<1>3. PICK m \in Above : \A k \in Above : m <= k
  BY <1>2, Smallest
<1>4. PICK p \in P : m = nice[p] - NiceMin
  BY <1>3
<1>5. ASSUME NEW q \in P PROVE nice[p] <= nice[q]
  BY <1>1, <1>3, <1>4, NiceAssumption
<1>6. \E v \in {nice[q] : q \in P} : \A q \in P : v <= nice[q]
  BY <1>5
<1> QED BY <1>6 DEF Lowest

\* A niceness that is set is one.
LEMMA ConfinedFacts ==
    ASSUME NEW n \in Int
    PROVE  /\ Wrapped(n) \in Int
           /\ Confined(n) \in Niceness
           /\ n \in -Half..(Half - 1) => Wrapped(n) = n
           /\ Confined(n) <= n \/ Confined(n) = NiceMin
           /\ Confined(n) >= n \/ Confined(n) = NiceMax
<1>1. Wrapped(n) \in Int
  BY NiceAssumption DEF Wrapped
<1>2. n \in -Half..(Half - 1) => Wrapped(n) = n
  BY NiceAssumption DEF Wrapped
<1>3. /\ Confined(n) \in Niceness
      /\ Confined(n) <= n \/ Confined(n) = NiceMin
      /\ Confined(n) >= n \/ Confined(n) = NiceMax
  BY NiceAssumption DEF Confined, Niceness
<1> QED BY <1>1, <1>2, <1>3

-----------------------------------------------------------------------------
(* The steps.                                                              *)

\* At first nobody has ended and nothing was added.
LEMMA InitInv == Init => Inv
<1> SUFFICES ASSUME Init PROVE Inv
  OBVIOUS
<1>1. TypeOK
  BY NiceAssumption DEF Init, TypeOK
<1>2. Going = Tools
  BY DEF Init, Going
<1>3. SumOf(Upwards)[Tools] \in Nat /\ SumOf(Downwards)[Tools] \in Nat
  BY <1>1, StepsFacts, SumWithout
<1>4. Raised = 0 /\ Lowered = 0
  BY <1>2, <1>3 DEF Raised, Lowered
<1>5. ASSUME NEW p \in Targets PROVE Within(nice[p])
  <2>1. nice[p] = InitNice[p] /\ InitNice[p] \in Int
    BY NiceAssumption DEF Init, Niceness
  <2> QED BY <1>4, <2>1 DEF Within
<1>6. \A t \in Tools : pc[t] # "set"
  BY DEF Init
<1> QED BY <1>1, <1>4, <1>5, <1>6 DEF Inv, Bounded

\* When a renice ends, its increment begins to count.
LEMMA Ending ==
    ASSUME TypeOK, cmd' = cmd, NEW t \in Tools, pc[t] # "ended",
           pc' = [pc EXCEPT ![t] = "ended"], Raised \in Nat, Lowered \in Nat
    PROVE  /\ Raised' = Raised + Upwards[t] /\ Raised' \in Nat
           /\ Lowered' = Lowered + Downwards[t] /\ Lowered' \in Nat
<1>1. Going' = Going \ {t} /\ t \in Going /\ Going \in SUBSET Tools
  BY DEF Going, TypeOK
<1>2. Upwards' = Upwards /\ Downwards' = Downwards
  BY DEF Upwards, Downwards
<1>3. Raised' = SumOf(Upwards)[Tools] - SumOf(Upwards)[Going \ {t}]
  BY <1>1, <1>2 DEF Raised
<1>4. Lowered' = SumOf(Downwards)[Tools] - SumOf(Downwards)[Going \ {t}]
  BY <1>1, <1>2 DEF Lowered
<1>5. ASSUME NEW f \in [Tools -> Nat]
      PROVE  /\ SumOf(f)[Tools] \in Nat /\ SumOf(f)[Going] \in Nat
             /\ SumOf(f)[Going \ {t}] \in Nat
             /\ SumOf(f)[Going] = f[t] + SumOf(f)[Going \ {t}]
  BY <1>1, SumWithout
<1>6. /\ Upwards \in [Tools -> Nat] /\ Downwards \in [Tools -> Nat]
      /\ Upwards[t] \in Nat /\ Downwards[t] \in Nat
  BY StepsFacts
<1>7. Raised' = Raised + Upwards[t]
  <2>1. /\ SumOf(Upwards)[Tools] \in Nat /\ SumOf(Upwards)[Going \ {t}] \in Nat
        /\ SumOf(Upwards)[Going] = Upwards[t] + SumOf(Upwards)[Going \ {t}]
    BY <1>5, <1>6
  <2> DEFINE all == SumOf(Upwards)[Tools]
             rest == SumOf(Upwards)[Going \ {t}]
  <2>2. Raised' = all - rest /\ Raised = all - (Upwards[t] + rest)
    BY <1>3, <2>1 DEF Raised
  <2>3. all \in Nat /\ rest \in Nat
    BY <2>1
  <2> HIDE DEF all, rest
  <2> QED BY <1>6, <2>2, <2>3
<1>8. Lowered' = Lowered + Downwards[t]
  <2>1. /\ SumOf(Downwards)[Tools] \in Nat /\ SumOf(Downwards)[Going \ {t}] \in Nat
        /\ SumOf(Downwards)[Going] = Downwards[t] + SumOf(Downwards)[Going \ {t}]
    BY <1>5, <1>6
  <2> DEFINE all == SumOf(Downwards)[Tools]
             rest == SumOf(Downwards)[Going \ {t}]
  <2>2. Lowered' = all - rest /\ Lowered = all - (Downwards[t] + rest)
    BY <1>4, <2>1 DEF Lowered
  <2>3. all \in Nat /\ rest \in Nat
    BY <2>1
  <2> HIDE DEF all, rest
  <2> QED BY <1>6, <2>2, <2>3
<1> QED BY <1>6, <1>7, <1>8

\* As long as it goes on, nothing changes in that.
LEMMA GoingOn ==
    ASSUME TypeOK, cmd' = cmd, NEW t \in Tools, pc[t] # "ended",
           NEW where, where # "ended", pc' = [pc EXCEPT ![t] = where],
           Raised \in Nat, Lowered \in Nat
    PROVE  Raised' = Raised + 0 /\ Lowered' = Lowered + 0
<1>1. Going' = Going
  BY DEF TypeOK, Going
<1>2. Upwards' = Upwards /\ Downwards' = Downwards
  BY DEF Upwards, Downwards
<1>3. Raised' = Raised /\ Lowered' = Lowered
  BY <1>1, <1>2 DEF Raised, Lowered
<1> QED BY <1>3

\* Within the increments when u and d more of them count.
WithinMore(n, u, d) ==
    /\ \E q \in Targets : n <= InitNice[q] + (Raised + u)
    /\ \E q \in Targets : n >= InitNice[q] - (Lowered + d)

\* What lay within the increments still does when more of them count.
LEMMA StillWithin ==
    ASSUME NEW n \in Int, Within(n), NEW u \in Nat, NEW d \in Nat,
           Raised \in Nat, Lowered \in Nat
    PROVE  WithinMore(n, u, d)
<1>1. \A q \in Targets : InitNice[q] \in Int
  BY NiceAssumption DEF Niceness
<1> QED BY <1>1 DEF Within, WithinMore

\* A niceness that is read and written with the increment counts it once.
LEMMA WrittenWithin ==
    ASSUME NEW n \in Niceness, Within(n), Raised \in Nat, Lowered \in Nat,
           NEW k \in Int, NEW u \in Nat, NEW d \in Nat, k <= u, -k <= d,
           NiceMin + k >= -Half, NiceMax + k < Half
    PROVE  WithinMore(Confined(Wrapped(n + k)), u, d)
<1>1. n \in Int /\ NiceMin <= n /\ n <= NiceMax
  BY NiceAssumption DEF Niceness
<1>2. n + k \in -Half..(Half - 1)
  BY <1>1, NiceAssumption
<1>3. Wrapped(n + k) = n + k
  BY <1>2, ConfinedFacts
<1> DEFINE c == Confined(Wrapped(n + k))
<1>4. /\ c \in Niceness
      /\ c <= n + k \/ c = NiceMin
      /\ c >= n + k \/ c = NiceMax
  BY <1>2, <1>3, ConfinedFacts
<1> HIDE DEF c
<1>5. \A q \in Targets : InitNice[q] \in Int /\ NiceMin <= InitNice[q] /\ InitNice[q] <= NiceMax
  BY NiceAssumption DEF Niceness
<1>6. c \in Int /\ NiceMin \in Int /\ NiceMax \in Int
  BY <1>4, NiceAssumption DEF Niceness
<1>7. PICK q \in Targets : n <= InitNice[q] + Raised
  BY DEF Within
<1>8. c <= InitNice[q] + (Raised + u)
  BY <1>1, <1>4, <1>5, <1>6, <1>7
<1>9. PICK r \in Targets : n >= InitNice[r] - Lowered
  BY DEF Within
<1>10. c >= InitNice[r] - (Lowered + d)
  BY <1>1, <1>4, <1>5, <1>6, <1>9
<1> QED BY <1>8, <1>10 DEF c, WithinMore

\* A step keeps Bounded if what it changes is within what counts after it.
LEMMA StillBounded ==
    ASSUME TypeOK, Bounded, NEW u \in Nat, NEW d \in Nat,
           Raised' = Raised + u, Lowered' = Lowered + d,
           \A p \in Targets : nice'[p] = nice[p] \/ WithinMore(nice'[p], u, d),
           \A t \in Tools : pc'[t] = "set" =>
               \/ pc[t] = "set" /\ prio'[t] = prio[t]
               \/ prio'[t] \in Niceness /\ WithinMore(prio'[t], u, d)
    PROVE  Bounded'
<1>1. Raised \in Nat /\ Lowered \in Nat /\ Niceness \subseteq Int
  BY NiceAssumption DEF Bounded, Niceness
<1>2. Raised' \in Nat /\ Lowered' \in Nat
  BY <1>1
<1>3. \A p \in Targets : WithinMore(nice'[p], u, d)
  <2> TAKE p \in Targets
  <2>1. nice[p] \in Int /\ Within(nice[p])
    BY <1>1 DEF TypeOK, Bounded
  <2>2. WithinMore(nice[p], u, d)
    BY <1>1, <2>1, StillWithin
  <2> QED BY <2>2
<1>4. \A t \in Tools : pc'[t] = "set" =>
         prio'[t] \in Niceness /\ WithinMore(prio'[t], u, d)
  <2> SUFFICES ASSUME NEW t \in Tools, pc[t] = "set"
               PROVE  prio[t] \in Niceness /\ WithinMore(prio[t], u, d)
    OBVIOUS
  <2>1. prio[t] \in Niceness /\ prio[t] \in Int /\ Within(prio[t])
    BY <1>1 DEF Bounded
  <2> QED BY <1>1, <2>1, StillWithin
<1>5. ASSUME NEW n, WithinMore(n, u, d)
      PROVE  /\ \E q \in Targets : n <= InitNice[q] + Raised'
             /\ \E q \in Targets : n >= InitNice[q] - Lowered'
  BY <1>5 DEF WithinMore
<1> QED BY <1>2, <1>3, <1>4, <1>5 DEF Bounded, Within

\* A command line names no one, or is refused, or is asked about.
LEMMA StepStart ==
    ASSUME Inv, NEW t \in Tools, Start(t)
    PROVE  Inv'
<1>1. TypeOK'
  BY DEF Inv, TypeOK, Start, Misused, End
<1>2. NoOverflow' = NoOverflow
  BY DEF Start, NoOverflow
<1>3. ASSUME NoOverflow PROVE Bounded'
  <2>1. nice' = nice /\ prio' = prio /\ cmd' = cmd /\ pc[t] = "options"
    BY DEF Start
  <2>2. \A s \in Tools : pc'[s] = "set" => pc[s] = "set"
    BY DEF Inv, TypeOK, Start, End
  <2>3. PICK u \in Nat, d \in Nat : Raised' = Raised + u /\ Lowered' = Lowered + d
    <3>1. CASE pc' = [pc EXCEPT ![t] = "ended"]
      BY <2>1, <3>1, <1>3, Ending, StepsFacts DEF Inv, Bounded
    <3>2. CASE pc' = [pc EXCEPT ![t] = "get"]
      BY <2>1, <3>2, <1>3, GoingOn DEF Inv, Bounded
    <3> QED BY <3>1, <3>2 DEF Start, End
  <2> QED BY <1>3, <2>1, <2>2, <2>3, StillBounded DEF Inv
<1> QED BY <1>1, <1>2, <1>3 DEF Inv

\* What getpriority() tells is what a process has.
LEMMA StepGet ==
    ASSUME Inv, NEW t \in Tools, Get(t)
    PROVE  Inv'
<1>1. nice' = nice /\ cmd' = cmd /\ pc[t] = "get"
  BY DEF Get
<1>2. NoOverflow' = NoOverflow
  BY <1>1 DEF NoOverflow
<1>3. CASE End(t, 1) /\ UNCHANGED prio
  <2>1. TypeOK'
    BY <1>1, <1>3 DEF Inv, TypeOK, End
  <2>2. ASSUME NoOverflow PROVE Bounded'
    <3>1. pc' = [pc EXCEPT ![t] = "ended"] /\ prio' = prio
      BY <1>3 DEF End
    <3>2. \A s \in Tools : pc'[s] = "set" => pc[s] = "set"
      BY <3>1 DEF Inv, TypeOK
    <3>3. PICK u \in Nat, d \in Nat : Raised' = Raised + u /\ Lowered' = Lowered + d
      BY <1>1, <2>2, <3>1, Ending, StepsFacts DEF Inv, Bounded
    <3> QED BY <1>1, <2>2, <3>1, <3>2, <3>3, StillBounded DEF Inv
  <2> QED BY <1>2, <2>1, <2>2 DEF Inv
<1>4. CASE /\ Who(cmd[t]) # {}
           /\ prio' = [prio EXCEPT ![t] = Lowest(Who(cmd[t]))]
           /\ pc' = [pc EXCEPT ![t] = "set"]
           /\ UNCHANGED exit
  <2>1. Who(cmd[t]) \in SUBSET Targets
    BY <1>1, WhoFacts DEF Inv, TypeOK
  <2>2. PICK p \in Targets : Lowest(Who(cmd[t])) = nice[p]
    BY <1>4, <2>1, LowestFacts DEF Inv
  <2>3. nice[p] \in Niceness
    BY DEF Inv, TypeOK
  <2>4. TypeOK'
    BY <1>1, <1>4, <2>2, <2>3 DEF Inv, TypeOK
  <2>5. ASSUME NoOverflow PROVE Bounded'
    <3>1. Raised' = Raised + 0 /\ Lowered' = Lowered + 0
      BY <1>1, <1>4, <2>5, GoingOn DEF Inv, Bounded
    <3>2. WithinMore(nice[p], 0, 0)
      <4>1. nice[p] \in Int /\ Within(nice[p]) /\ Raised \in Nat /\ Lowered \in Nat
        BY <2>3, <2>5, NiceAssumption DEF Inv, Bounded, Niceness
      <4> QED BY <4>1, StillWithin
    <3>3. \A s \in Tools : pc'[s] = "set" =>
             \/ pc[s] = "set" /\ prio'[s] = prio[s]
             \/ prio'[s] \in Niceness /\ WithinMore(prio'[s], 0, 0)
      BY <1>4, <2>2, <2>3, <3>2 DEF Inv, TypeOK
    <3> QED BY <1>1, <2>5, <3>1, <3>3, StillBounded DEF Inv
  <2> QED BY <1>2, <2>4, <2>5 DEF Inv
<1> QED BY <1>3, <1>4 DEF Get

\* What setpriority() sets, whether or not it reaches everyone, is what was
\* told and the increment, which counts from now on.
LEMMA StepSet ==
    ASSUME Inv, NEW t \in Tools, Set(t)
    PROVE  Inv'
<1> DEFINE k == Increment(cmd[t])
<1>1. PICK P \in SUBSET Who(cmd[t]) :
         nice' = [p \in Targets |-> IF p \in P THEN Confined(Wrapped(prio[t] + k)) ELSE nice[p]]
  BY DEF Set
<1>2. pc[t] = "set" /\ cmd' = cmd /\ prio' = prio
  BY DEF Set
<1>3. \E status \in {0, 1} : End(t, status)
  BY DEF Set, Incomplete
<1>4. pc' = [pc EXCEPT ![t] = "ended"]
  BY <1>3 DEF End
<1>5. k \in Int
  BY StepsFacts DEF Inv
<1> HIDE DEF k
<1>6. TypeOK'
  <2>1. prio[t] + k \in Int
    BY <1>5, NiceAssumption DEF Inv, TypeOK, Niceness
  <2>2. Confined(Wrapped(prio[t] + k)) \in Niceness
    BY <2>1, ConfinedFacts
  <2>3. nice' \in [Targets -> Niceness]
    BY <1>1, <2>2 DEF Inv, TypeOK
  <2> QED BY <1>2, <1>3, <2>3 DEF Inv, TypeOK, End
<1>7. NoOverflow' = NoOverflow
  BY <1>2 DEF NoOverflow
<1>8. ASSUME NoOverflow PROVE Bounded'
  <2> DEFINE u == Upwards[t]
             d == Downwards[t]
  <2>1. u \in Nat /\ d \in Nat /\ k <= u /\ -k <= d
    BY StepsFacts DEF Inv, k
  <2>2. Raised \in Nat /\ Lowered \in Nat /\ prio[t] \in Niceness /\ Within(prio[t])
    BY <1>2, <1>8 DEF Inv, Bounded
  <2>3. Raised' = Raised + u /\ Lowered' = Lowered + d
    BY <1>2, <1>4, <2>2, Ending DEF Inv
  <2> HIDE DEF u, d
  <2>4. NiceMin + k >= -Half /\ NiceMax + k < Half
    BY <1>8 DEF NoOverflow, k
  <2>5. WithinMore(Confined(Wrapped(prio[t] + k)), u, d)
    BY <1>5, <2>1, <2>2, <2>4, WrittenWithin
  <2>6. \A p \in Targets : nice'[p] = nice[p] \/ WithinMore(nice'[p], u, d)
    BY <1>1, <2>5
  <2>7. \A s \in Tools : pc'[s] = "set" => pc[s] = "set"
    BY <1>4 DEF Inv, TypeOK
  <2> QED BY <1>2, <1>8, <2>1, <2>3, <2>6, <2>7, StillBounded DEF Inv
<1> QED BY <1>6, <1>7, <1>8 DEF Inv

\* When nothing changes, neither do the sums.
LEMMA Stutter == Inv /\ UNCHANGED vars => Inv'
<1> SUFFICES ASSUME Inv, UNCHANGED vars PROVE Inv'
  OBVIOUS
<1> USE DEF vars
<1>1. TypeOK' /\ NoOverflow' = NoOverflow
  BY DEF Inv, TypeOK, NoOverflow
<1>2. Upwards' = Upwards /\ Downwards' = Downwards /\ Going' = Going
  BY DEF Upwards, Downwards, Going
<1>3. Raised' = Raised /\ Lowered' = Lowered
  BY <1>2 DEF Raised, Lowered
<1>4. Bounded => Bounded'
  BY <1>3 DEF Bounded, Within
<1> QED BY <1>1, <1>4 DEF Inv

\* So the invariant always holds.
LEMMA InvHolds == Spec => []Inv
<1>1. Inv /\ [Next]_vars => Inv'
  BY StepStart, StepGet, StepSet, Stutter DEF Next
<1> QED BY <1>1, InitInv, PTL DEF Spec

-----------------------------------------------------------------------------

\* Every variable of Renice stays in its range: a niceness that is read or set,
\* also where the sum of renice.c:104 overflows.
THEOREM TypeCorrect == Spec => []TypeOK
<1>1. Inv => TypeOK
  BY DEF Inv
<1> QED BY <1>1, InvHolds, PTL

\* However many renices run, and however getpriority() and setpriority() of one
\* lie between those of others (renice.c:99-109): no increment is counted
\* twice.
THEOREM IncrementsCountOnce == Spec => []WithinIncrements
<1>1. Inv => WithinIncrements
  <2> SUFFICES ASSUME Inv, NoOverflow, NEW p \in Targets
               PROVE  /\ \E q \in Targets : nice[p] <= InitNice[q] + SumOf(Upwards)[Tools]
                      /\ \E q \in Targets : nice[p] >= InitNice[q] - SumOf(Downwards)[Tools]
    BY StepsFacts, TotalUpwards, TotalDownwards DEF WithinIncrements, Inv
  <2>1. Upwards \in [Tools -> Nat] /\ Downwards \in [Tools -> Nat] /\ Going \in SUBSET Tools
    BY StepsFacts DEF Inv, Going
  <2> DEFINE up == SumOf(Upwards)[Tools]
             upGoing == SumOf(Upwards)[Going]
             down == SumOf(Downwards)[Tools]
             downGoing == SumOf(Downwards)[Going]
  <2>2. up \in Nat /\ upGoing \in Nat /\ down \in Nat /\ downGoing \in Nat
    BY <2>1, SumWithout
  <2>3. Raised = up - upGoing /\ Lowered = down - downGoing
    BY DEF Raised, Lowered
  <2> HIDE DEF up, upGoing, down, downGoing
  <2>4. Within(nice[p]) /\ nice[p] \in Int /\ \A q \in Targets : InitNice[q] \in Int
    BY NiceAssumption DEF Inv, Bounded, TypeOK, Niceness
  <2>5. PICK q \in Targets : nice[p] <= InitNice[q] + Raised
    BY <2>4 DEF Within
  <2>6. PICK r \in Targets : nice[p] >= InitNice[r] - Lowered
    BY <2>4 DEF Within
  <2>7. nice[p] <= InitNice[q] + up /\ nice[p] >= InitNice[r] - down
    BY <2>2, <2>3, <2>4, <2>5, <2>6
  <2> QED BY <2>7 DEF up, down
<1> QED BY <1>1, InvHolds, PTL

-----------------------------------------------------------------------------
(* Powerd.                                                                 *)

\* The loop stays within the entries, a command is that of the entry it
\* stands at, and, unless an entry was never set, every entry is a button
\* that is waited for.
Polling ==
    /\ DOMAIN polled \in {1..1, 1..2}
    /\ at = "system" =>
          /\ i \in DOMAIN polled
          /\ polled[i].ready
          /\ command = CommandFor(polled[i].fd)
    /\ present # {"power"} =>
          \A k \in DOMAIN polled :
             /\ polled[k].fd \in Buttons /\ polled[k].in
             /\ answered /\ polled[k].ready => polled[k].fd \in seen

Answers == PdTypeOK /\ Polling

-----------------------------------------------------------------------------

\* A sequence of entries is a function on the first numbers.
LEMMA PolledIsSequence ==
    ASSUME NEW n \in {1, 2}, NEW q \in [1..n -> Garbage]
    PROVE  q \in Seq(Garbage) /\ Len(q) = n /\ DOMAIN q = 1..n
  OBVIOUS

\* At first nothing is polled.
LEMMA AnswersInit == PdInit => Answers
<1> SUFFICES ASSUME PdInit PROVE Answers
  OBVIOUS
<1>1. Buttons # {} /\ Buttons # {"power"}
  BY DEF Buttons
<1>2. ASSUME NEW b \in Buttons, NEW e \in Entry(b)
      PROVE  e \in Garbage /\ e.fd = b /\ e.in
  <2>1. PICK r \in BOOLEAN : e = [fd |-> b, in |-> TRUE, ready |-> r]
    BY DEF Entry
  <2>2. b \in Descriptors
    BY DEF Descriptors
  <2> QED BY <2>1, <2>2 DEF Garbage
<1>a. ASSUME polled \in Seq(Garbage), Len(polled) <= 2
      PROVE  PdTypeOK
  <2>1. at = "start" /\ i = 1 /\ command = "none" /\ polled \in Seq(Garbage) /\ Len(polled) <= 2
    BY <1>a DEF PdInit
  <2>2. present \subseteq Buttons /\ pressed \subseteq present /\ seen \subseteq present
    BY DEF PdInit
  <2>3. answered \in BOOLEAN
    BY DEF PdInit
  <2> QED BY <2>1, <2>2, <2>3 DEF PdTypeOK
<1>3. CASE present = Buttons
  <2>1. PICK p \in Entry("power"), s \in Entry("sleep") : polled = <<p, s>>
    <3>1. polled \in Polled(present)
      BY DEF PdInit
    <3>2. polled \in Entry("power") \X Entry("sleep")
      BY <3>1, <1>1, <1>3 DEF Polled
    <3> QED BY <3>2
  <2>2. p \in Garbage /\ s \in Garbage /\ p.fd \in Buttons /\ s.fd \in Buttons /\ p.in /\ s.in
    BY <1>2, <2>1 DEF Buttons
  <2>3. polled \in Seq(Garbage) /\ Len(polled) = 2 /\ DOMAIN polled = 1..2
    BY <2>1, <2>2
  <2>4. PdTypeOK
    BY <1>a, <2>3
  <2>5. \A k \in 1..2 : polled[k] = p \/ polled[k] = s
    BY <2>1
  <2> QED BY <2>2, <2>3, <2>4, <2>5 DEF PdInit, Answers, Polling
<1>4. CASE present = {"power"}
  <2>1. PICK p \in Entry("power"), g \in Garbage : polled = <<p, g>>
    <3>1. polled \in Polled(present)
      BY DEF PdInit
    <3> QED BY <3>1, <1>4, <1>1 DEF Polled
  <2>2. p \in Garbage
    BY <1>2 DEF Buttons
  <2>3. polled \in Seq(Garbage) /\ Len(polled) = 2 /\ DOMAIN polled = 1..2
    BY <2>1, <2>2
  <2>4. PdTypeOK
    BY <1>a, <2>3
  <2> QED BY <1>4, <2>3, <2>4 DEF PdInit, Answers, Polling
<1>5. CASE present \notin {Buttons, {"power"}}
  <2>1. PICK s \in Entry("sleep") : polled = <<s>>
    <3>1. polled \in Polled(present)
      BY DEF PdInit
    <3> QED BY <3>1, <1>5 DEF Polled
  <2>2. s \in Garbage /\ s.fd \in Buttons /\ s.in
    BY <1>2 DEF Buttons
  <2>3. polled \in Seq(Garbage) /\ Len(polled) = 1 /\ DOMAIN polled = 1..1
    BY <2>1, <2>2
  <2>4. PdTypeOK
    BY <1>a, <2>3
  <2>5. \A k \in 1..1 : polled[k] = s
    BY <2>1
  <2> QED BY <2>2, <2>3, <2>4, <2>5 DEF PdInit, Answers, Polling
<1> QED BY <1>3, <1>4, <1>5

\* Every step of powerd, of the buttons and of poll() keeps the invariant.
LEMMA AnswersStep == Answers /\ [PdNext]_pdVars => Answers'
<1> SUFFICES ASSUME Answers, [PdNext]_pdVars PROVE Answers'
  OBVIOUS
<1> USE DEF Answers, PdTypeOK
<1>1. CASE Press
  BY <1>1 DEF Press, Polling
<1>2. CASE Release
  BY <1>2 DEF Release, Polling
<1>3. CASE Daemonize
  BY <1>3 DEF Daemonize, Polling
<1>4. CASE PollOk
  <2>1. PICK n \in {1, 2} : DOMAIN polled = 1..n /\ polled \in [1..n -> Garbage]
    BY DEF Polling
  <2>2. \A k \in 1..n :
           [polled[k] EXCEPT !.ready = Ready(polled[k])]
             = [fd |-> polled[k].fd, in |-> polled[k].in, ready |-> Ready(polled[k])]
    BY <2>1 DEF Garbage
  <2>3. polled' = [k \in 1..n |->
           [fd |-> polled[k].fd, in |-> polled[k].in, ready |-> Ready(polled[k])]]
    BY <1>4, <2>1, <2>2 DEF PollOk
  <2>4. \A k \in 1..n : Ready(polled[k]) \in BOOLEAN
    BY <2>1 DEF Ready, Garbage
  <2>5. polled' \in [1..n -> Garbage]
    BY <2>1, <2>3, <2>4 DEF Garbage
  <2>6. polled' \in Seq(Garbage) /\ Len(polled') <= 2 /\ DOMAIN polled' = 1..n
    BY <2>5, PolledIsSequence
  <2>7. PdTypeOK'
    BY <1>4, <2>6 DEF PollOk
  <2>8. present # {"power"} =>
           \A k \in 1..n : /\ polled'[k].fd \in Buttons /\ polled'[k].in
                           /\ polled'[k].ready => polled'[k].fd \in pressed
    BY <2>1, <2>3 DEF Polling, Ready, Buttons
  <2>9. at' = "look" /\ present' = present /\ seen' = pressed
    BY <1>4 DEF PollOk
  <2>10. Polling'
    BY <2>1, <2>6, <2>8, <2>9 DEF Polling
  <2> QED BY <2>7, <2>10
<1>5. CASE PollFails
  BY <1>5 DEF PollFails, Polling
<1>6. CASE Look
  <2>1. CASE Past
    BY <1>6, <2>1 DEF Look, Polling
  <2>2. CASE ~Past
    <3>1. i \in DOMAIN polled /\ i <= 2
      BY <2>2 DEF Past, Polling
    <3>2. CASE polled[i].ready
      <4>1. at' = "system" /\ command' = CommandFor(polled[i].fd)
            /\ UNCHANGED <<i, present, pressed, polled, answered, seen>>
        BY <1>6, <2>2, <3>2 DEF Look, CommandOf, CommandFor
      <4>2. command' \in {"shutdown", "reboot"}
        BY <4>1 DEF CommandFor
      <4> QED BY <3>1, <3>2, <4>1, <4>2 DEF Polling
    <3>3. CASE ~polled[i].ready
      BY <1>6, <2>2, <3>1, <3>3 DEF Look, Polling
    <3> QED BY <3>2, <3>3
  <2> QED BY <2>1, <2>2
<1>7. CASE Return
  BY <1>7 DEF Return, Polling
<1>8. CASE UNCHANGED pdVars
  BY <1>8 DEF pdVars, Polling
<1> QED BY <1>1, <1>2, <1>3, <1>4, <1>5, <1>6, <1>7, <1>8 DEF PdNext, Own

\* So it always holds.
LEMMA AnswersHold == PdSpec => []Answers
  BY AnswersInit, AnswersStep, PTL DEF PdSpec

-----------------------------------------------------------------------------

\* Every variable of Powerd stays in its range: in particular the loop of
\* powerd.c:83 never looks further than one entry past the second.
THEOREM PowerdTypeCorrect == PdSpec => []PdTypeOK
<1>1. Answers => PdTypeOK
  BY DEF Answers
<1> QED BY <1>1, AnswersHold, PTL

\* A command is that of a button which was ready when poll() last succeeded,
\* unless poll() never did or the power button is the only one
\* (powerd.c:67-88).
THEOREM CommandsAreOfButtons == PdSpec => []CommandsAnswerButtons
<1>1. Answers => CommandsAnswerButtons
  <2> SUFFICES ASSUME Answers, command # "none", answered, present # {"power"}
               PROVE  \E b \in seen : command = CommandFor(b)
    BY DEF CommandsAnswerButtons
  <2>1. at = "system"
    BY DEF Answers, PdTypeOK
  <2>2. polled[i].fd \in seen /\ command = CommandFor(polled[i].fd)
    BY <2>1 DEF Answers, Polling
  <2> QED BY <2>2
<1> QED BY <1>1, AnswersHold, PTL
=============================================================================
