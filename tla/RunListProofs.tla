--------------------------- MODULE RunListProofs ---------------------------
(***************************************************************************)
(* The lock-free lists of lib/sched.c are the queues that runqueue.h       *)
(* promises, for any number of runnables, contexts and lists.              *)
(***************************************************************************)
EXTENDS RunListSteps, FiniteSetTheorems, WellFoundedInduction

\* time limits of the provers
USE SMTT(30), ZenonT(40)

-----------------------------------------------------------------------------
(* Induction over the naturals, for sets: the library's own induction rule *)
(* has a predicate for its parameter, the least element of a set has not.  *)

LEMMA Least ==
  ASSUME NEW T \in SUBSET Nat, T # {}
  PROVE  \E x \in T : \A y \in T : ~(y < x)
<1> DEFINE R == OpToRel(<, Nat)
<1>1. IsWellFoundedOn(R, Nat)
  BY NatLessThanWellFounded, ZenonT(60)
<1>2. \A p, q \in Nat : p < q => <<p, q>> \in R
  BY DEF OpToRel
<1> HIDE DEF R
<1>3. \E x \in T : \A y \in T : ~(<<y, x>> \in R)
  BY <1>1, WFMin, ZenonT(60)
<1>4. QED BY <1>2, <1>3, ZenonT(60)

LEMMA Induction ==
  ASSUME NEW S, 0 \in S, NEW n \in Nat,
         \A k \in 1..n : k - 1 \in S => k \in S
  PROVE  \A k \in 0..n : k \in S
<1> SUFFICES ASSUME NEW k \in 0..n, k \notin S PROVE FALSE
  OBVIOUS
<1> DEFINE T == {i \in 0..n : i \notin S}
<1>1. T \in SUBSET Nat /\ T # {} OBVIOUS
<1>2. PICK x \in T : \A y \in T : ~(y < x) BY <1>1, Least, ZenonT(60)
<1>3. x \in 1..n OBVIOUS
<1>4. x - 1 \in 0..n /\ x - 1 < x BY <1>3
<1>5. QED BY <1>2, <1>3, <1>4

\* a sequence without duplicates is not longer than there are runnables
LEMMA ShortEnough ==
  ASSUME NEW s \in Seq(Runnable), Inj(s)
  PROVE  Cardinality(Runnable) \in Nat /\ Len(s) <= Cardinality(Runnable)
<1>1. s \in [1..Len(s) -> Runnable] /\ DOMAIN s = 1..Len(s) /\ Len(s) \in Nat OBVIOUS
<1>2. s \in Injection(1..Len(s), Runnable)
  BY <1>1, ZenonT(60) DEF Inj, Injection, IsInjective
<1>3. Cardinality(1..Len(s)) <= Cardinality(Runnable)
  BY <1>2, FS_Injection, RunListAssumption, ZenonT(60)
<1>4. Cardinality(1..Len(s)) = IF 1 > Len(s) THEN 0 ELSE Len(s) - 1 + 1
  <2>1. 1 \in Int /\ Len(s) \in Int BY <1>1
  <2>2. QED BY <2>1, FS_Interval, ZenonT(60)
<1>5. Cardinality(1..Len(s)) = Len(s) BY <1>1, <1>4
<1>6. Cardinality(Runnable) \in Nat BY FS_CardinalityType, RunListAssumption, ZenonT(60)
<1>7. QED BY <1>3, <1>5, <1>6

\* Chain follows the pointers to the end
LEMMA ChainIs ==
  ASSUME NEW nx, NEW s \in Seq(Runnable), Inj(s), Linked(nx, s), Ended(nx, s)
  PROVE  Chain(nx, First(s)) = s
<1> DEFINE N == Cardinality(Runnable) + 1
           at[k \in 0..N] == IF k = 0 THEN First(s) ELSE Follow(nx, at[k - 1])
           g == [k \in 0..N |-> IF k < Len(s) THEN s[k + 1] ELSE Null]
<1>1. N \in Nat /\ Len(s) < N /\ Len(s) \in Nat /\ Null \notin Runnable
  BY ShortEnough, RunListAssumption
<1>2. g = [k \in 0..N |-> IF k = 0 THEN First(s) ELSE Follow(nx, g[k - 1])]
  <2> SUFFICES ASSUME NEW k \in 0..N
               PROVE  g[k] = IF k = 0 THEN First(s) ELSE Follow(nx, g[k - 1])
    OBVIOUS
  <2>1. CASE k = 0 BY <2>1, <1>1 DEF First
  <2>2. CASE k # 0 /\ k < Len(s)
    <3>1. g[k - 1] = s[k] /\ g[k] = s[k + 1] /\ s[k] \in Runnable BY <2>2, <1>1
    <3>2. nx[s[k]] = s[k + 1] BY <2>2, <1>1 DEF Linked
    <3>3. QED BY <2>2, <3>1, <3>2, <1>1 DEF Follow
  <2>3. CASE k # 0 /\ k = Len(s)
    <3>1. g[k - 1] = s[k] /\ g[k] = Null /\ s[k] \in Runnable BY <2>3, <1>1
    <3>2. nx[s[k]] = Null BY <2>3, <1>1 DEF Ended
    <3>3. QED BY <2>3, <3>1, <3>2, <1>1 DEF Follow
  <2>4. CASE k # 0 /\ k > Len(s)
    <3>1. g[k - 1] = Null /\ g[k] = Null BY <2>4, <1>1
    <3>2. QED BY <2>4, <3>1 DEF Follow
  <2>5. Len(s) \in Nat /\ k \in Nat /\ (k = 0 \/ k < Len(s) \/ k = Len(s) \/ k > Len(s)) BY <1>1
  <2>6. QED BY <2>1, <2>2, <2>3, <2>4, <2>5, ZenonT(60)
<1>3. at = [k \in 0..N |-> IF k = 0 THEN First(s) ELSE Follow(nx, at[k - 1])]
  <2> DEFINE P(x) == x = [k \in 0..N |-> IF k = 0 THEN First(s) ELSE Follow(nx, x[k - 1])]
  <2>1. P(g) BY <1>2
  <2>2. at = CHOOSE x : P(x) OBVIOUS
  <2> HIDE DEF P, at, g
  <2>3. P(at) BY <2>1, <2>2, ZenonT(60)
  <2>4. QED BY <2>3, ZenonT(60) DEF P
<1> HIDE DEF at
<1>4. \A k \in 0..N : at[k] = g[k]
  <2> DEFINE S == {k \in 0..N : at[k] = g[k]}
  <2>1. 0 \in S BY <1>1, <1>2, <1>3
  <2>2. ASSUME NEW k \in 1..N, k - 1 \in S PROVE k \in S
    <3>1. k \in 0..N /\ k # 0 BY <1>1, <2>2
    <3>2. at[k] = Follow(nx, at[k - 1]) /\ g[k] = Follow(nx, g[k - 1])
      BY <1>2, <1>3, <3>1, ZenonT(60)
    <3>3. QED BY <2>2, <3>1, <3>2
  <2>3. \A k \in 0..N : k \in S BY <2>1, <2>2, <1>1, Induction, ZenonT(60)
  <2>4. QED BY <2>3
<1>5. {k \in 0..N : at[k] # Null} = 0..(Len(s) - 1)
  BY <1>1, <1>4
<1>6. Cardinality({k \in 0..N : at[k] # Null}) = Len(s)
  <2>1. 0 \in Int /\ Len(s) - 1 \in Int BY <1>1
  <2>2. Cardinality(0..(Len(s) - 1)) = IF 0 > Len(s) - 1 THEN 0 ELSE (Len(s) - 1) - 0 + 1
    BY <2>1, FS_Interval, ZenonT(60)
  <2>3. Cardinality(0..(Len(s) - 1)) = Len(s) BY <1>1, <2>2
  <2>4. QED BY <1>5, <2>3, ZenonT(60)
<1>7. Chain(nx, First(s)) = [i \in 1..Cardinality({k \in 0..N : at[k] # Null}) |-> at[i - 1]]
  BY DEF Chain, at
<1>8. Chain(nx, First(s)) = [i \in 1..Len(s) |-> at[i - 1]]
  BY <1>6, <1>7
<1>9. \A i \in 1..Len(s) : at[i - 1] = s[i]
  BY <1>1, <1>4
<1>10. QED BY <1>8, <1>9

\* Segment follows them up to the last member
LEMMA SegmentIs ==
  ASSUME NEW nx \in [Runnable -> Ptr], NEW s \in Seq(Runnable), s # <<>>, Inj(s), Linked(nx, s)
  PROVE  Segment(nx, s[1], s[Len(s)]) = s
<1> DEFINE ny == [nx EXCEPT ![s[Len(s)]] = Null]
<1>1. Len(s) \in Nat /\ Len(s) >= 1 /\ \A i \in 1..Len(s) : s[i] \in Runnable OBVIOUS
<1>2. Ended(ny, s) BY <1>1 DEF Ended
<1>3. Linked(ny, s)
  <2> SUFFICES ASSUME NEW i \in 1..(Len(s) - 1) PROVE ny[s[i]] = s[i + 1] BY DEF Linked
  <2>1. s[i] # s[Len(s)] BY <1>1 DEF Inj
  <2>2. nx[s[i]] = s[i + 1] BY DEF Linked
  <2>3. QED BY <1>1, <2>1, <2>2
<1>4. Chain(ny, First(s)) = s BY <1>2, <1>3, ChainIs
<1>5. QED BY <1>4 DEF Segment, First

LEMMA QueuesAre == \A g, loc : Represents(g, loc) => Shown(g)
<1> SUFFICES ASSUME NEW g, NEW loc, Represents(g, loc) PROVE Shown(g)
  OBVIOUS
<1>1. Placed(g, loc) /\ Pointers(g) BY DEF Represents
<1>2. ASSUME NEW x \in Place PROVE g[x] \in Seq(Runnable) /\ Inj(g[x]) /\ Linked(next, g[x])
  BY <1>1 DEF Placed, Pointers
<1>3. Chain(next, rqhead) = g[Rq]
  <2>1. rqhead = First(g[Rq]) /\ Ended(next, g[Rq]) BY <1>1 DEF Pointers
  <2>2. Chain(next, First(g[Rq])) = g[Rq] BY <1>2, <2>1, PlacesDiffer, ChainIs, ZenonT(60)
  <2>3. QED BY <2>1, <2>2, ZenonT(60)
<1>4. ASSUME NEW l \in Heads PROVE Chain(next, head[l]) = g[L(l)]
  <2>1. head[l] = First(g[L(l)]) /\ Ended(next, g[L(l)]) BY <1>1 DEF Pointers
  <2>2. L(l) \in Place BY PlacesDiffer
  <2>3. Chain(next, First(g[L(l)])) = g[L(l)] BY <1>2, <2>1, <2>2, ChainIs, ZenonT(60)
  <2>4. QED BY <2>1, <2>3, ZenonT(60)
<1>5. ReadyQ = ReadyOf(g)
  <2>1. Chain(next, head[Fresh]) = g[L(Fresh)] BY <1>4, PlacesDiffer, ZenonT(60)
  <2>2. QED BY <1>3, <2>1, ZenonT(60) DEF ReadyQ, ReadyOf
<1>6. ASSUME NEW l \in List PROVE WaitingQ(l) = Reverse(g[L(l)])
  <2>1. Chain(next, head[l]) = g[L(l)] BY <1>4 DEF Heads
  <2>2. QED BY <2>1, ZenonT(60) DEF WaitingQ
<1>7. ASSUME NEW p \in Ctx PROVE HeldQ(p) = Reverse(g[C(p)])
  <2> DEFINE s == g[C(p)]
  <2>1. /\ op[p] \in Ops /\ Moving(op[p], next, s) /\ s \in Seq(Runnable) /\ Inj(s) /\ Linked(next, s)
    BY HeldFacts, ZenonT(60)
  <2> HIDE DEF s
  <2>2. CASE op[p].pc = "idle"
    <3>1. s = <<>> BY <2>1, <2>2 DEF Moving
    <3>2. QED BY <2>2, <3>1, ReverseEmpty, ZenonT(60) DEF HeldQ, s
  <2>3. CASE op[p].pc = "walk"
    <3>1. op[p].first = First(s) /\ Ended(next, s) BY <2>1, <2>3 DEF Moving, First
    <3>2. Chain(next, First(s)) = s BY <2>1, <3>1, ChainIs, ZenonT(60)
    <3>3. HeldQ(p) = Reverse(Chain(next, op[p].first)) BY <2>3 DEF HeldQ
    <3>4. QED BY <3>1, <3>2, <3>3, ZenonT(60) DEF s
  <2>4. CASE op[p].pc \in {"link", "cas"}
    <3>1. op[p].first = s[1] /\ op[p].last = s[Len(s)] /\ s # <<>> BY <2>1, <2>4 DEF Moving
    <3>2. next \in [Runnable -> Ptr] BY <1>1 DEF Pointers
    <3>3. Segment(next, s[1], s[Len(s)]) = s BY <2>1, <3>1, <3>2, SegmentIs, ZenonT(60)
    <3>4. HeldQ(p) = Reverse(Segment(next, op[p].first, op[p].last)) BY <2>4 DEF HeldQ
    <3>5. QED BY <3>1, <3>3, <3>4, ZenonT(60) DEF s
  <2>5. QED BY <2>1, <2>2, <2>3, <2>4 DEF Ops
<1>8. Chain(next, head[Fresh]) = g[L(Fresh)] BY <1>4, PlacesDiffer, ZenonT(60)
<1>9. QED BY <1>3, <1>5, <1>6, <1>7, <1>8 DEF Shown

-----------------------------------------------------------------------------
(* The inductive invariant.                                                *)

LEMMA InitIInv == Init => IInv /\ Shown([x \in Place |-> <<>>])
<1> SUFFICES ASSUME Init PROVE IInv /\ Shown([x \in Place |-> <<>>])
  OBVIOUS
<1> DEFINE g == [x \in Place |-> <<>>]
           loc == [r \in Runnable |-> Off]
<1>1. /\ g \in [Place -> Seq(Runnable)] /\ \A x \in Place : g[x] = <<>> /\ Len(g[x]) = 0
  OBVIOUS
<1>2. Placed(g, loc) BY <1>1 DEF Placed, Inj
<1>3. out = {r \in Runnable : loc[r] = Off} BY DEF Init
<1> HIDE DEF g, loc
<1>4. \A x \in Place : Linked(next, g[x]) /\ Ended(next, g[x]) /\ First(g[x]) = Null
  BY <1>1 DEF Linked, Ended, First
<1>5. next \in [Runnable -> Ptr] /\ head \in [Heads -> Ptr] /\ \A l \in Heads : head[l] = Null
  BY DEF Init, Ptr
<1>6. op \in [Ctx -> Ops] /\ \A p \in Ctx : op[p].pc = "idle"
  BY DEF Init, Idle, Ops, Ptr, Heads
<1>7. \A p \in Ctx : Moving(op[p], next, g[C(p)])
  BY <1>1, <1>6, PlacesDiffer DEF Moving
<1>8. Pointers(g)
  <2>1. rqhead = First(g[Rq]) /\ Ended(next, g[Rq]) /\ g[Rq] = <<>> /\ rqtail = RqHead
    BY <1>1, <1>4, PlacesDiffer DEF Init
  <2>2. \A l \in Heads : head[l] = First(g[L(l)]) /\ Ended(next, g[L(l)])
    BY <1>4, <1>5, PlacesDiffer
  <2>3. QED BY <1>4, <1>5, <1>6, <1>7, <2>1, <2>2 DEF Pointers
<1>9. Represents(g, loc) BY <1>2, <1>3, <1>8 DEF Represents
<1>10. Shown(g) BY <1>9, QueuesAre, ZenonT(60)
<1>11. QED BY <1>9, <1>10 DEF IInv, g

LEMMA StutterStep ==
  ASSUME NEW g, NEW loc, Represents(g, loc), UNCHANGED vars
  PROVE  Represents(g, loc)'
BY DEF Represents, Pointers, vars

LEMMA NextIInv == IInv /\ [Next]_vars => IInv'
<1> SUFFICES ASSUME IInv, [Next]_vars PROVE IInv'
  OBVIOUS
<1>1. PICK g, loc : Represents(g, loc) BY DEF IInv
<1> USE DEF IInv
<1>2. ASSUME NEW p \in Ctx, NEW l \in Heads, NEW r \in Runnable, QueueSingle(p, l, r) PROVE IInv'
  BY <1>1, <1>2, QueueSingleStep, ZenonT(60)
<1>3. ASSUME NEW p \in Ctx, NEW dest \in Heads, NEW src \in List, Exchange(p, dest, src) PROVE IInv'
  BY <1>1, <1>3, ExchangeStep, ZenonT(60)
<1>4. ASSUME NEW p \in Ctx, Walk(p) PROVE IInv' BY <1>1, <1>4, WalkStep
<1>5. ASSUME NEW p \in Ctx, Link(p) PROVE IInv' BY <1>1, <1>5, LinkStep
<1>6. ASSUME NEW p \in Ctx, CasOk(p) PROVE IInv'
  <2>1. PICK l \in Heads : op[p].list = l BY <1>1, HeldFacts DEF Ops
  <2>2. QED BY <1>1, <1>6, <2>1, CasOkStep, ZenonT(60)
<1>7. ASSUME NEW p \in Ctx, CasFail(p) PROVE IInv' BY <1>1, <1>7, CasFailStep
<1>8. ASSUME Unqueue PROVE IInv'
  <2>1. PICK u : Joined(u, g[Rq], Reverse(g[L(Fresh)])) BY <1>1, ReadyJoined
  <2>2. Chain(next, head[Fresh]) = g[L(Fresh)] BY <1>1, QueuesAre, ZenonT(60) DEF Shown
  <2>3. QED BY <1>1, <1>8, <2>1, <2>2, UnqueueStep, ZenonT(60)
<1>9. CASE UNCHANGED vars BY <1>1, <1>9, StutterStep
<1>10. QED BY <1>2, <1>3, <1>4, <1>5, <1>6, <1>7, <1>8, <1>9 DEF Next

\* Whatever the contexts that queue, take and move runnables do between any
\* two accesses of each other, no runnable is lost or doubled and the tail
\* pointer of the runqueue is at its end (sched.c:9-77).
THEOREM ListsAreSound == Spec => []ListsSound
<1>1. Init => IInv BY InitIInv
<1>2. IInv => ListsSound BY QueuesAre, ListsFollow, ZenonT(60) DEF IInv
<1>3. QED BY <1>1, <1>2, NextIInv, PTL DEF Spec

-----------------------------------------------------------------------------
(* The refinement.                                                         *)

LEMMA MappedIs == Mapping
<1> SUFFICES ASSUME NEW g, NEW loc, Represents(g, loc) PROVE MappedTo(g)
  BY DEF Mapping
<1>1. Shown(g) BY QueuesAre, ZenonT(60)
<1>2. QED BY <1>1 DEF Shown, MappedTo, WaitingOf, HeldOf

\* The pointer code of lib/sched.c implements the queues that runqueue.h:25
\* promises: lists are moved as a whole, the runqueue is first in, first out.
THEOREM RunListImplementsQueues == Spec => ImplementsQueues
<1>1. Init => Queues!Init
  <2> SUFFICES ASSUME Init PROVE Queues!Init
    OBVIOUS
  <2> DEFINE g == [x \in Place |-> <<>>]
  <2>1. Shown(g) BY InitIInv, ZenonT(60)
  <2>2. \A x \in Place : g[x] = <<>> OBVIOUS
  <2> HIDE DEF g
  <2>3. \A x \in Place : Reverse(g[x]) = <<>> BY <2>2, ReverseEmpty, ZenonT(60)
  <2>4. ReadyQ = <<>>
    <3>1. ReadyQ = <<>> \o <<>> BY <2>1, <2>2, <2>3, PlacesDiffer, ZenonT(60) DEF Shown, ReadyOf
    <3>2. QED BY <3>1
  <2>5. \A l \in List : WaitingQ(l) = <<>> BY <2>1, <2>3, PlacesDiffer DEF Shown
  <2>6. \A p \in Ctx : HeldQ(p) = <<>> BY <2>1, <2>3, PlacesDiffer DEF Shown
  <2>7. out = Runnable BY DEF Init
  <2>8. QED BY <2>4, <2>5, <2>6, <2>7 DEF Queues!Init
<1>2. IInv /\ [Next]_vars => [Queues!Next]_Queues!vars
  <2> SUFFICES ASSUME IInv, [Next]_vars PROVE Queues!Next \/ UNCHANGED Queues!vars
    OBVIOUS
  <2>1. PICK g, loc : Represents(g, loc) BY DEF IInv
  <2>m. Mapping /\ Mapping' BY MappedIs, PTL
  <2>2. ASSUME NEW p \in Ctx, NEW l \in Heads, NEW r \in Runnable, QueueSingle(p, l, r) PROVE Queues!Next
    <3>1. Queues!Pick(p, r) BY <2>1, <2>2, <2>m, PickMaps, ZenonT(60)
    <3>2. QED BY <3>1, ZenonT(60) DEF Queues!Next
  <2>3. ASSUME NEW p \in Ctx, NEW dest \in Heads, NEW src \in List, Exchange(p, dest, src)
        PROVE  Queues!Next
    <3>1. Queues!TakeAll(p, src) BY <2>1, <2>3, <2>m, TakeAllMaps, ZenonT(60)
    <3>2. QED BY <3>1, ZenonT(60) DEF Queues!Next
  <2>4. ASSUME NEW p \in Ctx, CasOk(p) PROVE Queues!Next
    <3>1. (\E l \in List : Queues!AddToList(p, l)) \/ Queues!AddToRunqueue(p)
      BY <2>1, <2>4, <2>m, AddMaps, ZenonT(60)
    <3>2. QED BY <3>1, ZenonT(60) DEF Queues!Next
  <2>5. ASSUME Unqueue PROVE Queues!Next
    <3>1. Chain(next, head[Fresh]) = g[L(Fresh)] BY <2>1, QueuesAre, ZenonT(60) DEF Shown
    <3>2. Queues!Unqueue BY <2>1, <2>5, <2>m, <3>1, UnqueueMaps, ZenonT(60)
    <3>3. QED BY <3>2, ZenonT(60) DEF Queues!Next
  <2>6. ASSUME NEW p \in Ctx, Walk(p) \/ Link(p) \/ CasFail(p) PROVE UNCHANGED Queues!vars
    <3>1. Represents(g, loc)' BY <2>1, <2>6, WalkStep, LinkStep, CasFailStep, ZenonT(60)
    <3>2. out' = out BY <2>6 DEF Walk, Link, CasFail
    <3>3. QED BY <2>1, <3>1, <3>2, <2>m, StutterMaps, ZenonT(60)
  <2>7. CASE UNCHANGED vars
    <3>1. Represents(g, loc)' BY <2>1, <2>7, StutterStep, ZenonT(60)
    <3>2. out' = out BY <2>7 DEF vars
    <3>3. QED BY <2>1, <3>1, <3>2, <2>m, StutterMaps, ZenonT(60)
  <2>8. QED BY <2>2, <2>3, <2>4, <2>5, <2>6, <2>7 DEF Next
<1>3. Init => IInv BY InitIInv
<1>4. QED BY <1>1, <1>2, <1>3, NextIInv, PTL DEF Spec, ImplementsQueues, Queues!Spec
=============================================================================
