----------------------------- MODULE SchedLoop -----------------------------
(***************************************************************************)
(* Proofs about Sched, for any number of threads, conditions and values:   *)
(* the inductive invariant, and the steps of the CPU's loop, of its        *)
(* callbacks, and of threads that yield, wait and store.                   *)
(***************************************************************************)
EXTENDS Sched, TLAPS

\* time limits of the provers
USE SMTT(30), ZenonT(40)

-----------------------------------------------------------------------------
(* Queues: what appending, taking the head and concatenating do to the set *)
(* of members and to their being distinct.                                 *)

\* the empty queue has no members ...
LEMMA RangeEmpty == Range(<<>>) = {} /\ IsInjective(<<>>)
BY DEF Range, IsInjective

\* ... and is the only one without
LEMMA EmptyRange == ASSUME NEW S, NEW s \in Seq(S), Range(s) = {} PROVE s = <<>>
<1>1. SUFFICES ASSUME s # <<>> PROVE FALSE OBVIOUS
<1>2. 1 \in DOMAIN s BY <1>1
<1>3. s[1] \in Range(s) BY <1>2 DEF Range
<1>4. QED BY <1>3

\* members of a queue are threads
LEMMA RangeType == ASSUME NEW S, NEW s \in Seq(S) PROVE Range(s) \subseteq S
BY DEF Range

\* sched_queue_single adds one member
LEMMA AppendRange ==
  ASSUME NEW S, NEW s \in Seq(S), NEW x \in S
  PROVE  /\ Append(s, x) \in Seq(S)
         /\ Range(Append(s, x)) = Range(s) \union {x}
         /\ IsInjective(s) /\ x \notin Range(s) => IsInjective(Append(s, x))
<1> DEFINE a == Append(s, x)
<1>1. a \in Seq(S) /\ Len(a) = Len(s) + 1 /\ DOMAIN a = 1..(Len(s) + 1) /\ DOMAIN s = 1..Len(s)
  OBVIOUS
<1>2. \A i \in 1..Len(s) : a[i] = s[i] OBVIOUS
<1>3. a[Len(s) + 1] = x OBVIOUS
<1> HIDE DEF a
<1>4. Range(a) = Range(s) \union {x}
  <2>1. \A y \in Range(a) : y \in Range(s) \union {x}
    BY <1>1, <1>2, <1>3 DEF Range
  <2>2. \A y \in Range(s) : y \in Range(a)
    BY <1>1, <1>2 DEF Range
  <2>3. x \in Range(a)
    <3>1. Len(s) + 1 \in DOMAIN a BY <1>1
    <3>2. QED BY <3>1, <1>3 DEF Range
  <2>4. QED BY <2>1, <2>2, <2>3
<1>5. IsInjective(s) /\ x \notin Range(s) => IsInjective(a)
  BY <1>1, <1>2, <1>3 DEF Range, IsInjective
<1>6. QED BY <1>1, <1>4, <1>5 DEF a

\* sched_queue_many adds the members of the moved list
LEMMA ConcatRange ==
  ASSUME NEW S, NEW s \in Seq(S), NEW u \in Seq(S)
  PROVE  /\ s \o u \in Seq(S)
         /\ Range(s \o u) = Range(s) \union Range(u)
         /\ IsInjective(s) /\ IsInjective(u) /\ Range(s) \cap Range(u) = {}
              => IsInjective(s \o u)
<1> DEFINE a == s \o u
<1>1. /\ a \in Seq(S) /\ DOMAIN a = 1..(Len(s) + Len(u))
      /\ DOMAIN s = 1..Len(s) /\ DOMAIN u = 1..Len(u)
      /\ Len(s) \in Nat /\ Len(u) \in Nat
  OBVIOUS
<1>2. \A i \in 1..Len(s) : a[i] = s[i] OBVIOUS
<1>3. \A i \in 1..(Len(s) + Len(u)) : i > Len(s) => a[i] = u[i - Len(s)] OBVIOUS
<1> HIDE DEF a
<1>4. Range(a) = Range(s) \union Range(u)
  <2>1. \A y \in Range(a) : y \in Range(s) \union Range(u)
    <3>1. TAKE y \in Range(a)
    <3>2. PICK i \in DOMAIN a : y = a[i] BY DEF Range
    <3>3. CASE i \in 1..Len(s) BY <3>2, <3>3, <1>1, <1>2 DEF Range
    <3>4. CASE i \notin 1..Len(s)
      <4>1. i \in 1..(Len(s) + Len(u)) BY <3>2, <1>1, ZenonT(40)
      <4>2. i > Len(s) /\ i - Len(s) \in DOMAIN u BY <4>1, <3>4, <1>1
      <4>3. y = u[i - Len(s)] BY <4>1, <4>2, <3>2, <1>3, ZenonT(40)
      <4>4. QED BY <4>2, <4>3 DEF Range
    <3>5. QED BY <3>3, <3>4
  <2>2. \A y \in Range(s) : y \in Range(a)
    BY <1>1, <1>2 DEF Range
  <2>3. \A y \in Range(u) : y \in Range(a)
    <3>1. TAKE y \in Range(u)
    <3>2. PICK i \in DOMAIN u : y = u[i] BY DEF Range
    <3>3. i + Len(s) \in DOMAIN a /\ i + Len(s) > Len(s) /\ (i + Len(s)) - Len(s) = i
      BY <3>2, <1>1
    <3>4. a[i + Len(s)] = y BY <3>2, <3>3, <1>1, <1>3
    <3>5. QED BY <3>3, <3>4 DEF Range
  <2>4. QED BY <2>1, <2>2, <2>3
<1>5. ASSUME IsInjective(s), IsInjective(u), Range(s) \cap Range(u) = {}
      PROVE  IsInjective(a)
  <2>1. SUFFICES ASSUME NEW i \in DOMAIN a, NEW j \in DOMAIN a, a[i] = a[j] PROVE i = j
    BY DEF IsInjective
  <2>2. \A k \in DOMAIN a : \/ k \in DOMAIN s /\ a[k] = s[k] /\ a[k] \in Range(s)
                            \/ k - Len(s) \in DOMAIN u /\ a[k] = u[k - Len(s)] /\ a[k] \in Range(u)
    <3>1. TAKE k \in DOMAIN a
    <3>2. CASE k \in 1..Len(s) BY <3>2, <1>1, <1>2 DEF Range
    <3>3. CASE k \notin 1..Len(s)
      <4>1. k \in 1..(Len(s) + Len(u)) BY <3>1, <1>1, ZenonT(40)
      <4>2. k > Len(s) /\ k - Len(s) \in DOMAIN u BY <4>1, <3>3, <1>1
      <4>3. a[k] = u[k - Len(s)] BY <4>1, <4>2, <1>3, ZenonT(40)
      <4>4. QED BY <4>2, <4>3 DEF Range
    <3>4. QED BY <3>2, <3>3
  <2>3. CASE i \in DOMAIN s /\ j \in DOMAIN s /\ a[i] = s[i] /\ a[j] = s[j]
    BY <2>1, <2>3, <1>5, ZenonT(40) DEF IsInjective
  <2>4. CASE /\ i - Len(s) \in DOMAIN u /\ j - Len(s) \in DOMAIN u
             /\ a[i] = u[i - Len(s)] /\ a[j] = u[j - Len(s)]
    <3>1. i - Len(s) = j - Len(s) BY <2>1, <2>4, <1>5, ZenonT(40) DEF IsInjective
    <3>2. QED BY <3>1, <1>1
  <2>5. QED BY <2>1, <2>2, <2>3, <2>4, <1>5
<1>6. QED BY <1>1, <1>4, <1>5 DEF a

\* sched_unqueue removes the oldest member
LEMMA TailRange ==
  ASSUME NEW S, NEW s \in Seq(S), s # <<>>
  PROVE  /\ Tail(s) \in Seq(S) /\ Head(s) \in S /\ Head(s) \in Range(s)
         /\ Range(s) = Range(Tail(s)) \union {Head(s)}
         /\ IsInjective(s) => IsInjective(Tail(s)) /\ Head(s) \notin Range(Tail(s))
<1> DEFINE a == Tail(s)
<1>1. /\ a \in Seq(S) /\ DOMAIN a = 1..(Len(s) - 1) /\ DOMAIN s = 1..Len(s)
      /\ Len(s) \in Nat /\ Len(s) > 0 /\ Head(s) = s[1] /\ s[1] \in S
  OBVIOUS
<1>2. \A i \in 1..(Len(s) - 1) : a[i] = s[i + 1] OBVIOUS
<1> HIDE DEF a
<1>3. Head(s) \in Range(s) BY <1>1 DEF Range
<1>4. \A y \in Range(a) : y \in Range(s)
  <2>1. TAKE y \in Range(a)
  <2>2. PICK i \in DOMAIN a : y = a[i] BY DEF Range
  <2>3. i + 1 \in DOMAIN s /\ y = s[i + 1] BY <2>2, <1>1, <1>2
  <2>4. QED BY <2>3 DEF Range
<1>5. \A y \in Range(s) : y \in Range(a) \union {Head(s)}
  <2>1. TAKE y \in Range(s)
  <2>2. PICK i \in DOMAIN s : y = s[i] BY DEF Range
  <2>3. CASE i = 1 BY <2>2, <2>3, <1>1
  <2>4. CASE i # 1
    <3>1. i - 1 \in DOMAIN a /\ y = a[i - 1] BY <2>2, <2>4, <1>1, <1>2
    <3>2. QED BY <3>1 DEF Range
  <2>5. QED BY <2>3, <2>4
<1>6. ASSUME IsInjective(s) PROVE IsInjective(a) /\ Head(s) \notin Range(a)
  <2>1. IsInjective(a)
    <3>1. SUFFICES ASSUME NEW i \in DOMAIN a, NEW j \in DOMAIN a, a[i] = a[j] PROVE i = j
      BY DEF IsInjective
    <3>2. i + 1 \in DOMAIN s /\ j + 1 \in DOMAIN s /\ s[i + 1] = s[j + 1] BY <3>1, <1>1, <1>2
    <3>3. i + 1 = j + 1 BY <3>2, <1>6 DEF IsInjective
    <3>4. QED BY <3>3, <1>1
  <2>2. Head(s) \notin Range(a)
    <3>1. SUFFICES ASSUME NEW i \in DOMAIN a, Head(s) = a[i] PROVE FALSE BY DEF Range
    <3>2. i + 1 \in DOMAIN s /\ 1 \in DOMAIN s /\ s[i + 1] = s[1] BY <3>1, <1>1, <1>2
    <3>3. i + 1 = 1 BY <3>2, <1>6 DEF IsInjective
    <3>4. QED BY <3>3, <1>1
  <2>3. QED BY <2>1, <2>2
<1>7. QED BY <1>1, <1>3, <1>4, <1>5, <1>6 DEF a

-----------------------------------------------------------------------------
(* The inductive invariant.  NoLostWakeup alone is not inductive: a wait   *)
(* overwrites exp, so the thread must not be on a list, which OnePlace     *)
(* gives; OnePlace needs that a running thread has its state bits cleared, *)
(* or returning would not mark it dead.  The other conjuncts tie the       *)
(* program counter of the CPU to what is half done.                        *)
RunningBitsClear == pc = "thread" => State(cur) = {}
IdleIsEmpty == pc \in {"empty", "wfi"} => ready = <<>>
OnlyAddHolds == cpuheld # <<>> => pc = "add"
TakeBeforeAdd == \A n \in Thread : notes[n] # Null => held[n] = <<>>

IInv == /\ TypeOK /\ OnePlace /\ NoLostWakeup
        /\ RunningBitsClear /\ IdleIsEmpty /\ OnlyAddHolds /\ TakeBeforeAdd
        /\ NotifiersRunnable /\ ResumeMatchesSave

\* it holds when main() enters its loop
LEMMA InitIInv == Init => IInv
<1> SUFFICES ASSUME Init PROVE IInv OBVIOUS
<1> USE DEF Init
<1>0. (CHOOSE v \in Value : TRUE) \in Value BY ValueAssumption
<1>1. TypeOK
  BY <1>0, ThreadsAssumption DEF TypeOK, PREEMPTED, PREEMPT_REQ
<1>2. OnePlace
  BY RangeEmpty, ThreadsAssumption, ZenonT(40) DEF OnePlace, ListsDisjoint, QueuedOrRunOrDead, Thread, IsInjective, Queued, Waiting, OnCpu, State, PREEMPTED, PREEMPT_REQ, DEAD
<1>3. NoLostWakeup BY RangeEmpty DEF NoLostWakeup, Waiting
<1>4. RunningBitsClear /\ IdleIsEmpty /\ OnlyAddHolds /\ TakeBeforeAdd
  BY DEF RunningBitsClear, IdleIsEmpty, OnlyAddHolds, TakeBeforeAdd
<1>5. NotifiersRunnable BY DEF NotifiersRunnable
<1>6. ResumeMatchesSave BY DEF ResumeMatchesSave, State, PREEMPTED, PREEMPT_REQ
<1>7. QED BY <1>1, <1>2, <1>3, <1>4, <1>5, <1>6 DEF IInv

-----------------------------------------------------------------------------
(* The state bits: what clearing and ORing them gives.                     *)

\* the THREAD_ values differ from each other and from a running thread's 0
LEMMA BitsDistinct ==
  /\ PREEMPTED # DEAD /\ YIELDED # DEAD /\ {} # DEAD
  /\ PREEMPTED # YIELDED /\ {} # PREEMPTED
<1>1. /\ 0 \in PREEMPTED /\ 0 \in YIELDED /\ 0 \notin DEAD /\ 2 \in DEAD
      /\ 1 \in YIELDED /\ 1 \notin PREEMPTED
  BY DEF PREEMPTED, YIELDED, DEAD
<1>2. QED BY <1>1

\* ORed into cleared bits, a THREAD_ value is what is stored
LEMMA BitsOr ==
  ASSUME NEW b, b \ {PREEMPT_REQ} = {}
  PROVE  /\ (b \union YIELDED) \ {PREEMPT_REQ} = YIELDED
         /\ (b \union DEAD) \ {PREEMPT_REQ} = DEAD
         /\ (b \union PREEMPTED \union {PREEMPT_REQ}) \ {PREEMPT_REQ} = PREEMPTED
<1>1. PREEMPT_REQ \notin YIELDED /\ PREEMPT_REQ \notin DEAD /\ PREEMPT_REQ \notin PREEMPTED
  BY DEF PREEMPTED, YIELDED, DEAD, PREEMPT_REQ
<1>2. QED BY <1>1

\* the exit of an interrupt handler touches the thread it interrupted, or none
LEMMA ReturnFacts ==
  ASSUME TypeOK, RunningBitsClear, NEW req, Return(req)
  PROVE  /\ status' \in [Thread -> SUBSET {0, 1, 2, PREEMPT_REQ}]
         /\ saved' \in [Thread -> {"full", "call"}]
         /\ pc' # pc => (pc = "wfi" /\ pc' = "loop") \/ (pc = "thread" /\ pc' = "requeue")
         /\ pc' # "wfi"
         /\ \A x \in Thread :
              IF pc = "thread" /\ pc' = "requeue" /\ cur = x
                THEN State(x)' = PREEMPTED /\ saved'[x] = "full"
                ELSE State(x)' = State(x) /\ saved'[x] = saved[x]
<1>1. CASE pc = "thread" /\ req
  <2>1. PICK y \in Thread : y = cur BY <1>1 DEF TypeOK
  <2>2. /\ pc' = "requeue"
        /\ status' = [status EXCEPT ![y] = @ \union PREEMPTED \union {PREEMPT_REQ}]
        /\ saved' = [saved EXCEPT ![y] = "full"]
    BY <1>1, <2>1 DEF Return
  <2>3. status' \in [Thread -> SUBSET {0, 1, 2, PREEMPT_REQ}]
    BY <2>1, <2>2 DEF TypeOK, PREEMPTED
  <2>4. saved' \in [Thread -> {"full", "call"}] /\ saved'[y] = "full"
    BY <2>1, <2>2 DEF TypeOK
  <2>5. \A x \in Thread : x # y => State(x)' = State(x) /\ saved'[x] = saved[x]
    BY <2>1, <2>2 DEF TypeOK, State
  <2>6. State(y)' = PREEMPTED
    <3>1. status[y] \ {PREEMPT_REQ} = {} BY <1>1, <2>1 DEF RunningBitsClear, State
    <3>2. status'[y] = status[y] \union PREEMPTED \union {PREEMPT_REQ}
      BY <2>1, <2>2 DEF TypeOK
    <3>3. QED BY <3>1, <3>2, BitsOr DEF State
  <2>7. QED BY <1>1, <2>1, <2>2, <2>3, <2>4, <2>5, <2>6
<1>2. CASE ~(pc = "thread" /\ req)
  <2>1. /\ pc' = IF pc = "wfi" THEN "loop" ELSE pc
        /\ status' = status /\ saved' = saved
    BY <1>2 DEF Return
  <2>2. pc' # "wfi" /\ ~(pc = "thread" /\ pc' = "requeue") BY <2>1
  <2>3. \A x \in Thread : State(x)' = State(x) /\ saved'[x] = saved[x] BY <2>1 DEF State
  <2>4. pc' # pc => pc = "wfi" /\ pc' = "loop" BY <2>1
  <2>5. status' = status /\ saved' = saved BY <2>1
  <2>6. QED BY <2>2, <2>3, <2>4, <2>5 DEF TypeOK
<1>3. QED BY <1>1, <1>2

\* OnePlace survives a step that moves threads between queues only
LEMMA OnePlaceKept ==
  ASSUME OnePlace, ListsDisjoint',
         \A x \in Thread : Queued(x)' <=> Queued(x),
         \A x \in Thread : OnCpu(x)' <=> OnCpu(x),
         \A x \in Thread : (State(x)' = DEAD) <=> (State(x) = DEAD)
  PROVE  OnePlace'
<1>1. DEAD' = DEAD BY DEF DEAD
<1>2. QED BY <1>1 DEF OnePlace, QueuedOrRunOrDead

-----------------------------------------------------------------------------
(* The loop of main() and the callbacks of arch_sched_run keep it.         *)

\* the loop dispatches the oldest runnable thread
LEMMA DispatchStep == ASSUME IInv, Dispatch PROVE IInv'
<1> USE NullAssumption, DriverAssumption DEF IInv
<1>1. TypeOK'
  BY TailRange, ZenonT(40) DEF Dispatch, TypeOK, vars, listvars, cpuvars, tvars, PREEMPTED, YIELDED, DEAD, PREEMPT_REQ
<1>2. /\ Head(ready) \in Thread /\ Tail(ready) \in Seq(Thread)
      /\ IsInjective(ready') /\ Head(ready) \notin Range(ready')
      /\ Range(ready) = Range(ready') \union {Head(ready)}
  BY TailRange DEF Dispatch, TypeOK, OnePlace, ListsDisjoint
<1>3. /\ \A x \in Thread : x # Head(ready) => State(x)' = State(x)
      /\ \A x \in Thread : x = Head(ready) => State(x)' = {}
  BY <1>2 DEF Dispatch, TypeOK, State
<1>4. ListsDisjoint'
  BY <1>2, ZenonT(40) DEF Dispatch, TypeOK, OnePlace, ListsDisjoint, QueuedOrRunOrDead, Queued, Waiting, OnCpu, vars, listvars, cpuvars, tvars
<1>5. \A x \in Thread : Queued(x)' <=> Queued(x) /\ x # Head(ready)
  BY <1>2, ZenonT(40) DEF Dispatch, TypeOK, OnePlace, ListsDisjoint, Queued, Waiting, vars, listvars, cpuvars, tvars
<1>6. \A x \in Thread : OnCpu(x)' <=> x = Head(ready)
  BY <1>2 DEF Dispatch, TypeOK, OnCpu, vars, listvars, cpuvars, tvars
<1>7. OnePlace'
  BY <1>2, <1>3, <1>4, <1>5, <1>6, BitsDistinct, ZenonT(40) DEF Dispatch, TypeOK, OnePlace, QueuedOrRunOrDead, Queued, OnCpu, DEAD
<1>8. NoLostWakeup'
  BY <1>2 DEF Dispatch, TypeOK, OnePlace, QueuedOrRunOrDead, Queued, OnCpu, NoLostWakeup, WakeOwed, Waiting, vars, listvars, cpuvars, tvars
<1>9. (RunningBitsClear /\ IdleIsEmpty /\ OnlyAddHolds /\ TakeBeforeAdd)'
  BY <1>2, <1>3 DEF Dispatch, TypeOK, RunningBitsClear, IdleIsEmpty, OnlyAddHolds, TakeBeforeAdd, vars, listvars, cpuvars, tvars
<1>10. NotifiersRunnable'
  BY <1>2 DEF Dispatch, TypeOK, NotifiersRunnable, TakeBeforeAdd, vars, listvars, cpuvars, tvars
<1>11. ResumeMatchesSave'
  BY <1>3, BitsDistinct, ZenonT(40) DEF Dispatch, TypeOK, ResumeMatchesSave, PREEMPTED, DEAD, vars, listvars, cpuvars, tvars
<1>12. QED BY <1>1, <1>7, <1>8, <1>9, <1>10, <1>11

\* the loop finds nothing runnable
LEMMA FindEmptyStep == ASSUME IInv, FindEmpty PROVE IInv'
<1> USE NullAssumption, DriverAssumption DEF IInv
<1>1. TypeOK' BY DEF FindEmpty, TypeOK, vars, listvars, cpuvars, tvars
<1>2. OnePlace'
  BY ZenonT(40) DEF FindEmpty, TypeOK, OnePlace, ListsDisjoint, QueuedOrRunOrDead, Queued, Waiting, OnCpu,
          State, DEAD, vars, listvars, cpuvars, tvars
<1>3. NoLostWakeup' BY DEF FindEmpty, TypeOK, NoLostWakeup, WakeOwed, Waiting, vars, listvars, cpuvars, tvars
<1>4. (RunningBitsClear /\ IdleIsEmpty /\ OnlyAddHolds /\ TakeBeforeAdd /\ NotifiersRunnable)'
  BY DEF FindEmpty, TypeOK, RunningBitsClear, IdleIsEmpty, OnlyAddHolds, TakeBeforeAdd, NotifiersRunnable, State, vars, listvars, cpuvars, tvars
<1>5. ResumeMatchesSave'
  BY ZenonT(40) DEF FindEmpty, TypeOK, ResumeMatchesSave, State, PREEMPTED, DEAD, PREEMPT_REQ, vars, listvars, cpuvars, tvars
<1>6. QED BY <1>1, <1>2, <1>3, <1>4, <1>5

\* the loop ends
LEMMA QuitStep == ASSUME IInv, Quit PROVE IInv'
<1> USE NullAssumption, DriverAssumption DEF IInv
<1>1. TypeOK' BY ZenonT(40) DEF Quit, TypeOK, vars, listvars, cpuvars, tvars
<1>2. OnePlace'
  BY ZenonT(40) DEF Quit, TypeOK, OnePlace, ListsDisjoint, QueuedOrRunOrDead, Queued, Waiting, OnCpu,
          State, DEAD, vars, listvars, cpuvars, tvars
<1>3. NoLostWakeup' BY DEF Quit, TypeOK, NoLostWakeup, WakeOwed, Waiting, vars, listvars, cpuvars, tvars
<1>4. (RunningBitsClear /\ IdleIsEmpty /\ OnlyAddHolds /\ TakeBeforeAdd /\ NotifiersRunnable)'
  BY DEF Quit, TypeOK, RunningBitsClear, IdleIsEmpty, OnlyAddHolds, TakeBeforeAdd, NotifiersRunnable, State, vars, listvars, cpuvars, tvars
<1>5. ResumeMatchesSave'
  BY ZenonT(40) DEF Quit, TypeOK, ResumeMatchesSave, State, PREEMPTED, DEAD, PREEMPT_REQ, vars, listvars, cpuvars, tvars
<1>6. QED BY <1>1, <1>2, <1>3, <1>4, <1>5

\* the loop executes wfi
LEMMA WaitForInterruptStep == ASSUME IInv, WaitForInterrupt PROVE IInv'
<1> USE NullAssumption, DriverAssumption DEF IInv
<1>1. TypeOK' BY DEF WaitForInterrupt, TypeOK, vars, listvars, cpuvars, tvars
<1>2. OnePlace'
  BY ZenonT(40) DEF WaitForInterrupt, TypeOK, OnePlace, ListsDisjoint, QueuedOrRunOrDead, Queued, Waiting, OnCpu,
          State, DEAD, vars, listvars, cpuvars, tvars
<1>3. NoLostWakeup' BY DEF WaitForInterrupt, TypeOK, NoLostWakeup, WakeOwed, Waiting, vars, listvars, cpuvars, tvars
<1>4. (RunningBitsClear /\ IdleIsEmpty /\ OnlyAddHolds /\ TakeBeforeAdd /\ NotifiersRunnable)'
  BY DEF WaitForInterrupt, TypeOK, RunningBitsClear, IdleIsEmpty, OnlyAddHolds, TakeBeforeAdd, NotifiersRunnable, State, vars, listvars, cpuvars, tvars
<1>5. ResumeMatchesSave'
  BY ZenonT(40) DEF WaitForInterrupt, TypeOK, ResumeMatchesSave, State, PREEMPTED, DEAD, PREEMPT_REQ, vars, listvars, cpuvars, tvars
<1>6. QED BY <1>1, <1>2, <1>3, <1>4, <1>5

\* a yielding or preempted thread is queued again
LEMMA RequeueStep == ASSUME IInv, Requeue PROVE IInv'
<1> USE NullAssumption, DriverAssumption DEF IInv
<1>1. TypeOK'
  <2>1. cur \in Thread /\ ready \in Seq(Thread) BY DEF Requeue, TypeOK
  <2>2. Append(ready, cur) \in Seq(Thread) BY <2>1
  <2>3. QED BY <2>2, ZenonT(40) DEF Requeue, TypeOK, tvars
<1>2. /\ Range(ready') = Range(ready) \union {cur}
      /\ cur \notin Range(ready) => IsInjective(ready')
  BY AppendRange DEF Requeue, TypeOK, OnePlace, ListsDisjoint
<1>3. \A x \in Thread : State(x)' = State(x)
  BY DEF Requeue, State, vars, listvars, cpuvars, tvars
<1>4. ListsDisjoint'
  BY <1>2 DEF Requeue, TypeOK, OnePlace, ListsDisjoint, QueuedOrRunOrDead, Queued, Waiting, OnCpu, vars, listvars, cpuvars, tvars
<1>5. \A x \in Thread : Queued(x)' <=> Queued(x) \/ x = cur
  BY <1>2, ZenonT(40) DEF Requeue, TypeOK, OnePlace, ListsDisjoint, Queued, Waiting, vars, listvars, cpuvars, tvars
<1>6. \A x \in Thread : OnCpu(x)' <=> FALSE
  BY DEF Requeue, TypeOK, OnCpu, vars, listvars, cpuvars, tvars
<1>7. OnePlace'
  BY <1>2, <1>3, <1>4, <1>5, <1>6, BitsDistinct, ZenonT(40) DEF Requeue, TypeOK, OnePlace, QueuedOrRunOrDead, Queued, OnCpu, DEAD
<1>8. NoLostWakeup'
  BY <1>2, ZenonT(40) DEF Requeue, TypeOK, OnePlace, QueuedOrRunOrDead, Queued, OnCpu, NoLostWakeup, WakeOwed, Waiting, vars, listvars, cpuvars, tvars
<1>9. (RunningBitsClear /\ IdleIsEmpty /\ OnlyAddHolds /\ TakeBeforeAdd)'
  BY <1>2, <1>3 DEF Requeue, TypeOK, RunningBitsClear, IdleIsEmpty, OnlyAddHolds, TakeBeforeAdd, vars, listvars, cpuvars, tvars
<1>10. NotifiersRunnable'
  BY <1>2 DEF Requeue, TypeOK, NotifiersRunnable, TakeBeforeAdd, vars, listvars, cpuvars, tvars
<1>11. ResumeMatchesSave'
  BY <1>3, BitsDistinct, ZenonT(40) DEF Requeue, TypeOK, ResumeMatchesSave, PREEMPTED, DEAD, vars, listvars, cpuvars, tvars
<1>12. QED BY <1>1, <1>7, <1>8, <1>9, <1>10, <1>11

\* sched_finish_u32 puts the thread on the list
LEMMA FinishEnqueueStep == ASSUME IInv, FinishEnqueue PROVE IInv'
<1> USE NullAssumption, DriverAssumption DEF IInv
<1>1. TypeOK'
  BY DEF FinishEnqueue, TypeOK, vars, listvars, cpuvars, tvars, PREEMPTED, YIELDED, DEAD, PREEMPT_REQ
<1>2. /\ Range(waiters'[fin]) = Range(waiters[fin]) \union {cur}
      /\ cur \notin Range(waiters[fin]) => IsInjective(waiters'[fin])
      /\ \A c \in Cond : c # fin => waiters'[c] = waiters[c]
  BY AppendRange DEF FinishEnqueue, TypeOK, OnePlace, ListsDisjoint
<1>3. \A x \in Thread : State(x)' = State(x)
  BY DEF FinishEnqueue, State, vars, listvars, cpuvars, tvars
<1>4. ListsDisjoint'
  <2>1. fin \in Cond /\ cur \in Thread /\ pc = "enqueue" /\ UNCHANGED <<ready, cpuheld, held>>
    BY DEF FinishEnqueue, TypeOK, tvars
  <2>2. ~Queued(cur) BY <2>1 DEF OnePlace, QueuedOrRunOrDead, OnCpu
  <2>3. ListsDisjoint BY DEF OnePlace
  <2>4. \A c \in Cond : IsInjective(waiters'[c])
    BY <1>2, <2>1, <2>2, <2>3, ZenonT(40) DEF ListsDisjoint, Queued, Waiting
  <2>5. \A c \in Cond : Range(waiters'[c]) \cap (Range(ready) \union Range(cpuheld)) = {}
    BY <1>2, <2>1, <2>2, <2>3 DEF ListsDisjoint, Queued
  <2>6. \A c \in Cond, n \in Thread : Range(waiters'[c]) \cap Range(held[n]) = {}
    BY <1>2, <2>1, <2>2, <2>3 DEF ListsDisjoint, Queued
  <2>7. \A c, d \in Cond : c # d => Range(waiters'[c]) \cap Range(waiters'[d]) = {}
    BY <1>2, <2>1, <2>2, <2>3 DEF ListsDisjoint, Queued, Waiting
  <2>8. QED BY <2>1, <2>3, <2>4, <2>5, <2>6, <2>7, ZenonT(40) DEF ListsDisjoint
<1>5. \A x \in Thread : Queued(x)' <=> Queued(x) \/ x = cur
  BY <1>2, ZenonT(40) DEF FinishEnqueue, TypeOK, OnePlace, ListsDisjoint, Queued, Waiting, vars, listvars, cpuvars, tvars
<1>6. \A x \in Thread : OnCpu(x)' <=> FALSE
  BY DEF FinishEnqueue, TypeOK, OnCpu, vars, listvars, cpuvars, tvars
<1>7. OnePlace'
  BY <1>2, <1>3, <1>4, <1>5, <1>6, BitsDistinct, ZenonT(40) DEF FinishEnqueue, TypeOK, OnePlace, QueuedOrRunOrDead, Queued, OnCpu, DEAD
<1>8. NoLostWakeup'
  BY <1>2 DEF FinishEnqueue, TypeOK, OnePlace, QueuedOrRunOrDead, Queued, OnCpu, NoLostWakeup, WakeOwed, Waiting, vars, listvars, cpuvars, tvars
<1>9. (RunningBitsClear /\ IdleIsEmpty /\ OnlyAddHolds /\ TakeBeforeAdd)'
  BY <1>2, <1>3 DEF FinishEnqueue, TypeOK, RunningBitsClear, IdleIsEmpty, OnlyAddHolds, TakeBeforeAdd, vars, listvars, cpuvars, tvars
<1>10. NotifiersRunnable'
  BY <1>2 DEF FinishEnqueue, TypeOK, NotifiersRunnable, TakeBeforeAdd, vars, listvars, cpuvars, tvars
<1>11. ResumeMatchesSave'
  BY <1>3, BitsDistinct, ZenonT(40) DEF FinishEnqueue, TypeOK, ResumeMatchesSave, PREEMPTED, DEAD, vars, listvars, cpuvars, tvars
<1>12. QED BY <1>1, <1>7, <1>8, <1>9, <1>10, <1>11

\* sched_finish_u32 looks at the variable again
LEMMA FinishRecheckStep == ASSUME IInv, FinishRecheck PROVE IInv'
<1> USE NullAssumption, DriverAssumption DEF IInv
<1>1. TypeOK' BY ZenonT(40) DEF FinishRecheck, TypeOK, vars, listvars, cpuvars, tvars
<1>2. OnePlace'
  BY ZenonT(40) DEF FinishRecheck, TypeOK, OnePlace, ListsDisjoint, QueuedOrRunOrDead, Queued, Waiting, OnCpu,
          State, DEAD, vars, listvars, cpuvars, tvars
<1>3. NoLostWakeup' BY ZenonT(60) DEF FinishRecheck, TypeOK, NoLostWakeup, WakeOwed, Waiting, vars, listvars, cpuvars, tvars
<1>4. (RunningBitsClear /\ IdleIsEmpty /\ OnlyAddHolds /\ TakeBeforeAdd /\ NotifiersRunnable)'
  BY ZenonT(40) DEF FinishRecheck, TypeOK, RunningBitsClear, IdleIsEmpty, OnlyAddHolds, TakeBeforeAdd, NotifiersRunnable, State, vars, listvars, cpuvars, tvars
<1>5. ResumeMatchesSave'
  BY ZenonT(40) DEF FinishRecheck, TypeOK, ResumeMatchesSave, State, PREEMPTED, DEAD, PREEMPT_REQ, vars, listvars, cpuvars, tvars
<1>6. QED BY <1>1, <1>2, <1>3, <1>4, <1>5

\* sched_finish_u32 takes the list back
LEMMA FinishTakeStep == ASSUME IInv, FinishTake PROVE IInv'
<1> USE NullAssumption, DriverAssumption DEF IInv
<1>1. TypeOK'
  BY DEF FinishTake, TypeOK, vars, listvars, cpuvars, tvars, PREEMPTED, YIELDED, DEAD, PREEMPT_REQ
<1>2. /\ cpuheld = <<>> /\ waiters'[fin] = <<>>
      /\ Range(<<>>) = {} /\ IsInjective(<<>>)
      /\ \A c \in Cond : c # fin => waiters'[c] = waiters[c]
  BY RangeEmpty DEF FinishTake, TypeOK, OnlyAddHolds
<1>3. \A x \in Thread : State(x)' = State(x)
  BY ZenonT(40) DEF FinishTake, State, vars, listvars, cpuvars, tvars
<1>4. ListsDisjoint'
  <2>1. /\ fin \in Cond /\ cpuheld' = waiters[fin] /\ ready' = ready /\ held' = held
    BY DEF FinishTake, TypeOK, tvars
  <2>2. ListsDisjoint BY DEF OnePlace
  <2>3. QED BY <1>2, <2>1, <2>2, ZenonT(40) DEF ListsDisjoint
<1>5. \A x \in Thread : Queued(x)' <=> Queued(x)
  BY <1>2, ZenonT(40) DEF FinishTake, TypeOK, OnePlace, ListsDisjoint, Queued, Waiting, vars, listvars, cpuvars, tvars
<1>6. \A x \in Thread : OnCpu(x)' <=> OnCpu(x)
  BY DEF FinishTake, TypeOK, OnCpu, vars, listvars, cpuvars, tvars
<1>7. OnePlace' BY <1>3, <1>4, <1>5, <1>6, OnePlaceKept
<1>8. NoLostWakeup'
  BY <1>2, ZenonT(40) DEF FinishTake, TypeOK, OnePlace, QueuedOrRunOrDead, Queued, OnCpu, NoLostWakeup, WakeOwed, Waiting, vars, listvars, cpuvars, tvars
<1>9. (RunningBitsClear /\ IdleIsEmpty /\ OnlyAddHolds /\ TakeBeforeAdd)'
  BY <1>2, <1>3 DEF FinishTake, TypeOK, RunningBitsClear, IdleIsEmpty, OnlyAddHolds, TakeBeforeAdd, vars, listvars, cpuvars, tvars
<1>10. NotifiersRunnable'
  BY <1>2 DEF FinishTake, TypeOK, NotifiersRunnable, TakeBeforeAdd, vars, listvars, cpuvars, tvars
<1>11. ResumeMatchesSave'
  BY <1>3, BitsDistinct, ZenonT(40) DEF FinishTake, TypeOK, ResumeMatchesSave, PREEMPTED, DEAD, vars, listvars, cpuvars, tvars
<1>12. QED BY <1>1, <1>7, <1>8, <1>9, <1>10, <1>11

\* sched_finish_u32 queues what it took
LEMMA FinishAddStep == ASSUME IInv, FinishAdd PROVE IInv'
<1> USE NullAssumption, DriverAssumption DEF IInv
<1>1. TypeOK'
  BY ConcatRange DEF FinishAdd, TypeOK, vars, listvars, cpuvars, tvars, PREEMPTED, YIELDED, DEAD, PREEMPT_REQ
<1>2. /\ Range(ready') = Range(ready) \union Range(cpuheld) /\ IsInjective(ready')
      /\ Range(<<>>) = {} /\ IsInjective(<<>>)
  BY ConcatRange, RangeEmpty DEF FinishAdd, TypeOK, OnePlace, ListsDisjoint
<1>3. \A x \in Thread : State(x)' = State(x)
  BY DEF FinishAdd, State, vars, listvars, cpuvars, tvars
<1>4. ListsDisjoint'
  BY <1>2, ZenonT(40) DEF FinishAdd, TypeOK, OnePlace, ListsDisjoint, QueuedOrRunOrDead, Queued, Waiting, OnCpu, vars, listvars, cpuvars, tvars
<1>5. \A x \in Thread : Queued(x)' <=> Queued(x)
  BY <1>2, ZenonT(40) DEF FinishAdd, TypeOK, OnePlace, ListsDisjoint, Queued, Waiting, vars, listvars, cpuvars, tvars
<1>6. \A x \in Thread : OnCpu(x)' <=> OnCpu(x)
  BY DEF FinishAdd, TypeOK, OnCpu, vars, listvars, cpuvars, tvars
<1>7. OnePlace' BY <1>3, <1>4, <1>5, <1>6, OnePlaceKept
<1>8. NoLostWakeup'
  BY <1>2, ZenonT(40) DEF FinishAdd, TypeOK, OnePlace, QueuedOrRunOrDead, Queued, OnCpu, NoLostWakeup, WakeOwed, Waiting, vars, listvars, cpuvars, tvars
<1>9. (RunningBitsClear /\ IdleIsEmpty /\ OnlyAddHolds /\ TakeBeforeAdd)'
  BY <1>2, <1>3 DEF FinishAdd, TypeOK, RunningBitsClear, IdleIsEmpty, OnlyAddHolds, TakeBeforeAdd, vars, listvars, cpuvars, tvars
<1>10. NotifiersRunnable'
  BY <1>2 DEF FinishAdd, TypeOK, NotifiersRunnable, TakeBeforeAdd, vars, listvars, cpuvars, tvars
<1>11. ResumeMatchesSave'
  BY <1>3, BitsDistinct, ZenonT(40) DEF FinishAdd, TypeOK, ResumeMatchesSave, PREEMPTED, DEAD, vars, listvars, cpuvars, tvars
<1>12. QED BY <1>1, <1>7, <1>8, <1>9, <1>10, <1>11

-----------------------------------------------------------------------------
(* Threads that yield, wait and store keep it.                             *)

\* a thread yields
LEMMA YieldStep == ASSUME IInv, NEW t \in Thread, Yield(t) PROVE IInv'
<1> USE NullAssumption, DriverAssumption DEF IInv
<1>1. TypeOK'
  BY ZenonT(40) DEF Yield, Running, CallCC, TypeOK, vars, listvars, cpuvars, tvars, PREEMPTED, YIELDED, DEAD, PREEMPT_REQ
<1>3. State(t)' = YIELDED /\ \A x \in Thread : x # t => State(x)' = State(x)
  <2>1. status[t] \ {PREEMPT_REQ} = {} BY DEF Yield, Running, CallCC, RunningBitsClear, State
  <2>2. status'[t] = status[t] \union YIELDED /\ \A x \in Thread : x # t => status'[x] = status[x]
    BY DEF Yield, Running, CallCC, TypeOK
  <2>3. QED BY <2>1, <2>2, BitsOr, ZenonT(40) DEF State
<1>4. ListsDisjoint'
  BY ZenonT(40) DEF Yield, Running, CallCC, OnePlace, ListsDisjoint, cpuvars, listvars, tvars
<1>5. \A x \in Thread : Queued(x)' <=> Queued(x)
  BY ZenonT(40) DEF Yield, Running, CallCC, TypeOK, OnePlace, ListsDisjoint, Queued, Waiting, vars, listvars, cpuvars, tvars
<1>6. \A x \in Thread : OnCpu(x)' <=> OnCpu(x)
  BY ZenonT(40) DEF Yield, Running, CallCC, TypeOK, OnCpu, vars, listvars, cpuvars, tvars
<1>7. OnePlace'
  <2>1. \A x \in Thread : (State(x)' = DEAD) <=> (State(x) = DEAD)
    BY <1>3, BitsDistinct DEF Yield, Running, CallCC, RunningBitsClear
  <2>2. QED BY <2>1, <1>4, <1>5, <1>6, OnePlaceKept
<1>8. NoLostWakeup'
  BY ZenonT(40) DEF Yield, Running, CallCC, TypeOK, OnePlace, QueuedOrRunOrDead, Queued, OnCpu, NoLostWakeup, WakeOwed, Waiting, vars, listvars, cpuvars, tvars
<1>9. (RunningBitsClear /\ IdleIsEmpty /\ OnlyAddHolds /\ TakeBeforeAdd)'
  BY <1>3 DEF Yield, Running, CallCC, TypeOK, RunningBitsClear, IdleIsEmpty, OnlyAddHolds, TakeBeforeAdd, vars, listvars, cpuvars, tvars
<1>10. NotifiersRunnable'
  BY DEF Yield, Running, CallCC, TypeOK, NotifiersRunnable, TakeBeforeAdd, vars, listvars, cpuvars, tvars
<1>11. ResumeMatchesSave'
  BY <1>3, BitsDistinct, ZenonT(40) DEF Yield, Running, CallCC, TypeOK, ResumeMatchesSave, PREEMPTED, DEAD, vars, listvars, cpuvars, tvars
<1>12. QED BY <1>1, <1>7, <1>8, <1>9, <1>10, <1>11

\* a thread calls sched_wait_u32
LEMMA WaitStep == ASSUME IInv, NEW t \in Thread, NEW c \in Cond, NEW e \in Value, Wait(t, c, e) PROVE IInv'
<1> USE NullAssumption, DriverAssumption DEF IInv
<1>1. TypeOK'
  BY ZenonT(40) DEF Wait, Running, CallCC, TypeOK, vars, listvars, cpuvars, tvars, PREEMPTED, YIELDED, DEAD, PREEMPT_REQ
<1>3. State(t)' = YIELDED /\ \A x \in Thread : x # t => State(x)' = State(x)
  <2>1. status[t] \ {PREEMPT_REQ} = {} BY ZenonT(40) DEF Wait, Running, CallCC, RunningBitsClear, State
  <2>2. status'[t] = status[t] \union YIELDED /\ \A x \in Thread : x # t => status'[x] = status[x]
    BY DEF Wait, Running, CallCC, TypeOK
  <2>3. QED BY <2>1, <2>2, BitsOr, ZenonT(40) DEF State
<1>4. ListsDisjoint'
  BY ZenonT(40) DEF Wait, Running, CallCC, OnePlace, ListsDisjoint, cpuvars, listvars, tvars
<1>5. \A x \in Thread : Queued(x)' <=> Queued(x)
  BY ZenonT(40) DEF Wait, Running, CallCC, TypeOK, OnePlace, ListsDisjoint, Queued, Waiting, vars, listvars, cpuvars, tvars
<1>6. \A x \in Thread : OnCpu(x)' <=> OnCpu(x)
  BY DEF Wait, Running, CallCC, TypeOK, OnCpu, vars, listvars, cpuvars, tvars
<1>7. OnePlace'
  <2>1. \A x \in Thread : (State(x)' = DEAD) <=> (State(x) = DEAD)
    BY <1>3, BitsDistinct, ZenonT(40) DEF Wait, Running, CallCC, RunningBitsClear
  <2>2. QED BY <2>1, <1>4, <1>5, <1>6, OnePlaceKept
<1>8. NoLostWakeup'
  BY SMTT(40) DEF Wait, Running, CallCC, TypeOK, OnePlace, QueuedOrRunOrDead, Queued, OnCpu, NoLostWakeup, WakeOwed, Waiting, vars, listvars, cpuvars, tvars
<1>9. (RunningBitsClear /\ IdleIsEmpty /\ OnlyAddHolds /\ TakeBeforeAdd)'
  BY <1>3, ZenonT(40) DEF Wait, Running, CallCC, TypeOK, RunningBitsClear, IdleIsEmpty, OnlyAddHolds, TakeBeforeAdd, vars, listvars, cpuvars, tvars
<1>10. NotifiersRunnable'
  BY ZenonT(40) DEF Wait, Running, CallCC, TypeOK, NotifiersRunnable, TakeBeforeAdd, vars, listvars, cpuvars, tvars
<1>11. ResumeMatchesSave'
  BY <1>3, BitsDistinct, ZenonT(40) DEF Wait, Running, CallCC, TypeOK, ResumeMatchesSave, PREEMPTED, DEAD, vars, listvars, cpuvars, tvars
<1>12. QED BY <1>1, <1>7, <1>8, <1>9, <1>10, <1>11

\* a thread changes a condition variable
LEMMA StoreStep == ASSUME IInv, NEW t \in Thread, NEW c \in Cond, NEW v \in Value, Store(t, c, v) PROVE IInv'
<1> USE NullAssumption, DriverAssumption DEF IInv
<1>1. TypeOK' BY ZenonT(40) DEF Store, Running, TypeOK, vars, listvars, cpuvars, tvars
<1>2. OnePlace'
  BY ZenonT(40) DEF Store, Running, TypeOK, OnePlace, ListsDisjoint, QueuedOrRunOrDead, Queued, Waiting, OnCpu,
          State, DEAD, vars, listvars, cpuvars, tvars
<1>3. NoLostWakeup'
  <2>1. /\ val' = [val EXCEPT ![c] = v] /\ notes' = [notes EXCEPT ![t] = c] /\ notes[t] = Null
        /\ UNCHANGED <<waiters, exp, pc, cur, fin>>
    BY ZenonT(40) DEF Store, Running, listvars, cpuvars
  <2>2. notes'[t] = c /\ \A n \in Thread : n # t => notes'[n] = notes[n]
    BY <2>1 DEF TypeOK
  <2>3. \A d \in Cond : d # c => val'[d] = val[d]
    BY <2>1 DEF TypeOK
  <2>4. ASSUME NEW d \in Cond \ Drivers, NEW x \in Thread, Waiting(x, d)', val'[d] # exp'[x]
        PROVE  WakeOwed(x, d)'
    <3>1. CASE d = c BY <2>2, <3>1, ZenonT(40) DEF WakeOwed
    <3>2. CASE d # c
      <4>1. WakeOwed(x, d) BY <2>1, <2>3, <2>4, <3>2, ZenonT(40) DEF NoLostWakeup, Waiting
      <4>2. QED BY <2>1, <2>2, <3>2, <4>1, NullAssumption DEF WakeOwed
    <3>3. QED BY <3>1, <3>2
  <2>5. QED BY <2>4, ZenonT(40) DEF NoLostWakeup
<1>4. (RunningBitsClear /\ IdleIsEmpty /\ OnlyAddHolds /\ TakeBeforeAdd /\ NotifiersRunnable)'
  BY ZenonT(40) DEF Store, Running, TypeOK, RunningBitsClear, IdleIsEmpty, OnlyAddHolds, TakeBeforeAdd, NotifiersRunnable, State, vars, listvars, cpuvars, tvars
<1>5. ResumeMatchesSave'
  BY ZenonT(40) DEF Store, Running, TypeOK, ResumeMatchesSave, State, PREEMPTED, DEAD, PREEMPT_REQ, vars, listvars, cpuvars, tvars
<1>6. QED BY <1>1, <1>2, <1>3, <1>4, <1>5
============================================================================
