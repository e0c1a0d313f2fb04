---------------------------- MODULE SchedProofs ----------------------------
(***************************************************************************)
(* Proofs about Sched, continued: notifiers, threads that return,          *)
(* interrupts, the theorems, and the refinement of WaitSpec.               *)
(***************************************************************************)
EXTENDS SchedLoop

\* time limits of the provers
USE SMTT(30), ZenonT(40)

-----------------------------------------------------------------------------
(* Notifiers, threads that return and interrupts keep the invariant.       *)

\* a notifier takes a list
LEMMA NotifyTakeStep == ASSUME IInv, NEW t \in Thread, NotifyTake(t) PROVE IInv'
<1> USE NullAssumption, DriverAssumption DEF IInv
<1>1. TypeOK'
  BY SMTT(40) DEF NotifyTake, TypeOK, vars, listvars, cpuvars, tvars, PREEMPTED, YIELDED, DEAD, PREEMPT_REQ
<1>2. /\ notes[t] \in Cond /\ held[t] = <<>> /\ held'[t] = waiters[notes[t]]
      /\ waiters'[notes[t]] = <<>>
      /\ Range(<<>>) = {} /\ IsInjective(<<>>)
      /\ \A c \in Cond : c # notes[t] => waiters'[c] = waiters[c]
      /\ \A n \in Thread : n # t => held'[n] = held[n]
  BY RangeEmpty DEF NotifyTake, TypeOK, TakeBeforeAdd
<1>3. \A x \in Thread : State(x)' = State(x)
  BY DEF NotifyTake, State, vars, listvars, cpuvars, tvars
<1>4. ListsDisjoint'
  <2>1. ready' = ready /\ cpuheld' = cpuheld BY DEF NotifyTake, cpuvars
  <2>2. \A c \in Cond : \/ Range(waiters'[c]) = {} /\ IsInjective(waiters'[c])
                        \/ c # notes[t] /\ waiters'[c] = waiters[c]
    BY <1>2
  <2>3. /\ IsInjective(held'[t]) /\ Range(held'[t]) = Range(waiters[notes[t]])
        /\ \A n \in Thread : n = t \/ held'[n] = held[n]
    BY <1>2 DEF OnePlace, ListsDisjoint
  <2>4. \A c \in Cond : Range(waiters'[c]) \cap Range(held'[t]) = {}
    BY <1>2, <2>2, <2>3 DEF OnePlace, ListsDisjoint
  <2>5. \A n \in Thread : n # t => Range(held'[n]) \cap Range(held'[t]) = {}
    BY <1>2, <2>3, SMTT(40) DEF OnePlace, ListsDisjoint
  <2>6. \A c \in Cond : IsInjective(waiters'[c]) BY <2>2 DEF OnePlace, ListsDisjoint
  <2>7. \A n \in Thread : IsInjective(held'[n]) BY <2>3 DEF OnePlace, ListsDisjoint
  <2>8. \A n \in Thread : Range(held'[n]) \cap (Range(ready') \union Range(cpuheld')) = {}
    BY <1>2, <2>1, <2>3, ZenonT(40) DEF OnePlace, ListsDisjoint
  <2>9. \A c \in Cond : Range(waiters'[c]) \cap (Range(ready') \union Range(cpuheld')) = {}
    BY <2>1, <2>2 DEF OnePlace, ListsDisjoint
  <2>10. \A c \in Cond, n \in Thread : Range(waiters'[c]) \cap Range(held'[n]) = {}
    BY <2>2, <2>3, <2>4, ZenonT(40) DEF OnePlace, ListsDisjoint
  <2>11. \A c, d \in Cond : c # d => Range(waiters'[c]) \cap Range(waiters'[d]) = {}
    BY <2>2, ZenonT(40) DEF OnePlace, ListsDisjoint
  <2>12. \A n, m \in Thread : n # m => Range(held'[n]) \cap Range(held'[m]) = {}
    BY <2>3, <2>5, ZenonT(40) DEF OnePlace, ListsDisjoint
  <2>13. IsInjective(ready') /\ IsInjective(cpuheld') /\ Range(ready') \cap Range(cpuheld') = {}
    BY <2>1 DEF OnePlace, ListsDisjoint
  <2>14. QED BY <2>6, <2>7, <2>8, <2>9, <2>10, <2>11, <2>12, <2>13, ZenonT(60) DEF ListsDisjoint
<1>5. \A x \in Thread : Queued(x)' <=> Queued(x)
  BY <1>2, ZenonT(90) DEF NotifyTake, TypeOK, OnePlace, ListsDisjoint, Queued, Waiting, vars, listvars, cpuvars, tvars
<1>6. \A x \in Thread : OnCpu(x)' <=> OnCpu(x)
  BY DEF NotifyTake, TypeOK, OnCpu, vars, listvars, cpuvars, tvars
<1>7. OnePlace' BY <1>3, <1>4, <1>5, <1>6, OnePlaceKept
<1>8. NoLostWakeup'
  BY <1>2, SMTT(40) DEF NotifyTake, TypeOK, OnePlace, QueuedOrRunOrDead, Queued, OnCpu, NoLostWakeup, WakeOwed, Waiting, vars, listvars, cpuvars, tvars
<1>9. (RunningBitsClear /\ IdleIsEmpty /\ OnlyAddHolds /\ TakeBeforeAdd)'
  BY <1>2, <1>3, ZenonT(40) DEF NotifyTake, TypeOK, RunningBitsClear, IdleIsEmpty, OnlyAddHolds, TakeBeforeAdd, vars, listvars, cpuvars, tvars
<1>10. NotifiersRunnable'
  BY <1>2, SMTT(40) DEF NotifyTake, TypeOK, NotifiersRunnable, TakeBeforeAdd, vars, listvars, cpuvars, tvars
<1>11. ResumeMatchesSave'
  BY <1>3, BitsDistinct, ZenonT(40) DEF NotifyTake, TypeOK, ResumeMatchesSave, PREEMPTED, DEAD, vars, listvars, cpuvars, tvars
<1>12. QED BY <1>1, <1>7, <1>8, <1>9, <1>10, <1>11

\* a notifier queues what it took
LEMMA NotifyAddStep == ASSUME IInv, NEW t \in Thread, NotifyAdd(t) PROVE IInv'
<1> USE NullAssumption, DriverAssumption DEF IInv
<1>1. TypeOK'
  <2>1. <<>> \in Seq(Thread) /\ ready \o held[t] \in Seq(Thread) BY DEF TypeOK
  <2>2. held' \in [Thread -> Seq(Thread)] BY <2>1, ZenonT(40) DEF NotifyAdd, TypeOK
  <2>3. QED BY <2>1, <2>2, ZenonT(40) DEF NotifyAdd, TypeOK, cpuvars
<1>2. /\ Range(ready') = Range(ready) \union Range(held[t]) /\ IsInjective(ready')
      /\ held'[t] = <<>>
      /\ Range(<<>>) = {} /\ IsInjective(<<>>)
      /\ \A n \in Thread : n # t => held'[n] = held[n]
  BY ConcatRange, RangeEmpty, SMTT(40) DEF NotifyAdd, TypeOK, OnePlace, ListsDisjoint
<1>3. \A x \in Thread : State(x)' = State(x)
  BY DEF NotifyAdd, State, vars, listvars, cpuvars, tvars
<1>4. ListsDisjoint'
  <2>1. waiters' = waiters /\ cpuheld' = cpuheld BY DEF NotifyAdd, cpuvars
  <2>2. \A n \in Thread : Range(held'[n]) = {} \/ (n # t /\ held'[n] = held[n]) BY <1>2
  <2>3. \A n \in Thread : IsInjective(held'[n]) BY <1>2, <2>2 DEF OnePlace, ListsDisjoint
  <2>4. \A n \in Thread : Range(held'[n]) \cap (Range(ready') \union Range(cpuheld')) = {}
    BY <1>2, <2>1, <2>2, ZenonT(40) DEF OnePlace, ListsDisjoint
  <2>5. \A c \in Cond, n \in Thread : Range(waiters'[c]) \cap Range(held'[n]) = {}
    BY <2>1, <2>2, ZenonT(40) DEF OnePlace, ListsDisjoint
  <2>6. \A n, m \in Thread : n # m => Range(held'[n]) \cap Range(held'[m]) = {}
    BY <2>2, ZenonT(40) DEF OnePlace, ListsDisjoint
  <2>7. \A c \in Cond : Range(waiters'[c]) \cap (Range(ready') \union Range(cpuheld')) = {}
    BY <1>2, <2>1, ZenonT(40) DEF OnePlace, ListsDisjoint
  <2>8. Range(ready') \cap Range(cpuheld') = {} BY <1>2, <2>1, ZenonT(40) DEF OnePlace, ListsDisjoint
  <2>9. QED BY <1>2, <2>1, <2>3, <2>4, <2>5, <2>6, <2>7, <2>8, ZenonT(40) DEF OnePlace, ListsDisjoint
<1>5. \A x \in Thread : Queued(x)' <=> Queued(x)
  BY <1>2, ZenonT(40) DEF NotifyAdd, TypeOK, OnePlace, ListsDisjoint, Queued, Waiting, vars, listvars, cpuvars, tvars
<1>6. \A x \in Thread : OnCpu(x)' <=> OnCpu(x)
  BY DEF NotifyAdd, TypeOK, OnCpu, vars, listvars, cpuvars, tvars
<1>7. OnePlace' BY <1>3, <1>4, <1>5, <1>6, OnePlaceKept
<1>8. NoLostWakeup'
  BY ZenonT(60) DEF NotifyAdd, NoLostWakeup, WakeOwed, Waiting, cpuvars
<1>9. (RunningBitsClear /\ IdleIsEmpty /\ OnlyAddHolds /\ TakeBeforeAdd)'
  <2>1. pc = "thread" /\ cur = t /\ UNCHANGED <<cpuvars, notes, status>> BY ZenonT(40) DEF NotifyAdd
  <2>2. RunningBitsClear' BY <1>3, <2>1 DEF RunningBitsClear, cpuvars
  <2>3. (IdleIsEmpty /\ OnlyAddHolds)' BY <2>1 DEF IdleIsEmpty, OnlyAddHolds, cpuvars
  <2>4. TakeBeforeAdd' BY <1>2, <2>1, ZenonT(40) DEF TakeBeforeAdd
  <2>5. QED BY <2>2, <2>3, <2>4
<1>10. NotifiersRunnable'
  BY <1>2, ZenonT(40) DEF NotifyAdd, TypeOK, NotifiersRunnable, TakeBeforeAdd, vars, listvars, cpuvars, tvars
<1>11. ResumeMatchesSave'
  BY <1>3, BitsDistinct, ZenonT(40) DEF NotifyAdd, TypeOK, ResumeMatchesSave, PREEMPTED, DEAD, vars, listvars, cpuvars, tvars
<1>12. QED BY <1>1, <1>7, <1>8, <1>9, <1>10, <1>11

\* a thread returns
LEMMA AbandonStep == ASSUME IInv, NEW t \in Thread, Abandon(t) PROVE IInv'
<1> USE NullAssumption, DriverAssumption DEF IInv
<1>1. TypeOK'
  BY ZenonT(40) DEF Abandon, Running, TypeOK, vars, listvars, cpuvars, tvars, PREEMPTED, YIELDED, DEAD, PREEMPT_REQ
<1>3. State(t)' = DEAD /\ \A x \in Thread : x # t => State(x)' = State(x)
  <2>1. status[t] \ {PREEMPT_REQ} = {} BY DEF Abandon, Running, RunningBitsClear, State
  <2>2. status'[t] = status[t] \union DEAD /\ \A x \in Thread : x # t => status'[x] = status[x]
    BY DEF Abandon, Running, TypeOK
  <2>3. QED BY <2>1, <2>2, BitsOr, ZenonT(40) DEF State
<1>4. ListsDisjoint'
  BY ZenonT(40) DEF Abandon, Running, OnePlace, ListsDisjoint, cpuvars, listvars, tvars
<1>5. \A x \in Thread : Queued(x)' <=> Queued(x)
  BY ZenonT(40) DEF Abandon, Running, TypeOK, OnePlace, ListsDisjoint, Queued, Waiting, vars, listvars, cpuvars, tvars
<1>6. \A x \in Thread : OnCpu(x)' <=> FALSE
  BY DEF Abandon, Running, TypeOK, OnCpu, vars, listvars, cpuvars, tvars
<1>7. OnePlace'
  BY <1>3, <1>4, <1>5, <1>6, BitsDistinct, ZenonT(40) DEF Abandon, Running, TypeOK, OnePlace, QueuedOrRunOrDead, Queued, OnCpu, DEAD
<1>8. NoLostWakeup'
  BY ZenonT(40) DEF Abandon, Running, TypeOK, OnePlace, QueuedOrRunOrDead, Queued, OnCpu, NoLostWakeup, WakeOwed, Waiting, vars, listvars, cpuvars, tvars
<1>9. (RunningBitsClear /\ IdleIsEmpty /\ OnlyAddHolds /\ TakeBeforeAdd)'
  BY <1>3 DEF Abandon, Running, TypeOK, RunningBitsClear, IdleIsEmpty, OnlyAddHolds, TakeBeforeAdd, vars, listvars, cpuvars, tvars
<1>10. NotifiersRunnable'
  BY ZenonT(40) DEF Abandon, Running, TypeOK, NotifiersRunnable, TakeBeforeAdd, vars, listvars, cpuvars, tvars
<1>11. ResumeMatchesSave'
  BY <1>3, BitsDistinct, ZenonT(40) DEF Abandon, Running, TypeOK, ResumeMatchesSave, PREEMPTED, DEAD, vars, listvars, cpuvars, tvars
<1>12. QED BY <1>1, <1>7, <1>8, <1>9, <1>10, <1>11

\* a device interrupts
LEMMA DeviceInterruptStep == ASSUME IInv, NEW c \in Cond, NEW v \in Value, DeviceInterrupt(c, v) PROVE IInv'
<1> USE NullAssumption, DriverAssumption DEF IInv
<1>1. /\ ready' \in Seq(Thread) /\ IsInjective(ready')
      /\ Range(ready') = Range(ready) \union Range(waiters[c])
      /\ waiters'[c] = <<>>
      /\ Range(<<>>) = {} /\ IsInjective(<<>>)
      /\ \A d \in Cond : d # c => waiters'[d] = waiters[d]
  BY ConcatRange, RangeEmpty, SMTT(40) DEF DeviceInterrupt, TypeOK, OnePlace, ListsDisjoint
<1>2. /\ status' \in [Thread -> SUBSET {0, 1, 2, PREEMPT_REQ}]
      /\ saved' \in [Thread -> {"full", "call"}]
      /\ pc' # pc => (pc = "wfi" /\ pc' = "loop") \/ (pc = "thread" /\ pc' = "requeue")
      /\ pc' # "wfi"
      /\ \A x \in Thread :
           IF pc = "thread" /\ pc' = "requeue" /\ cur = x
             THEN State(x)' = PREEMPTED /\ saved'[x] = "full"
             ELSE State(x)' = State(x) /\ saved'[x] = saved[x]
  BY ReturnFacts, ZenonT(40) DEF DeviceInterrupt
<1>3. TypeOK'
  BY <1>1, <1>2, SMTT(40) DEF DeviceInterrupt, TypeOK
<1>4. ListsDisjoint'
  <2>1. ListsDisjoint /\ cpuheld' = cpuheld /\ held' = held BY ZenonT(40) DEF OnePlace, DeviceInterrupt
  <2>2. \A d \in Cond : \/ Range(waiters'[d]) = {} /\ IsInjective(waiters'[d])
                        \/ d # c /\ waiters'[d] = waiters[d]
    BY <1>1, ZenonT(40)
  <2>3. \A d \in Cond : IsInjective(waiters'[d]) BY <2>1, <2>2, ZenonT(40) DEF ListsDisjoint
  <2>4. Range(ready') \cap Range(cpuheld') = {} BY <1>1, <2>1, ZenonT(40) DEF ListsDisjoint
  <2>5. \A d \in Cond : Range(waiters'[d]) \cap (Range(ready') \union Range(cpuheld')) = {}
    BY <1>1, <2>1, <2>2, ZenonT(60) DEF ListsDisjoint
  <2>6. \A n \in Thread : Range(held'[n]) \cap (Range(ready') \union Range(cpuheld')) = {}
    BY <1>1, <2>1, ZenonT(60) DEF ListsDisjoint
  <2>7. \A d \in Cond, n \in Thread : Range(waiters'[d]) \cap Range(held'[n]) = {}
    BY <2>1, <2>2, ZenonT(40) DEF ListsDisjoint
  <2>8. \A d, e \in Cond : d # e => Range(waiters'[d]) \cap Range(waiters'[e]) = {}
    BY <2>1, <2>2, SMTT(40) DEF ListsDisjoint
  <2>9. QED BY <1>1, <2>1, <2>3, <2>4, <2>5, <2>6, <2>7, <2>8, ZenonT(60) DEF ListsDisjoint
<1>5. \A x \in Thread : Queued(x)' <=> Queued(x)
  BY <1>1, ZenonT(40) DEF DeviceInterrupt, TypeOK, Queued, Waiting
<1>6. \A x \in Thread : OnCpu(x)' <=> OnCpu(x)
  BY <1>2, ZenonT(40) DEF DeviceInterrupt, TypeOK, OnCpu
<1>7. \A x \in Thread : (State(x)' = DEAD) <=> (State(x) = DEAD)
  BY <1>2, BitsDistinct, ZenonT(40) DEF RunningBitsClear
<1>8. OnePlace' BY <1>4, <1>5, <1>6, <1>7, OnePlaceKept
<1>9. NoLostWakeup'
  <2>1. SUFFICES ASSUME NEW d \in Cond \ Drivers, NEW t \in Thread, Waiting(t, d)', val'[d] # exp'[t]
                 PROVE  WakeOwed(t, d)'
    BY ZenonT(40) DEF NoLostWakeup
  <2>2. notes' = notes /\ fin' = fin /\ cur' = cur /\ exp' = exp BY ZenonT(40) DEF DeviceInterrupt
  <2>3. d # c /\ waiters'[d] = waiters[d] BY <2>1, <1>1, ZenonT(40) DEF Waiting
  <2>4. val'[d] = val[d]
    <3>1. val \in [Cond -> Value] BY ZenonT(40) DEF TypeOK
    <3>2. val' = [val EXCEPT ![c] = v] BY ZenonT(40) DEF DeviceInterrupt
    <3>3. QED BY <3>1, <3>2, <2>3
  <2>5. WakeOwed(t, d) BY <2>1, <2>2, <2>3, <2>4, ZenonT(40) DEF NoLostWakeup, Waiting
  <2>6. pc \in {"recheck", "take"} => pc' = pc BY <1>2
  <2>7. QED BY <2>5, <2>6, <2>2, ZenonT(40) DEF WakeOwed
<1>10. (RunningBitsClear /\ IdleIsEmpty /\ OnlyAddHolds /\ TakeBeforeAdd)'
  <2>1. RunningBitsClear'
    <3>1. SUFFICES ASSUME pc' = "thread" PROVE State(cur)' = {} BY DEF RunningBitsClear
    <3>2. PICK x \in Thread : x = cur /\ x = cur' BY <3>1, <1>2, ZenonT(40) DEF DeviceInterrupt, TypeOK
    <3>3. State(x) = {} /\ State(x)' = State(x) BY <3>1, <3>2, <1>2, ZenonT(40) DEF RunningBitsClear
    <3>4. QED BY <3>2, <3>3 DEF State
  <2>2. QED
    BY <2>1, <1>1, <1>2, ZenonT(40) DEF DeviceInterrupt, TypeOK, IdleIsEmpty, OnlyAddHolds, TakeBeforeAdd, MaskedPcs
<1>11. NotifiersRunnable'
  BY <1>1, <1>2, ZenonT(40) DEF DeviceInterrupt, TypeOK, NotifiersRunnable
<1>12. ResumeMatchesSave'
  BY <1>2, <1>7, ZenonT(40) DEF DeviceInterrupt, ResumeMatchesSave, PREEMPTED, DEAD
<1>13. QED BY <1>3, <1>8, <1>9, <1>10, <1>11, <1>12

\* a device register changes
LEMMA RegisterChangeStep == ASSUME IInv, NEW c \in Cond, NEW v \in Value, RegisterChange(c, v) PROVE IInv'
<1> USE NullAssumption, DriverAssumption DEF IInv
<1>1. TypeOK'
  <2>1. val' \in [Cond -> Value] BY DEF RegisterChange, TypeOK
  <2>2. UNCHANGED <<listvars, cpuvars, tvars>> BY ZenonT(40) DEF RegisterChange
  <2>3. QED BY <2>1, <2>2, ZenonT(60) DEF TypeOK, listvars, cpuvars, tvars
<1>2. OnePlace'
  BY ZenonT(40) DEF RegisterChange, TypeOK, OnePlace, ListsDisjoint, QueuedOrRunOrDead, Queued, Waiting, OnCpu,
          State, DEAD, vars, listvars, cpuvars, tvars
<1>3. NoLostWakeup' BY ZenonT(40) DEF RegisterChange, TypeOK, NoLostWakeup, WakeOwed, Waiting, vars, listvars, cpuvars, tvars
<1>4. (RunningBitsClear /\ IdleIsEmpty /\ OnlyAddHolds /\ TakeBeforeAdd /\ NotifiersRunnable)'
  BY ZenonT(40) DEF RegisterChange, TypeOK, RunningBitsClear, IdleIsEmpty, OnlyAddHolds, TakeBeforeAdd, NotifiersRunnable, State, vars, listvars, cpuvars, tvars
<1>5. ResumeMatchesSave'
  BY ZenonT(40) DEF RegisterChange, TypeOK, ResumeMatchesSave, State, PREEMPTED, DEAD, PREEMPT_REQ, vars, listvars, cpuvars, tvars
<1>6. QED BY <1>1, <1>2, <1>3, <1>4, <1>5

\* the timer ticks
LEMMA TickStep == ASSUME IInv, Tick PROVE IInv'
<1> USE NullAssumption, DriverAssumption DEF IInv
<1>1. /\ ready' \in Seq(Thread) /\ IsInjective(ready')
      /\ Range(ready') = Range(ready) \union Range(WaitersOf(Emmc)) \union Range(WaitersOf(Sd))
      /\ Range(<<>>) = {} /\ IsInjective(<<>>)
      /\ \A c \in Cond : waiters'[c] = IF c \in {Emmc, Sd} THEN <<>> ELSE waiters[c]
      /\ \A d \in {Emmc, Sd} : Range(WaitersOf(d)) = IF d = Null THEN {} ELSE Range(waiters[d])
  <2>1. \A d \in {Emmc, Sd} : /\ WaitersOf(d) \in Seq(Thread) /\ IsInjective(WaitersOf(d))
                             /\ Range(WaitersOf(d)) = IF d = Null THEN {} ELSE Range(waiters[d])
    <3> TAKE d \in {Emmc, Sd}
    <3>1. CASE d = Null BY <3>1, RangeEmpty DEF WaitersOf
    <3>2. CASE d # Null BY <3>2, ZenonT(40) DEF WaitersOf, TypeOK, OnePlace, ListsDisjoint
    <3>3. QED BY <3>1, <3>2, ZenonT(40)
  <2>2. /\ Range(ready) \cap Range(WaitersOf(Emmc)) = {}
        /\ (Range(ready) \union Range(WaitersOf(Emmc))) \cap Range(WaitersOf(Sd)) = {}
    BY <2>1, ZenonT(40) DEF OnePlace, ListsDisjoint
  <2>3. /\ Range(ready \o WaitersOf(Emmc)) = Range(ready) \union Range(WaitersOf(Emmc))
        /\ ready \o WaitersOf(Emmc) \in Seq(Thread) /\ IsInjective(ready \o WaitersOf(Emmc))
    BY <2>1, <2>2, ConcatRange, SMTT(40) DEF TypeOK, OnePlace, ListsDisjoint
  <2> DEFINE q == ready \o WaitersOf(Emmc)
             w == WaitersOf(Sd)
  <2>4. ready' = q \o w BY DEF Tick
  <2>5. q \in Seq(Thread) /\ w \in Seq(Thread) /\ IsInjective(q) /\ IsInjective(w)
    BY <2>1, <2>3, ZenonT(40)
  <2>6. Range(q) \cap Range(w) = {} BY <2>2, <2>3
  <2> HIDE DEF q, w
  <2>7. q \o w \in Seq(Thread) /\ IsInjective(q \o w) /\ Range(q \o w) = Range(q) \union Range(w)
    BY <2>5, <2>6, ConcatRange
  <2>8. \A c \in Cond : waiters'[c] = IF c \in {Emmc, Sd} THEN <<>> ELSE waiters[c]
    BY DEF Tick, Drivers
  <2>9. QED BY <2>1, <2>3, <2>4, <2>7, <2>8, RangeEmpty, ZenonT(40) DEF q, w
<1>2. /\ status' \in [Thread -> SUBSET {0, 1, 2, PREEMPT_REQ}]
      /\ saved' \in [Thread -> {"full", "call"}]
      /\ pc' # pc => (pc = "wfi" /\ pc' = "loop") \/ (pc = "thread" /\ pc' = "requeue")
      /\ pc' # "wfi"
      /\ \A x \in Thread :
           IF pc = "thread" /\ pc' = "requeue" /\ cur = x
             THEN State(x)' = PREEMPTED /\ saved'[x] = "full"
             ELSE State(x)' = State(x) /\ saved'[x] = saved[x]
  BY ReturnFacts, ZenonT(40) DEF Tick
<1>f. UNCHANGED <<val, cur, fin, cpuheld, exp, notes, held>>
  BY DEF Tick
<1>3. TypeOK'
  <2>1. waiters' \in [Cond -> Seq(Thread)]
    <3>1. <<>> \in Seq(Thread) /\ waiters \in [Cond -> Seq(Thread)] BY DEF TypeOK
    <3>2. QED BY <3>1, ZenonT(40) DEF Tick
  <2>2. pc' \in {"loop", "empty", "wfi", "quit", "thread", "requeue",
               "enqueue", "recheck", "take", "add"}
    BY <1>2, ZenonT(40) DEF TypeOK
  <2>3. /\ pc' \in {"thread", "requeue", "enqueue", "recheck", "take"} => cur' \in Thread
        /\ pc' \in {"enqueue", "recheck", "take"} => fin' \in Cond
    BY <1>2, <1>f, ZenonT(40) DEF TypeOK
  <2>4. QED BY <1>1, <1>2, <1>f, <2>1, <2>2, <2>3, ZenonT(40) DEF TypeOK
<1>4. ListsDisjoint'
  <2>1. ListsDisjoint /\ cpuheld' = cpuheld /\ held' = held BY <1>f, ZenonT(40) DEF OnePlace
  <2>2. \A c \in Cond : \/ Range(waiters'[c]) = {} /\ IsInjective(waiters'[c])
                        \/ c \notin {Emmc, Sd} /\ waiters'[c] = waiters[c]
    BY <1>1, ZenonT(40)
  <2>3. \A y \in Range(ready') : y \in Range(ready) \/ \E d \in Cond : d \in {Emmc, Sd} /\ y \in Range(waiters[d])
    BY <1>1, ZenonT(40)
  <2>4. \A c \in Cond : IsInjective(waiters'[c]) BY <2>1, <2>2, ZenonT(40) DEF ListsDisjoint
  <2>5. Range(ready') \cap Range(cpuheld') = {} BY <2>1, <2>3, ZenonT(40) DEF ListsDisjoint
  <2>6. \A c \in Cond : Range(waiters'[c]) \cap (Range(ready') \union Range(cpuheld')) = {}
    BY <2>1, <2>2, <2>3, ZenonT(40) DEF ListsDisjoint
  <2>7. \A n \in Thread : Range(held'[n]) \cap (Range(ready') \union Range(cpuheld')) = {}
    BY <2>1, <2>3, ZenonT(40) DEF ListsDisjoint
  <2>8. \A c \in Cond, n \in Thread : Range(waiters'[c]) \cap Range(held'[n]) = {}
    BY <2>1, <2>2, ZenonT(40) DEF ListsDisjoint
  <2>9. \A c, d \in Cond : c # d => Range(waiters'[c]) \cap Range(waiters'[d]) = {}
    BY <2>1, <2>2, ZenonT(40) DEF ListsDisjoint
  <2>10. QED BY <1>1, <2>1, <2>4, <2>5, <2>6, <2>7, <2>8, <2>9, ZenonT(40) DEF ListsDisjoint
<1>5. \A x \in Thread : Queued(x)' <=> Queued(x)
  BY <1>1, ZenonT(90) DEF Tick, TypeOK, Queued, Waiting
<1>6. \A x \in Thread : OnCpu(x)' <=> OnCpu(x)
  BY <1>2, ZenonT(40) DEF Tick, TypeOK, OnCpu
<1>7. \A x \in Thread : (State(x)' = DEAD) <=> (State(x) = DEAD)
  BY <1>2, BitsDistinct DEF RunningBitsClear
<1>8. OnePlace' BY <1>4, <1>5, <1>6, <1>7, OnePlaceKept
<1>9. NoLostWakeup'
  <2>1. SUFFICES ASSUME NEW c \in Cond \ Drivers, NEW t \in Thread, Waiting(t, c)', val'[c] # exp'[t]
                 PROVE  WakeOwed(t, c)'
    BY ZenonT(40) DEF NoLostWakeup
  <2>2. waiters'[c] = waiters[c] BY DEF Tick
  <2>3. WakeOwed(t, c) BY <2>1, <2>2, <1>f DEF NoLostWakeup, Waiting
  <2>4. QED BY <2>3, <1>2, <1>f, ZenonT(40) DEF WakeOwed
<1>10. (RunningBitsClear /\ IdleIsEmpty /\ OnlyAddHolds /\ TakeBeforeAdd)'
  <2>1. RunningBitsClear'
    <3>1. SUFFICES ASSUME pc' = "thread" PROVE State(cur)' = {} BY DEF RunningBitsClear
    <3>2. PICK x \in Thread : x = cur /\ x = cur' BY <3>1, <1>2, ZenonT(40) DEF Tick, TypeOK
    <3>3. State(x) = {} /\ State(x)' = State(x) BY <3>1, <3>2, <1>2 DEF RunningBitsClear
    <3>4. QED BY <3>2, <3>3 DEF State
  <2>2. QED
    BY <2>1, <1>1, <1>2, ZenonT(40) DEF Tick, TypeOK, IdleIsEmpty, OnlyAddHolds, TakeBeforeAdd, MaskedPcs
<1>11. NotifiersRunnable'
  BY <1>1, <1>2, ZenonT(40) DEF Tick, TypeOK, NotifiersRunnable
<1>12. ResumeMatchesSave'
  BY <1>2, <1>7, ZenonT(40) DEF Tick, ResumeMatchesSave, PREEMPTED, DEAD
<1>13. QED BY <1>3, <1>8, <1>9, <1>10, <1>11, <1>12

\* nothing happens
LEMMA StutterStep == ASSUME IInv, UNCHANGED vars PROVE IInv'
<1> USE NullAssumption, DriverAssumption DEF IInv
<1>1. TypeOK' BY ZenonT(40) DEF vars, TypeOK, vars, listvars, cpuvars, tvars
<1>2. OnePlace'
  BY ZenonT(40) DEF vars, TypeOK, OnePlace, ListsDisjoint, QueuedOrRunOrDead, Queued, Waiting, OnCpu,
          State, DEAD, vars, listvars, cpuvars, tvars
<1>3. NoLostWakeup' BY ZenonT(40) DEF vars, TypeOK, NoLostWakeup, WakeOwed, Waiting, vars, listvars, cpuvars, tvars
<1>4. (RunningBitsClear /\ IdleIsEmpty /\ OnlyAddHolds /\ TakeBeforeAdd /\ NotifiersRunnable)'
  BY ZenonT(40) DEF vars, TypeOK, RunningBitsClear, IdleIsEmpty, OnlyAddHolds, TakeBeforeAdd, NotifiersRunnable, State, vars, listvars, cpuvars, tvars
<1>5. ResumeMatchesSave'
  BY ZenonT(40) DEF vars, TypeOK, ResumeMatchesSave, State, PREEMPTED, DEAD, PREEMPT_REQ, vars, listvars, cpuvars, tvars
<1>6. QED BY <1>1, <1>2, <1>3, <1>4, <1>5

\* every step of the scheduler keeps the invariant
LEMMA NextIInv == IInv /\ [Next]_vars => IInv'
BY DispatchStep, FindEmptyStep, QuitStep, WaitForInterruptStep, RequeueStep, FinishEnqueueStep, FinishRecheckStep, FinishTakeStep, FinishAddStep, YieldStep, WaitStep, StoreStep, NotifyTakeStep, NotifyAddStep, AbandonStep, DeviceInterruptStep, RegisterChangeStep, TickStep, StutterStep, ZenonT(40) DEF Next, Loop, Callback, ThreadStep

-----------------------------------------------------------------------------
(* The scheduler's state is always well-typed: in particular the CPU has a *)
(* thread, and a condition, whenever it executes one of the steps of       *)
(* arch_sched_run and sched_finish_u32 that use them.                      *)
THEOREM TypeCorrect == Spec => []TypeOK
<1>1. Spec => []IInv BY InitIInv, NextIInv, PTL DEF Spec
<1>2. IInv => TypeOK BY DEF IInv
<1>3. QED BY <1>1, <1>2, PTL

(* No wakeup is lost between sched_finish_u32 and the notifiers, for any   *)
(* number of threads and conditions and whatever is preempted where.       *)
THEOREM WakeupsNotLost == Spec => []NoLostWakeup
<1>1. Spec => []IInv BY InitIInv, NextIInv, PTL DEF Spec
<1>2. IInv => NoLostWakeup BY DEF IInv
<1>3. QED BY <1>1, <1>2, PTL

(* A thread is always in exactly one place: the exchange of                *)
(* sched_queue_list hands each waiter to exactly one notifier.             *)
THEOREM ThreadsInOnePlace == Spec => []OnePlace
<1>1. Spec => []IInv BY InitIInv, NextIInv, PTL DEF Spec
<1>2. IInv => OnePlace BY DEF IInv
<1>3. QED BY <1>1, <1>2, PTL

(* arch_sched_run resumes every context the way it was saved.              *)
THEOREM ResumesMatchSaves == Spec => []ResumeMatchesSave
<1>1. Spec => []IInv BY InitIInv, NextIInv, PTL DEF Spec
<1>2. IInv => ResumeMatchesSave BY DEF IInv
<1>3. QED BY <1>1, <1>2, PTL

(* A thread that has taken waiters off a list and not yet queued them is   *)
(* never asleep: sched_queue_list of the woken is always under way.        *)
THEOREM NotifiersStayRunnable == Spec => []NotifiersRunnable
<1>1. Spec => []IInv BY InitIInv, NextIInv, PTL DEF Spec
<1>2. IInv => NotifiersRunnable BY DEF IInv
<1>3. QED BY <1>1, <1>2, PTL

(* The loop of main() only executes wfi when every thread that is not dead *)
(* is waiting for something that has not happened yet.                     *)
THEOREM SleepsOnlyWhenIdle == Spec => []IdleMeansAllWaiting
<1>1. Spec => []IInv BY InitIInv, NextIInv, PTL DEF Spec
<1>2. IInv => IdleMeansAllWaiting
  <2>1. SUFFICES ASSUME IInv, pc = "wfi", NEW t \in Thread, State(t) # DEAD
                 PROVE  /\ ready = <<>>
                        /\ \E c \in Cond : Waiting(t, c) /\ (val[c] = exp[t] \/ c \in Drivers)
    BY DEF IdleMeansAllWaiting, IInv, IdleIsEmpty
  <2>2. ready = <<>> /\ cpuheld = <<>> BY <2>1 DEF IInv, IdleIsEmpty, OnlyAddHolds
  <2>3. \A n \in Thread : notes[n] = Null /\ held[n] = <<>>
    BY <2>1, <2>2, RangeEmpty DEF IInv, NotifiersRunnable
  <2>4. PICK c \in Cond : Waiting(t, c)
    BY <2>1, <2>2, <2>3, RangeEmpty, ZenonT(40) DEF IInv, OnePlace, QueuedOrRunOrDead, Queued, OnCpu
  <2>5. val[c] = exp[t] \/ c \in Drivers
    BY <2>1, <2>3, <2>4, NullAssumption, ZenonT(40) DEF IInv, NoLostWakeup, WakeOwed
  <2>6. QED BY <2>2, <2>4, <2>5
<1>3. QED BY <1>1, <1>2, PTL

(* The threads are always where the loop of main() and the notifiers look  *)
(* for them: all of the above but the wake-ups together.                   *)
THEOREM ThreadsAreSound == Spec => []ThreadsSound
BY TypeCorrect, ThreadsInOnePlace, ResumesMatchSaves, NotifiersStayRunnable, SleepsOnlyWhenIdle, PTL DEF ThreadsSound

-----------------------------------------------------------------------------
(* The scheduler implements WaitSpec: one lemma for each group of steps    *)
(* says which step of WaitSpec it is, or that nobody falls asleep or wakes *)
(* up in it.  A thread is asleep while it is on a list and                 *)
(* sched_finish_u32 is not still busy with it.                             *)

Looking(t) == cur = t /\ pc \in {"recheck", "take"}

\* sched_finish_u32 has queued the thread that it is busy with on no other list
OnOneList == pc \in {"recheck", "take"} => \A c \in Cond : c # fin => ~Waiting(cur, c)

\* a thread is asleep on the condition whose list it is on ...
LEMMA AsleepOn ==
  ASSUME IInv, NEW t \in Thread, NEW c \in Cond, Waiting(t, c), ~Looking(t)
  PROVE  Asleep(t) = c
<1>1. \A d \in Cond : Waiting(t, d) => d = c
  BY ZenonT(40) DEF IInv, OnePlace, ListsDisjoint, Waiting
<1>2. (CHOOSE d \in Cond : Waiting(t, d)) = c
  BY <1>1
<1>3. QED BY <1>2 DEF Asleep, Looking

\* ... and awake if it is on none, or being looked at
LEMMA AwakeOff ==
  ASSUME NEW t \in Thread, Looking(t) \/ \A c \in Cond : ~Waiting(t, c)
  PROVE  Asleep(t) = Null
BY DEF Asleep, Looking

\* nobody falls asleep or wakes up in a step that leaves the lists alone
LEMMA SleepersKept ==
  ASSUME IInv, IInv', waiters' = waiters, NEW t \in Thread, Looking(t)' = Looking(t)
  PROVE  Asleep(t)' = Asleep(t)
<1>1. \A c \in Cond : Waiting(t, c)' = Waiting(t, c)
  BY DEF Waiting
<1>2. CASE Looking(t) \/ \A c \in Cond : ~Waiting(t, c)
  BY <1>1, <1>2 DEF Asleep, Looking
<1>3. CASE ~Looking(t) /\ \E c \in Cond : Waiting(t, c)
  <2>1. PICK c \in Cond : Waiting(t, c)
    BY <1>3
  <2>2. Asleep(t) = c BY <1>3, <2>1, AsleepOn
  <2>3. Asleep(t)' = c
    <3>1. \A d \in Cond : Waiting(t, d)' => d = c
      BY <1>1, <2>1, ZenonT(40) DEF IInv, OnePlace, ListsDisjoint, Waiting
    <3>2. (CHOOSE d \in Cond : Waiting(t, d)') = c
      BY <1>1, <2>1, <3>1
    <3>3. QED BY <1>1, <1>3, <2>1, <3>2 DEF Asleep, Looking
  <2>4. QED BY <2>2, <2>3
<1>4. QED BY <1>2, <1>3

\* the sleepers of the lists that are emptied wake up, and nobody else
LEMMA SleepersWoken ==
  ASSUME IInv, IInv', NEW C \in SUBSET Cond, NEW t \in Thread,
         \A c \in Cond : Range(waiters'[c]) = IF c \in C THEN {} ELSE Range(waiters[c]),
         Looking(t)' = Looking(t) \/ \A c \in Cond \ C : ~Waiting(t, c)
  PROVE  Asleep(t)' = IF Asleep(t) \in C THEN Null ELSE Asleep(t)
<1>0. Null \notin C
  BY NullAssumption, ZenonT(40)
<1>1. \A c \in Cond : Waiting(t, c)' <=> c \notin C /\ Waiting(t, c)
  BY DEF Waiting
<1>2. CASE \A c \in Cond : ~Waiting(t, c)
  BY <1>0, <1>1, <1>2, ZenonT(40) DEF Asleep
<1>3. CASE \E c \in C : Waiting(t, c)
  <2>1. PICK c \in C : Waiting(t, c)
    BY <1>3
  <2>2. \A d \in Cond : Waiting(t, d) => d = c
    BY <2>1, ZenonT(40) DEF IInv, OnePlace, ListsDisjoint, Waiting
  <2>3. \A d \in Cond : ~Waiting(t, d)'
    BY <1>1, <2>1, <2>2, ZenonT(40)
  <2>4. Asleep(t)' = Null
    BY <2>3, ZenonT(40) DEF Asleep
  <2>5. Asleep(t) \in {c, Null}
    BY <2>1, AsleepOn, AwakeOff, ZenonT(40)
  <2>6. QED BY <1>0, <2>1, <2>4, <2>5
<1>4. CASE \E c \in Cond \ C : Waiting(t, c)
  <2>1. PICK c \in Cond \ C : Waiting(t, c)
    BY <1>4, ZenonT(40)
  <2>2. Looking(t)' = Looking(t)
    BY <2>1, ZenonT(40)
  <2>3. \A d \in Cond : Waiting(t, d) => d = c
    BY <2>1, ZenonT(40) DEF IInv, OnePlace, ListsDisjoint, Waiting
  <2>4. CASE Looking(t)
    BY <1>0, <2>2, <2>4, ZenonT(40) DEF Asleep, Looking
  <2>5. CASE ~Looking(t)
    <3>1. Asleep(t) = c BY <2>1, <2>5, AsleepOn, ZenonT(40)
    <3>2. (CHOOSE d \in Cond : Waiting(t, d)') = c
      BY <1>1, <2>1, <2>3, ZenonT(40)
    <3>3. Asleep(t)' = c BY <1>1, <2>1, <2>2, <2>5, <3>2, ZenonT(40) DEF Asleep, Looking
    <3>4. QED BY <2>1, <3>1, <3>3, ZenonT(40)
  <2>6. QED BY <2>4, <2>5, ZenonT(40)
<1>5. QED BY <1>2, <1>3, <1>4, ZenonT(40)
\* sched_finish_u32 queues once, and while it is busy lists only get shorter
LEMMA OnOneListStep == IInv /\ IInv' /\ OnOneList /\ [Next]_vars => OnOneList'
<1> SUFFICES ASSUME IInv, IInv', OnOneList, [Next]_vars, pc' \in {"recheck", "take"},
                    NEW c \in Cond, c # fin'
             PROVE  ~Waiting(cur, c)'
  BY DEF OnOneList
<1> USE DEF vars, listvars, cpuvars, tvars
<1>1. CASE FinishEnqueue
  <2>1. cur \in Thread /\ ~Queued(cur)
    BY <1>1, ZenonT(40) DEF FinishEnqueue, IInv, TypeOK, OnePlace, QueuedOrRunOrDead, OnCpu
  <2>2. waiters'[c] = waiters[c] /\ cur' = cur
    BY <1>1, ZenonT(40) DEF FinishEnqueue, IInv, TypeOK
  <2>3. QED BY <2>1, <2>2, ZenonT(40) DEF Queued, Waiting
<1>2. CASE FinishRecheck
  BY <1>2, ZenonT(40) DEF FinishRecheck, OnOneList, Waiting
<1>3. ASSUME NEW d \in Cond, NEW v \in Value, DeviceInterrupt(d, v) PROVE ~Waiting(cur, c)'
  <2>1. pc = pc' /\ cur' = cur /\ fin' = fin
    BY <1>3, ZenonT(40) DEF DeviceInterrupt, Return
  <2>2. waiters'[c] = <<>> \/ waiters'[c] = waiters[c]
    BY <1>3, ZenonT(40) DEF DeviceInterrupt, IInv, TypeOK
  <2>3. QED BY <2>1, <2>2, RangeEmpty, ZenonT(40) DEF OnOneList, Waiting
<1>4. CASE Tick
  <2>1. pc = pc' /\ cur' = cur /\ fin' = fin
    BY <1>4, ZenonT(40) DEF Tick, Return
  <2>2. waiters'[c] = <<>> \/ waiters'[c] = waiters[c]
    BY <1>4, ZenonT(40) DEF Tick
  <2>3. QED BY <2>1, <2>2, RangeEmpty, ZenonT(40) DEF OnOneList, Waiting
<1>5. CASE UNCHANGED <<pc, cur, fin, waiters>>
  BY <1>5 DEF OnOneList, Waiting
<1>6. ASSUME NEW d \in Cond, NEW v \in Value, RegisterChange(d, v) PROVE UNCHANGED <<pc, cur, fin, waiters>>
  BY <1>6 DEF RegisterChange
<1>7. ~Loop /\ ~Requeue /\ ~FinishTake /\ ~FinishAdd
  BY ZenonT(40) DEF Loop, Dispatch, FindEmpty, Quit, WaitForInterrupt, Requeue, FinishTake, FinishAdd
<1>8. \A t \in Thread : ~ThreadStep(t)
  BY ZenonT(40) DEF ThreadStep, Yield, Wait, Running, CallCC, NotifyTake, NotifyAdd, Abandon, Store
<1>9. QED BY <1>1, <1>2, <1>3, <1>4, <1>5, <1>6, <1>7, <1>8, ZenonT(40) DEF Next, Callback

\* A step is a step of WaitSpec, or none, by what it does to val, exp and the
\* sleepers.
Sleepers == [t \in Thread |-> Asleep(t)]

\* a step that only touches the runqueue, contexts or notes is invisible
LEMMA SameSleepers ==
  ASSUME IInv, IInv', waiters' = waiters, \A t \in Thread : Looking(t)' = Looking(t)
  PROVE  Sleepers' = Sleepers
BY SleepersKept DEF Sleepers

\* a step that takes whole lists wakes their sleepers
LEMMA WokenSleepers ==
  ASSUME IInv, IInv', NEW C \in SUBSET Cond,
         \A c \in Cond : Range(waiters'[c]) = IF c \in C THEN {} ELSE Range(waiters[c]),
         \A t \in Thread : Looking(t)' = Looking(t) \/ \A c \in Cond \ C : ~Waiting(t, c)
  PROVE  Waits!WakeAll(C)
<1>1. \A t \in Thread : Asleep(t)' = IF Asleep(t) \in C THEN Null ELSE Asleep(t)
  BY SleepersWoken, ZenonT(40)
<1>2. QED BY <1>1, ZenonT(40) DEF Waits!WakeAll
\* what the callbacks of sched_finish_u32 are in WaitSpec: looking again is
\* falling asleep, taking the list a wake
LEMMA FinishSimulated ==
  ASSUME IInv, IInv', OnOneList, FinishEnqueue \/ FinishRecheck \/ FinishTake
  PROVE  [Waits!Next]_(Waits!vars)
<1> USE DEF listvars, tvars
<1>0. UNCHANGED <<val, exp>>
  BY DEF FinishEnqueue, FinishRecheck, FinishTake
<1>1. CASE FinishEnqueue
  <2>1. cur \in Thread /\ cur' = cur /\ fin \in Cond /\ pc' = "recheck" /\ ~Queued(cur)
    BY <1>1, ZenonT(40) DEF FinishEnqueue, IInv, TypeOK, OnePlace, QueuedOrRunOrDead, OnCpu
  <2>2. ASSUME NEW t \in Thread PROVE Asleep(t)' = Asleep(t)
    <3>1. CASE t = cur
      <4>1. Looking(t)' BY <2>1, <3>1 DEF Looking
      <4>2. Asleep(t)' = Null BY <4>1 DEF Asleep, Looking
      <4>3. Asleep(t) = Null BY <2>1, <3>1, AwakeOff DEF Queued
      <4>4. QED BY <4>2, <4>3
    <3>2. CASE t # cur
      <4>1. ~Looking(t) /\ ~Looking(t)' BY <2>1, <3>2 DEF Looking
      <4>2. \A c \in Cond : Waiting(t, c)' = Waiting(t, c)
        <5>1. TAKE c \in Cond
        <5>2. CASE c = fin
          <6>1. waiters'[c] = Append(waiters[c], cur) /\ waiters[c] \in Seq(Thread)
            BY <1>1, <5>2, ZenonT(40) DEF FinishEnqueue, IInv, TypeOK
          <6>2. QED BY <2>1, <3>2, <6>1, AppendRange DEF Waiting
        <5>3. CASE c # fin
          BY <1>1, <5>3, ZenonT(40) DEF FinishEnqueue, IInv, TypeOK, Waiting
        <5>4. QED BY <5>2, <5>3
      <4>3. CASE \A c \in Cond : ~Waiting(t, c)
        BY <4>2, <4>3 DEF Asleep
      <4>4. CASE \E c \in Cond : Waiting(t, c)
        <5>1. PICK c \in Cond : Waiting(t, c) BY <4>4
        <5>2. \A d \in Cond : Waiting(t, d) => d = c
          BY <5>1, ZenonT(40) DEF IInv, OnePlace, ListsDisjoint, Waiting
        <5>3. (CHOOSE d \in Cond : Waiting(t, d)') = c BY <4>2, <5>1, <5>2
        <5>4. Asleep(t)' = c BY <4>1, <4>2, <5>1, <5>3 DEF Asleep, Looking
        <5>5. Asleep(t) = c BY <4>1, <5>1, AsleepOn
        <5>6. QED BY <5>4, <5>5
      <4>5. QED BY <4>3, <4>4
    <3>3. QED BY <3>1, <3>2
  <2>3. Sleepers' = Sleepers BY <2>2 DEF Sleepers
  <2>4. QED BY <1>0, <2>3 DEF Waits!vars, Sleepers
<1>2. CASE FinishRecheck
  <2>1. cur \in Thread /\ fin \in Cond /\ pc = "recheck" /\ waiters' = waiters
    BY <1>2, ZenonT(40) DEF FinishRecheck, IInv, TypeOK
  <2>2. CASE pc' = "take"
    <3>1. cur' = cur BY <1>2, <2>2, ZenonT(40) DEF FinishRecheck
    <3>2. \A t \in Thread : Looking(t)' = Looking(t) BY <2>1, <2>2, <3>1 DEF Looking
    <3>3. Sleepers' = Sleepers BY <2>1, <3>2, SameSleepers
    <3>4. QED BY <1>0, <3>3 DEF Waits!vars, Sleepers
  <2>3. CASE pc' # "take" /\ Waiting(cur, fin)
    <3>1. val[fin] = exp[cur] /\ pc' = "loop" BY <1>2, <2>3, ZenonT(40) DEF FinishRecheck
    <3>2. \A t \in Thread : t # cur => Asleep(t)' = Asleep(t)
      <4>1. \A t \in Thread : t # cur => Looking(t)' = Looking(t) BY <2>1, <3>1 DEF Looking
      <4>2. QED BY <2>1, <4>1, SleepersKept
    <3>3. Asleep(cur) = Null BY <2>1, AwakeOff DEF Looking
    <3>4. ASSUME NEW t \in Thread, t = cur PROVE Asleep(t)' = fin
      <4>0. Waiting(t, fin) /\ \A d \in Cond : Waiting(t, d) => d = fin
        BY <2>1, <2>3, <3>4 DEF OnOneList
      <4>1. \A d \in Cond : Waiting(t, d)' <=> d = fin
        BY <2>1, <4>0 DEF Waiting
      <4>2. (CHOOSE d \in Cond : Waiting(t, d)') = fin BY <2>1, <4>1
      <4>3. QED BY <2>1, <3>1, <4>1, <4>2, ZenonT(40) DEF Asleep
    <3>5. Sleepers' = [Sleepers EXCEPT ![cur] = fin]
      <4>1. \A t \in Thread : Asleep(t)' = IF t = cur THEN fin ELSE Asleep(t)
        BY <3>2, <3>4
      <4>2. Sleepers' = [t \in Thread |-> IF t = cur THEN fin ELSE Asleep(t)]
        BY <4>1 DEF Sleepers
      <4>3. [Sleepers EXCEPT ![cur] = fin] = [t \in Thread |-> IF t = cur THEN fin ELSE Asleep(t)]
        BY <2>1, ZenonT(40) DEF Sleepers
      <4>4. QED BY <4>2, <4>3
    <3>6. Waits!Sleep(cur, fin)
      BY <1>0, <2>1, <3>1, <3>3, <3>5, ZenonT(40) DEF Waits!Sleep, Sleepers
    <3>7. QED BY <2>1, <3>6 DEF Waits!Next
  <2>4. CASE pc' # "take" /\ ~Waiting(cur, fin)
    <3>1. pc' = "loop" BY <1>2, <2>4, ZenonT(40) DEF FinishRecheck
    <3>2. \A t \in Thread : t # cur => Asleep(t)' = Asleep(t)
      <4>1. \A t \in Thread : t # cur => Looking(t)' = Looking(t) BY <2>1, <3>1 DEF Looking
      <4>2. QED BY <2>1, <4>1, SleepersKept
    <3>3. \A c \in Cond : ~Waiting(cur, c)
      <4>1. TAKE c \in Cond
      <4>2. QED BY <2>1, <2>4 DEF OnOneList
    <3>4. ASSUME NEW t \in Thread, t = cur PROVE Asleep(t)' = Asleep(t)
      <4>1. \A c \in Cond : ~Waiting(t, c) /\ ~Waiting(t, c)' BY <2>1, <3>3, <3>4 DEF Waiting
      <4>2. QED BY <4>1 DEF Asleep
    <3>5. Sleepers' = Sleepers BY <3>2, <3>4 DEF Sleepers
    <3>6. QED BY <1>0, <3>5 DEF Waits!vars, Sleepers
  <2>5. QED BY <2>2, <2>3, <2>4
<1>3. CASE FinishTake
  <2>1. fin \in Cond /\ pc = "take" /\ pc' = "add" BY <1>3, ZenonT(40) DEF FinishTake, IInv, TypeOK
  <2>2. \A c \in Cond : Range(waiters'[c]) = IF c \in {fin} THEN {} ELSE Range(waiters[c])
    <3>1. waiters' = [waiters EXCEPT ![fin] = <<>>] /\ waiters \in [Cond -> Seq(Thread)]
      BY <1>3, ZenonT(40) DEF FinishTake, IInv, TypeOK
    <3>2. \A c \in Cond : waiters'[c] = IF c = fin THEN <<>> ELSE waiters[c]
      BY <3>1
    <3>3. QED BY <3>2, RangeEmpty, ZenonT(40)
  <2>3. \A t \in Thread : Looking(t)' = Looking(t) \/ \A c \in Cond \ {fin} : ~Waiting(t, c)
    BY <2>1 DEF Looking, OnOneList
  <2>4. {fin} \in SUBSET Cond BY <2>1
  <2>5. Waits!WakeAll({fin}) BY <2>2, <2>3, <2>4, WokenSleepers, ZenonT(40)
  <2>6. Waits!Wake({fin}) BY <1>0, <2>5 DEF Waits!Wake
  <2>7. QED BY <2>4, <2>6 DEF Waits!Next
<1>4. QED BY <1>1, <1>2, <1>3
\* what the steps of a thread are in WaitSpec: calling sched_wait is Prepare, a
\* store is a store, and the exchange of sched_queue_list is the wake
LEMMA ThreadSimulated ==
  ASSUME IInv, IInv', NEW t \in Thread, ThreadStep(t)
  PROVE  [Waits!Next]_(Waits!vars)
<1> USE DEF listvars, cpuvars, tvars
<1>1. pc = "thread" /\ pc' \notin {"recheck", "take"}
  BY ZenonT(40) DEF ThreadStep, Yield, Wait, Running, CallCC, NotifyTake, NotifyAdd, Abandon, Store
<1>2. \A x \in Thread : Looking(x)' = Looking(x)
  BY <1>1 DEF Looking
<1>3. CASE Yield(t) \/ NotifyAdd(t) \/ Abandon(t)
  <2>1. UNCHANGED <<waiters, val, exp>>
    BY <1>3, ZenonT(40) DEF Yield, Running, CallCC, NotifyAdd, Abandon
  <2>2. Sleepers' = Sleepers BY <1>2, <2>1, SameSleepers
  <2>3. QED BY <2>1, <2>2, ZenonT(60) DEF Waits!vars, Sleepers
<1>4. CASE NotifyTake(t)
  <2>1. notes[t] \in Cond /\ UNCHANGED <<val, exp>>
    BY <1>4, NullAssumption, ZenonT(40) DEF NotifyTake, IInv, TypeOK
  <2>2. \A c \in Cond : Range(waiters'[c]) = IF c \in {notes[t]} THEN {} ELSE Range(waiters[c])
    <3>1. waiters' = [waiters EXCEPT ![notes[t]] = <<>>] /\ waiters \in [Cond -> Seq(Thread)]
      BY <1>4, ZenonT(40) DEF NotifyTake, IInv, TypeOK
    <3>2. \A c \in Cond : waiters'[c] = IF c = notes[t] THEN <<>> ELSE waiters[c]
      BY <3>1
    <3>3. QED BY <3>2, RangeEmpty, ZenonT(40)
  <2>3. {notes[t]} \in SUBSET Cond BY <2>1
  <2>4. Waits!WakeAll({notes[t]}) BY <1>2, <2>2, <2>3, WokenSleepers, ZenonT(40)
  <2>5. Waits!Wake({notes[t]}) BY <2>1, <2>4 DEF Waits!Wake
  <2>6. QED BY <2>3, <2>5 DEF Waits!Next
<1>5. ASSUME NEW c \in Cond, NEW e \in Value, Wait(t, c, e) PROVE [Waits!Next]_(Waits!vars)
  <2>1. UNCHANGED <<waiters, val>> /\ exp' = [exp EXCEPT ![t] = e] /\ ~Queued(t)
    BY <1>5, ZenonT(40) DEF Wait, Running, CallCC, IInv, OnePlace, QueuedOrRunOrDead, OnCpu
  <2>2. Sleepers' = Sleepers BY <1>2, <2>1, SameSleepers
  <2>3. Asleep(t) = Null BY <2>1, AwakeOff DEF Queued
  <2>4. Waits!Prepare(t, e) BY <2>1, <2>2, <2>3 DEF Waits!Prepare, Sleepers
  <2>5. QED BY <2>4 DEF Waits!Next
<1>6. ASSUME NEW c \in Cond, NEW v \in Value, Store(t, c, v) PROVE [Waits!Next]_(Waits!vars)
  <2>1. UNCHANGED <<waiters, exp>> /\ val' = [val EXCEPT ![c] = v]
    BY <1>6, ZenonT(40) DEF Store, Running
  <2>2. Sleepers' = Sleepers BY <1>2, <2>1, SameSleepers
  <2>3. Waits!Store(c, v) BY <2>1, <2>2 DEF Waits!Store, Sleepers
  <2>4. QED BY <2>3 DEF Waits!Next
<1>7. QED BY <1>3, <1>4, <1>5, <1>6 DEF ThreadStep

\* what interrupts and devices are in WaitSpec: a store with its wake, a wake of
\* the drivers' sleepers, a store that nobody announces
LEMMA InterruptSimulated ==
  ASSUME IInv, IInv',
         Tick \/ \E c \in Cond, v \in Value : DeviceInterrupt(c, v) \/ RegisterChange(c, v)
  PROVE  [Waits!Next]_(Waits!vars)
<1> USE DEF listvars, cpuvars, tvars
<1>1. \A x \in Thread : Looking(x)' = Looking(x)
  BY ZenonT(40) DEF Looking, Tick, DeviceInterrupt, RegisterChange, Return
<1>2. CASE Tick
  <2>1. UNCHANGED <<val, exp>> /\ Drivers \in SUBSET Cond
    BY <1>2, DriverAssumption, ZenonT(40) DEF Tick, Drivers
  <2>2. \A c \in Cond : Range(waiters'[c]) = IF c \in Drivers THEN {} ELSE Range(waiters[c])
    <3>1. \A c \in Cond : waiters'[c] = IF c \in Drivers THEN <<>> ELSE waiters[c]
      BY <1>2, ZenonT(40) DEF Tick
    <3>2. QED BY <3>1, RangeEmpty, ZenonT(40)
  <2>3. Waits!WakeAll(Drivers) BY <1>1, <2>1, <2>2, WokenSleepers, ZenonT(40)
  <2>4. Waits!Wake(Drivers) BY <2>1, <2>3 DEF Waits!Wake
  <2>5. QED BY <2>1, <2>4, ZenonT(60) DEF Waits!Next
<1>3. ASSUME NEW c \in Cond, NEW v \in Value, DeviceInterrupt(c, v) PROVE [Waits!Next]_(Waits!vars)
  <2>1. UNCHANGED exp /\ val' = [val EXCEPT ![c] = v]
    BY <1>3, ZenonT(40) DEF DeviceInterrupt
  <2>2. \A d \in Cond : Range(waiters'[d]) = IF d \in {c} THEN {} ELSE Range(waiters[d])
    <3>1. waiters' = [waiters EXCEPT ![c] = <<>>] /\ waiters \in [Cond -> Seq(Thread)]
      BY <1>3, ZenonT(40) DEF DeviceInterrupt, IInv, TypeOK
    <3>2. \A d \in Cond : waiters'[d] = IF d = c THEN <<>> ELSE waiters[d]
      BY <3>1
    <3>3. QED BY <3>2, RangeEmpty, ZenonT(40)
  <2>3. {c} \in SUBSET Cond BY ZenonT(60)
  <2>4. Waits!WakeAll({c}) BY <1>1, <2>2, <2>3, WokenSleepers, ZenonT(40)
  <2>5. Waits!StoreAndWake(c, v) BY <2>1, <2>4 DEF Waits!StoreAndWake
  <2>6. QED BY <2>5 DEF Waits!Next
<1>4. ASSUME NEW c \in Cond, NEW v \in Value, RegisterChange(c, v) PROVE [Waits!Next]_(Waits!vars)
  <2>1. UNCHANGED <<waiters, exp>> /\ val' = [val EXCEPT ![c] = v]
    BY <1>4, ZenonT(40) DEF RegisterChange
  <2>2. Sleepers' = Sleepers BY <1>1, <2>1, SameSleepers
  <2>3. Waits!Store(c, v) BY <2>1, <2>2 DEF Waits!Store, Sleepers
  <2>4. QED BY <2>3 DEF Waits!Next
<1>5. QED BY <1>2, <1>3, <1>4

\* every step of the scheduler is a step of WaitSpec or none
LEMMA StepSimulated == IInv /\ IInv' /\ OnOneList /\ [Next]_vars => [Waits!Next]_(Waits!vars)
<1> SUFFICES ASSUME IInv, IInv', OnOneList, [Next]_vars PROVE [Waits!Next]_(Waits!vars)
  OBVIOUS
<1> USE DEF vars, listvars, cpuvars, tvars
<1>1. CASE Loop \/ Requeue \/ FinishAdd \/ UNCHANGED vars
  <2>1. UNCHANGED <<waiters, val, exp>>
    BY <1>1, ZenonT(40) DEF Loop, Dispatch, FindEmpty, Quit, WaitForInterrupt, Requeue, FinishAdd
  <2>2. \A x \in Thread : Looking(x)' = Looking(x)
    BY <1>1, ZenonT(40) DEF Looking, Loop, Dispatch, FindEmpty, Quit, WaitForInterrupt, Requeue, FinishAdd
  <2>3. Sleepers' = Sleepers BY <2>1, <2>2, SameSleepers
  <2>4. QED BY <2>1, <2>3 DEF Waits!vars, Sleepers
<1>2. QED BY <1>1, FinishSimulated, ThreadSimulated, InterruptSimulated, ZenonT(40) DEF Next, Callback

(* call_cc(sched_finish_u32) and sched_queue_list implement atomic sleep   *)
(* and wake, for any threads, conditions and values: a thread falls asleep *)
(* only in a step that finds its condition unchanged, whoever is preempted *)
(* between the store and the wake, and a wake reaches all sleepers.        *)
THEOREM SchedImplementsWaits == Spec => ImplementsWaits
<1>1. Init => Waits!Init
  <2>1. SUFFICES ASSUME Init PROVE Waits!Init OBVIOUS
  <2>2. IInv BY <2>1, InitIInv
  <2>3. \A t \in Thread : Asleep(t) = Null
    BY <2>1, RangeEmpty DEF Init, Asleep, Waiting
  <2>4. val \in [Cond -> Value] /\ exp \in [Thread -> Value] BY <2>2, ZenonT(40) DEF IInv, TypeOK
  <2>5. QED BY <2>3, <2>4 DEF Waits!Init
<1>2. Init => OnOneList BY DEF Init, OnOneList
<1>3. QED BY <1>1, <1>2, InitIInv, NextIInv, OnOneListStep, StepSimulated, PTL DEF Spec, ImplementsWaits, Waits!Spec
=============================================================================
