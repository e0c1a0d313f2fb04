------------------------------ MODULE WaitSpec ------------------------------
(***************************************************************************)
(* What call_cc(sched_finish_u32) and sched_queue_list promise to the        *)
(* threads that use them (runqueue.h:40): going to sleep and testing the   *)
(* condition is one atomic step, a wake reaches every sleeper of the list, *)
(* and a thread does not sleep for ever through a change of its condition. *)
(***************************************************************************)
EXTENDS Naturals

CONSTANTS Thread, Cond, Value, Awake

VARIABLES val,        \* [Cond -> Value]: the variable that is waited on
          asleep,     \* [Thread -> Cond or Awake]
          exp         \* [Thread -> Value]: the value it sleeps through

vars == <<val, asleep, exp>>

Init == /\ val \in [Cond -> Value]
        /\ asleep = [t \in Thread |-> Awake]
        /\ exp \in [Thread -> Value]

Store(c, v) == /\ val' = [val EXCEPT ![c] = v]
               /\ UNCHANGED <<asleep, exp>>

\* an interrupt handler stores and wakes in one step; the tick wakes the sleepers
\* of several conditions
WakeAll(C) == asleep' = [t \in Thread |-> IF asleep[t] \in C THEN Awake ELSE asleep[t]]
StoreAndWake(c, v) == val' = [val EXCEPT ![c] = v] /\ WakeAll({c}) /\ UNCHANGED exp
Wake(C) == WakeAll(C) /\ UNCHANGED <<val, exp>>

Prepare(t, e) == /\ asleep[t] = Awake
                 /\ exp' = [exp EXCEPT ![t] = e]
                 /\ UNCHANGED <<val, asleep>>

Sleep(t, c) == /\ asleep[t] = Awake /\ val[c] = exp[t]
               /\ asleep' = [asleep EXCEPT ![t] = c]
               /\ UNCHANGED <<val, exp>>

Next == \/ \E c \in Cond, v \in Value : Store(c, v) \/ StoreAndWake(c, v)
        \/ \E C \in SUBSET Cond : Wake(C)
        \/ \E t \in Thread, e \in Value : Prepare(t, e)
        \/ \E t \in Thread, c \in Cond : Sleep(t, c)

Overslept(c) == \E t \in Thread : asleep[t] = c /\ val[c] # exp[t]

Spec == Init /\ [][Next]_vars
Fairness == \A c \in Cond : WF_vars(Overslept(c) /\ \E C \in SUBSET Cond : c \in C /\ Wake(C))
=============================================================================
