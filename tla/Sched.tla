------------------------------- MODULE Sched -------------------------------
(***************************************************************************)
(* The scheduler of one CPU: the loop of main() (dramstage/main.c,         *)
(* sramstage/main.c), the context switches of aarch64/context.S, the       *)
(* wait and wake functions of lib/sched.c and the interrupt handler        *)
(* plat_handler_fiq, with preemption by the tick.                          *)
(*                                                                         *)
(* A wait condition is a variable with the runnable list its waiters queue *)
(* on.  Lists are queues with atomic operations, which is what RunList     *)
(* shows of their implementation.  Interrupt handlers run to completion:   *)
(* all interrupts have one priority and there is one CPU.  Threads are     *)
(* arbitrary programs over yield, wait, store-and-notify and return, and   *)
(* are interrupted between any two of their steps.                         *)
(***************************************************************************)
EXTENDS Naturals, Sequences, Functions

CONSTANTS Threads,      \* the array threads[]
          Cond,         \* variables that are waited on, each with its list
          Emmc, Sd,     \* the drivers' conditions, Null where not configured
          Value,
          Null          \* TPIDR = 0; no condition

Thread == Range(Threads)

ASSUME ThreadsAssumption == /\ Threads \in Seq(Thread)
                            /\ \A i, j \in DOMAIN Threads : Threads[i] = Threads[j] => i = j
ASSUME ValueAssumption == Value # {}
ASSUME NullAssumption == Null \notin Thread \union Cond

\* conditions on device registers: they change without a notification, and the
\* tick wakes their waiters so that these look again
Drivers == {Emmc, Sd} \ {Null}

ASSUME DriverAssumption == /\ {Emmc, Sd} \subseteq Cond \union {Null}
                           /\ Emmc = Sd => Emmc = Null

VARIABLES ready,        \* the runqueue, next to run first
          waiters,      \* [Cond -> queue of threads]
          val,          \* [Cond -> Value]
          pc,           \* what the CPU executes
          cur,          \* the thread on the CPU, or the continuation being finished
          fin,          \* the condition that sched_finish_u32 was called with
          cpuheld,      \* waiters that sched_finish_u32 is moving to the runqueue
          exp,          \* [Thread -> Value]: expected, of the thread's last wait
          notes,        \* [Thread -> Cond or Null]: stored to, and not yet notified
          held,         \* [Thread -> queue]: waiters it is moving to the runqueue
          status,       \* [Thread -> set of the bits that are 1]
          saved         \* [Thread -> how its context was saved last]

cpuvars == <<pc, cur, fin, cpuheld>>
listvars == <<ready, waiters>>
tvars == <<exp, notes, held, status, saved>>
vars == <<listvars, val, cpuvars, tvars>>

\* thread.status: bits 0-3 hold THREAD_*, bit 4 is the preempt request
PREEMPTED == {0}
YIELDED == {0, 1}
DEAD == {2}
PREEMPT_REQ == 4
State(t) == status[t] \ {PREEMPT_REQ}

Init == /\ ready = Threads
        /\ waiters = [c \in Cond |-> <<>>]
        /\ val \in [Cond -> Value]
        /\ pc = "loop" /\ cur = Null /\ fin = Null /\ cpuheld = <<>>
        /\ exp = [t \in Thread |-> CHOOSE v \in Value : TRUE]
        /\ notes = [t \in Thread |-> Null]
        /\ held = [t \in Thread |-> <<>>]
        /\ status = [t \in Thread |-> PREEMPTED]
        /\ saved = [t \in Thread |-> "full"]

-----------------------------------------------------------------------------
(* The loop of main().                                                     *)

\* sched_unqueue finds a thread: arch_sched_run clears bits 0-3 and enters it
Dispatch ==
  /\ pc = "loop" /\ ready # <<>>
  /\ pc' = "thread" /\ cur' = Head(ready) /\ ready' = Tail(ready)
  /\ status' = [status EXCEPT ![Head(ready)] = @ \cap {PREEMPT_REQ}]
  /\ UNCHANGED <<waiters, val, fin, cpuheld, exp, notes, held, saved>>

\* it finds none; interrupts stay masked
FindEmpty ==
  /\ pc = "loop" /\ ready = <<>>
  /\ pc' = "empty"
  /\ UNCHANGED <<listvars, val, cur, fin, cpuheld, tvars>>

AllDead == \A t \in Thread : State(t) = DEAD

Quit ==
  /\ pc = "empty" /\ AllDead
  /\ pc' = "quit"
  /\ UNCHANGED <<listvars, val, cur, fin, cpuheld, tvars>>

WaitForInterrupt ==
  /\ pc = "empty" /\ ~AllDead
  /\ pc' = "wfi"
  /\ UNCHANGED <<listvars, val, cur, fin, cpuheld, tvars>>

-----------------------------------------------------------------------------
(* A thread's steps.                                                       *)

\* between two calls: no notification of its own in progress
Running(t) == pc = "thread" /\ cur = t /\ notes[t] = Null /\ held[t] = <<>>

\* call_cc saves the callee-saved registers and leaves on the CPU's stack
CallCC(t, finish) ==
  /\ pc' = finish
  /\ status' = [status EXCEPT ![t] = @ \union YIELDED]
  /\ saved' = [saved EXCEPT ![t] = "call"]

\* sched_yield; usleep is a loop of these
Yield(t) ==
  /\ Running(t)
  /\ CallCC(t, "requeue")
  /\ UNCHANGED <<listvars, val, cur, fin, cpuheld, exp, notes, held>>

\* sched_wait_u8, and call_cc_ptr2_int2 with sched_finish_u8, _u32 or _u8ptr;
\* expected is a value the thread read earlier, or a constant.  Nothing calls
\* sched_wait_u16, whose finish_u16 looks at 8 of the 16 bits.
Wait(t, c, e) ==
  /\ Running(t)
  /\ CallCC(t, "enqueue")
  /\ fin' = c
  /\ exp' = [exp EXCEPT ![t] = e]
  /\ UNCHANGED <<listvars, val, cur, cpuheld, notes, held>>

\* atomic store or fetch_or, to be followed by sched_queue_list
Store(t, c, v) ==
  /\ Running(t)
  /\ val' = [val EXCEPT ![c] = v]
  /\ notes' = [notes EXCEPT ![t] = c]
  /\ UNCHANGED <<listvars, cpuvars, exp, held, status, saved>>

\* mutant: a load in place of the exchange
NotifyTake_Load(t) ==
  /\ pc = "thread" /\ cur = t /\ notes[t] # Null
  /\ held' = [held EXCEPT ![t] = waiters[notes[t]]]
  /\ notes' = [notes EXCEPT ![t] = Null]
  /\ UNCHANGED <<listvars, val, cpuvars, exp, status, saved>>

\* sched_queue_list: the exchange, then sched_queue_many
NotifyTake(t) ==
  /\ pc = "thread" /\ cur = t /\ notes[t] # Null
  /\ held' = [held EXCEPT ![t] = waiters[notes[t]]]
  /\ waiters' = [waiters EXCEPT ![notes[t]] = <<>>]
  /\ notes' = [notes EXCEPT ![t] = Null]
  /\ UNCHANGED <<ready, val, cpuvars, exp, status, saved>>

NotifyAdd(t) ==
  /\ pc = "thread" /\ cur = t /\ held[t] # <<>>
  /\ ready' = ready \o held[t]
  /\ held' = [held EXCEPT ![t] = <<>>]
  /\ UNCHANGED <<waiters, val, cpuvars, exp, notes, status, saved>>

\* the thread function returns into aarch64_abandon_thread
Abandon(t) ==
  /\ Running(t)
  /\ pc' = "loop" /\ cur' = Null
  /\ status' = [status EXCEPT ![t] = @ \union DEAD]
  /\ UNCHANGED <<listvars, val, fin, cpuheld, exp, notes, held, saved>>

-----------------------------------------------------------------------------
(* The callbacks of call_cc and of preemption, on the CPU's stack.         *)

\* yield_finish and sched_thread_preempted
Requeue ==
  /\ pc = "requeue"
  /\ ready' = Append(ready, cur)
  /\ pc' = "loop" /\ cur' = Null
  /\ UNCHANGED <<waiters, val, fin, cpuheld, tvars>>

\* mutant: no second look at the variable
FinishEnqueue_NoRecheck ==
  /\ pc = "enqueue"
  /\ waiters' = [waiters EXCEPT ![fin] = Append(@, cur)]
  /\ pc' = "loop" /\ cur' = Null /\ fin' = Null
  /\ UNCHANGED <<ready, val, cpuheld, tvars>>

\* sched_finish_u32: queue the continuation first ...
FinishEnqueue ==
  /\ pc = "enqueue"
  /\ waiters' = [waiters EXCEPT ![fin] = Append(@, cur)]
  /\ pc' = "recheck"
  /\ UNCHANGED <<ready, val, cur, fin, cpuheld, tvars>>

\* ... then look at the variable again ...
FinishRecheck ==
  /\ pc = "recheck"
  /\ IF val[fin] # exp[cur]
       THEN pc' = "take" /\ UNCHANGED <<cur, fin>>
       ELSE pc' = "loop" /\ cur' = Null /\ fin' = Null
  /\ UNCHANGED <<listvars, val, cpuheld, tvars>>

\* ... and if it changed, requeue the whole list
FinishTake ==
  /\ pc = "take"
  /\ cpuheld' = waiters[fin]
  /\ waiters' = [waiters EXCEPT ![fin] = <<>>]
  /\ pc' = "add" /\ cur' = Null /\ fin' = Null
  /\ UNCHANGED <<ready, val, tvars>>

FinishAdd ==
  /\ pc = "add"
  /\ ready' = ready \o cpuheld
  /\ cpuheld' = <<>>
  /\ pc' = "loop"
  /\ UNCHANGED <<waiters, val, cur, fin, tvars>>

-----------------------------------------------------------------------------
(* Interrupts: plat_handler_fiq, entered through vector_thread on a        *)
(* thread's stack and through vector_cpu on the CPU's.                     *)

MaskedPcs == {"empty", "quit"}

\* return_to_thread: a requested preemption saves the full context and leaves
\* for sched_thread_preempted.  On the CPU's stack the interrupted code goes on,
\* out of wfi if it was there.
Return(req) ==
  IF pc = "thread" /\ req
    THEN /\ pc' = "requeue"
         /\ status' = [status EXCEPT ![cur] = @ \union PREEMPTED \union {PREEMPT_REQ}]
         /\ saved' = [saved EXCEPT ![cur] = "full"]
    ELSE /\ pc' = IF pc = "wfi" THEN "loop" ELSE pc
         /\ UNCHANGED <<status, saved>>

\* a device handler stores to its condition and queues the waiters
DeviceInterrupt(c, v) ==
  /\ pc \notin MaskedPcs
  /\ val' = [val EXCEPT ![c] = v]
  /\ ready' = ready \o waiters[c]
  /\ waiters' = [waiters EXCEPT ![c] = <<>>]
  /\ Return(pc = "thread" /\ PREEMPT_REQ \in status[cur])
  /\ UNCHANGED <<cur, fin, cpuheld, exp, notes, held>>

\* the tick queues the waiters of the drivers and requests preemption
WaitersOf(driver) == IF driver = Null THEN <<>> ELSE waiters[driver]
\* mutant: the tick does not wake the waiters of the drivers
Tick_NoWake ==
  /\ pc \notin MaskedPcs
  /\ Return(TRUE)
  /\ UNCHANGED <<listvars, val, cur, fin, cpuheld, exp, notes, held>>


Tick ==
  /\ pc \notin MaskedPcs
  /\ ready' = ready \o WaitersOf(Emmc) \o WaitersOf(Sd)
  /\ waiters' = [c \in Cond |-> IF c \in Drivers THEN <<>> ELSE waiters[c]]
  /\ Return(TRUE)
  /\ UNCHANGED <<val, cur, fin, cpuheld, exp, notes, held>>

\* a register such as the eMMC's present_state changes and nothing is raised
RegisterChange(c, v) ==
  /\ pc # "quit" /\ c \in Drivers
  /\ val' = [val EXCEPT ![c] = v]
  /\ UNCHANGED <<listvars, cpuvars, tvars>>

-----------------------------------------------------------------------------
Loop == Dispatch \/ FindEmpty \/ Quit \/ WaitForInterrupt
Callback == Requeue \/ FinishEnqueue \/ FinishRecheck \/ FinishTake \/ FinishAdd
ThreadStep(t) == \/ Yield(t) \/ NotifyTake(t) \/ NotifyAdd(t) \/ Abandon(t)
                 \/ \E c \in Cond, v \in Value : Wait(t, c, v) \/ Store(t, c, v)

Next == \/ Loop \/ Callback
        \/ \E t \in Thread : ThreadStep(t)
        \/ \E c \in Cond, v \in Value : DeviceInterrupt(c, v) \/ RegisterChange(c, v)
        \/ Tick
        \/ (pc = "quit" /\ UNCHANGED vars)      \* main goes on to commit()

Spec == Init /\ [][Next]_vars

(* The CPU runs, a pending tick is taken once interrupts are unmasked, and *)
(* a time slice is long enough for the steps of sched_queue_list.          *)
Fairness == /\ WF_vars(Loop \/ Callback)
            /\ SF_vars(Tick)
            /\ \A t \in Thread : SF_vars(NotifyTake(t)) /\ SF_vars(NotifyAdd(t))

FairSpec == Spec /\ Fairness

-----------------------------------------------------------------------------
(* Types.  Threads on the way somewhere are in ready, waiters, held or     *)
(* cpuheld, or are cur.                                                    *)
TypeOK ==
  /\ ready \in Seq(Thread)
  /\ waiters \in [Cond -> Seq(Thread)]
  /\ val \in [Cond -> Value]
  /\ pc \in {"loop", "empty", "wfi", "quit", "thread", "requeue",
            "enqueue", "recheck", "take", "add"}
  /\ cur \in Thread \union {Null}
  /\ pc \in {"thread", "requeue", "enqueue", "recheck", "take"} => cur \in Thread
  /\ fin \in Cond \union {Null}
  /\ pc \in {"enqueue", "recheck", "take"} => fin \in Cond
  /\ cpuheld \in Seq(Thread)
  /\ exp \in [Thread -> Value]
  /\ notes \in [Thread -> Cond \union {Null}]
  /\ held \in [Thread -> Seq(Thread)]
  /\ status \in [Thread -> SUBSET {0, 1, 2, PREEMPT_REQ}]
  /\ saved \in [Thread -> {"full", "call"}]

OnCpu(t) == cur = t /\ pc \in {"thread", "requeue", "enqueue"}
Waiting(t, c) == t \in Range(waiters[c])

(* No wakeup is lost: when a thread is on a list although the variable it  *)
(* waits on has changed, somebody is still going to take the whole list:   *)
(* a thread that stored and has not notified yet, or sched_finish_u32 that *)
(* has queued this very thread and not looked again, or has looked and not *)
(* requeued (sched.c:74-79 against dramstage/main.c:177-178).  Device      *)
(* registers are exempt: see NoOversleeping.                               *)
WakeOwed(t, c) == \/ \E n \in Thread : notes[n] = c
                  \/ pc = "recheck" /\ fin = c /\ cur = t
                  \/ pc = "take" /\ fin = c
NoLostWakeup ==
  \A c \in Cond \ Drivers : \A t \in Thread :
    Waiting(t, c) /\ val[c] # exp[t] => WakeOwed(t, c)

(* A thread is in exactly one place: once on one queue, or on the CPU, or  *)
(* dead.  In particular a woken thread is never queued twice and a dead    *)
(* one is never queued, whoever was preempted while moving a list.         *)
Queued(t) == \/ t \in Range(ready) \union Range(cpuheld)
             \/ \E c \in Cond : Waiting(t, c)
             \/ \E n \in Thread : t \in Range(held[n])
ListsDisjoint ==
  /\ IsInjective(ready) /\ IsInjective(cpuheld)
  /\ \A c \in Cond : IsInjective(waiters[c])
  /\ \A n \in Thread : IsInjective(held[n])
  /\ Range(ready) \cap Range(cpuheld) = {}
  /\ \A c \in Cond : Range(waiters[c]) \cap (Range(ready) \union Range(cpuheld)) = {}
  /\ \A n \in Thread : Range(held[n]) \cap (Range(ready) \union Range(cpuheld)) = {}
  /\ \A c \in Cond, n \in Thread : Range(waiters[c]) \cap Range(held[n]) = {}
  /\ \A c, d \in Cond : c # d => Range(waiters[c]) \cap Range(waiters[d]) = {}
  /\ \A n, m \in Thread : n # m => Range(held[n]) \cap Range(held[m]) = {}
QueuedOrRunOrDead ==
  \A t \in Thread : /\ Queued(t) => ~OnCpu(t) /\ State(t) # DEAD
                    /\ OnCpu(t) => State(t) # DEAD
                    /\ Queued(t) \/ OnCpu(t) \/ State(t) = DEAD
OnePlace == ListsDisjoint /\ QueuedOrRunOrDead

(* The CPU only sleeps when there is nothing to do: no thread is runnable, *)
(* none is half moved by a preempted notifier, and every live thread waits *)
(* on a condition that still has the value it waits through (or on a       *)
(* device register).                                                       *)
IdleMeansAllWaiting ==
  pc = "wfi" =>
    /\ ready = <<>>
    /\ \A t \in Thread : State(t) # DEAD =>
         \E c \in Cond : Waiting(t, c) /\ (val[c] = exp[t] \/ c \in Drivers)

(* A context saved by an exception is resumed by an exception return, one  *)
(* saved by call_cc by a plain return: arch_sched_run decides by bits 0-3, *)
(* which are ORed in at each switch (context.S:90, 116, 144).              *)
ResumeMatchesSave ==
  \A t \in Thread : ~(pc = "thread" /\ cur = t) /\ State(t) # DEAD =>
    (State(t) = PREEMPTED <=> saved[t] = "full")

(* Whoever is in the middle of a notification can run: it never waits and  *)
(* is never itself among threads that another one has half moved.          *)
NotifiersRunnable ==
  \A n \in Thread : notes[n] # Null \/ held[n] # <<>> =>
    n \in Range(ready) \/ (cur = n /\ pc \in {"thread", "requeue"})

(* The threads are where the CPU loop and the notifiers look for them: in  *)
(* one place, saved the way they will be resumed, runnable while they owe  *)
(* a wake-up, and all waiting when the CPU sleeps (sched.c:60-125, the     *)
(* loop of main.c and context.S together).                                 *)
ThreadsSound == TypeOK /\ OnePlace /\ ResumeMatchesSave /\ NotifiersRunnable /\ IdleMeansAllWaiting

-----------------------------------------------------------------------------
(* Every runnable thread gets the CPU, whatever the others do.             *)
NoStarvation == \A t \in Thread : t \in Range(ready) ~> OnCpu(t)

(* A thread does not sleep through a change of its condition: it is taken  *)
(* off the list, or the variable goes back to the value it waits through.  *)
NoOversleeping ==
  \A t \in Thread, c \in Cond :
    Waiting(t, c) /\ val[c] # exp[t] ~> ~Waiting(t, c) \/ val[c] = exp[t]

(* The scheduler implements atomic sleep and wake.  A thread sleeps from   *)
(* the moment sched_finish_u32 has looked again and found the value          *)
(* unchanged.                                                              *)
Asleep(t) ==
  IF (\E c \in Cond : Waiting(t, c)) /\ ~(cur = t /\ pc \in {"recheck", "take"})
    THEN CHOOSE c \in Cond : Waiting(t, c)
    ELSE Null
Waits == INSTANCE WaitSpec WITH asleep <- [t \in Thread |-> Asleep(t)], Awake <- Null
ImplementsWaits == Waits!Spec

(* Every thread that could go on does: it gets the CPU when it is runnable *)
(* and becomes runnable when its condition has changed, as WaitSpec asks   *)
(* of a fair wait.                                                         *)
ThreadsProgress == NoStarvation /\ NoOversleeping /\ Waits!Fairness
=============================================================================
