------------------------------- MODULE DdrInit -------------------------------
(***************************************************************************)
(* DRAM initialization in sramstage (dram/ddrinit.c, dram/training.c): the *)
(* interrupt handler that takes each channel through its detection, and    *)
(* two threads, of which the primary switches the memory clock and trains  *)
(* channel 0 while the secondary trains channel 1.  They agree by the      *)
(* value of sync.                                                          *)
(*                                                                         *)
(* Sleeping and testing sync is one step and a wake reaches every sleeper  *)
(* (Sched, property ImplementsWaits).  An interrupt handler runs to its    *)
(* end: all interrupts have one priority.                                  *)
(***************************************************************************)
EXTENDS Integers, Sequences

Channel == {0, 1}
Rank == {0, 1}
Steps == 2              \* 400 MHz, 800 MHz

\* enum channel_state, as far as it is used
ChanState == {"CONFIGURED", "INIT", "CS0_MR5", "READY", "SWITCHED"}
Phase == <<"write", "gate", "read", "wdq">>

VARIABLES
  chan_st,              \* [Channel -> ChanState]
  geo,                  \* [Channel -> set of ranks]: csmask
  int_status,           \* [Channel -> SUBSET {"INIT_DONE", "MRR_DONE"}]: of the controller
  busy,                 \* [Channel -> BOOLEAN]: the controller has been given a command
  enabled,              \* channels whose interrupt the GIC forwards
  sync,
  asleep,               \* threads on waiters
  primary, secondary,   \* where the threads are
  expected,             \* ddrinit_secondary: the local sync
  phase,                \* [Channel -> how far train_channel is]
  failed,               \* [Channel -> BOOLEAN]: training_fail
  clock,                \* steps of the memory clock that have been made
  trained,              \* [Channel -> number of trainings that have ended]
  flags,                \* rk3399_init_flags
  died                  \* die() was reached, and where

ctlvars == <<chan_st, geo, int_status, busy>>
trainvars == <<phase, failed, trained>>
vars == <<ctlvars, enabled, sync, asleep, primary, secondary, expected, trainvars,
          clock, flags, died>>

\* main() after ddrinit_configure, with both threads queued
Init ==
  /\ chan_st = [c \in Channel |-> "CONFIGURED"]
  /\ geo = [c \in Channel |-> {}]
  /\ int_status = [c \in Channel |-> {}] /\ busy = [c \in Channel |-> TRUE]
  /\ enabled = Channel
  /\ sync = 0 /\ asleep = {}
  /\ primary = "await_ready" /\ secondary = "wait" /\ expected = 0
  /\ phase = [c \in Channel |-> 0] /\ failed = [c \in Channel |-> FALSE]
  /\ clock = 0 /\ trained = [c \in Channel |-> 0]
  /\ flags = {} /\ died = "no"

-----------------------------------------------------------------------------
(* The controllers and their interrupts.                                   *)

\* a controller ends its initialization or the mode register read
Complete(c) ==
  /\ busy[c] /\ died = "no"
  /\ busy' = [busy EXCEPT ![c] = FALSE]
  /\ int_status' = [int_status EXCEPT ![c] =
                      IF chan_st[c] = "CONFIGURED" THEN {"INIT_DONE"} ELSE {"MRR_DONE"}]
  /\ UNCHANGED <<chan_st, geo, enabled, sync, asleep, primary, secondary, expected, trainvars,
                 clock, flags, died>>

\* the status bit that a state of the channel waits for, and its successor
Awaits(st) == IF st = "CONFIGURED" THEN "INIT_DONE" ELSE "MRR_DONE"
After(st) == IF st = "CONFIGURED" THEN "INIT" ELSE IF st = "INIT" THEN "CS0_MR5" ELSE "READY"
RankRead(st) == IF st = "INIT" THEN 0 ELSE 1

\* mutant: the other channel is not looked at
AllReady_Own(c, st) == st[c] \in {"READY", "SWITCHED"}

AllReady(c, st) == \A d \in Channel : st[d] \in {"READY", "SWITCHED"}

\* set_width: the mode register reads as 0 if the rank does not exist
Detected(c, present) ==
  IF chan_st[c] # "CONFIGURED" /\ present THEN geo[c] \union {RankRead(chan_st[c])} ELSE geo[c]

\* ddrinit_irq; ddrinit_notify(st, 1) at its end
Interrupt(c, present) ==
  /\ c \in enabled /\ int_status[c] # {} /\ died = "no"
  /\ LET st == chan_st[c]
         next == [chan_st EXCEPT ![c] = After(st)]
         notify == After(st) = "READY" /\ AllReady(c, next) IN
     IF st \in {"CONFIGURED", "INIT", "CS0_MR5"} /\ Awaits(st) \in int_status[c]
       THEN /\ chan_st' = next
            /\ int_status' = [int_status EXCEPT ![c] = @ \ {Awaits(st)}]
            /\ geo' = [geo EXCEPT ![c] = Detected(c, present)]
            /\ busy' = [busy EXCEPT ![c] = After(st) # "READY"]
            /\ flags' = flags \union (IF st = "INIT" THEN {} ELSE {<<After(st), c>>})
            /\ sync' = IF notify THEN 1 ELSE sync
            /\ asleep' = IF notify THEN {} ELSE asleep
            /\ UNCHANGED died
       ELSE died' = "interrupt" /\ UNCHANGED <<ctlvars, flags, sync, asleep>>
  /\ UNCHANGED <<enabled, primary, secondary, expected, trainvars, clock>>

-----------------------------------------------------------------------------
(* Both threads.                                                           *)

Running(t) == died = "no" /\ t \notin asleep

\* ddrinit_wait: sleep while sync is val
SleepOn(t, val) == sync = val /\ asleep' = asleep \union {t}

\* train_channel: one kind of training of all ranks; it may fail on a rank
Train(c) ==
  /\ phase[c] < Len(Phase)
  /\ phase' = [phase EXCEPT ![c] = @ + 1]
  /\ \/ UNCHANGED failed
     \/ geo[c] # {} /\ failed' = [failed EXCEPT ![c] = TRUE]
  /\ UNCHANGED <<trained, died>>

\* training_task: it ends, or the assertion that it went well fails
EndTrain(c) ==
  /\ phase[c] = Len(Phase)
  /\ IF failed[c] THEN died' = "training" /\ UNCHANGED trainvars
     ELSE /\ trained' = [trained EXCEPT ![c] = @ + 1]
          /\ phase' = [phase EXCEPT ![c] = 0]
          /\ UNCHANGED <<failed, died>>

-----------------------------------------------------------------------------
(* ddrinit_primary.                                                        *)

unprimary == <<ctlvars, secondary, expected>>

At(l) == primary = l /\ Running("primary")
Goto(l) == primary' = l
Sync(val) == sync' = val

\* the first ddrinit_wait, and the one of ddrinit_train
AwaitReady ==
  /\ At("await_ready")
  /\ \/ SleepOn("primary", 0) /\ UNCHANGED <<primary, died>>
     \/ /\ sync # 0 /\ UNCHANGED asleep
        /\ IF sync = 1 THEN Goto("clear") /\ UNCHANGED died ELSE died' = "sync" /\ UNCHANGED primary
  /\ UNCHANGED <<unprimary, enabled, sync, trainvars, clock, flags>>

\* mutant: whatever the secondary's state, the training is over
AwaitTrained_NoWait ==
  /\ At("await_trained")
  /\ Goto(IF clock < Steps THEN "clear" ELSE "stop")
  /\ UNCHANGED <<unprimary, enabled, sync, asleep, trainvars, clock, flags, died>>

AwaitTrained ==
  /\ At("await_trained")
  /\ \/ SleepOn("primary", 2) /\ UNCHANGED <<primary, died>>
     \/ /\ sync # 2 /\ UNCHANGED asleep
        /\ IF sync = 1 THEN Goto(IF clock < Steps THEN "clear" ELSE "stop") /\ UNCHANGED died
                       ELSE died' = "sync" /\ UNCHANGED primary
  /\ UNCHANGED <<unprimary, enabled, sync, trainvars, clock, flags>>

\* switch_and_train: nobody is woken
ClearSync ==
  /\ At("clear") /\ Sync(0) /\ Goto("disable_0")
  /\ UNCHANGED <<unprimary, enabled, asleep, trainvars, clock, flags, died>>

DisableSpi(c, from, to) ==
  /\ At(from) /\ enabled' = enabled \ {c} /\ Goto(to)
  /\ UNCHANGED <<unprimary, sync, asleep, trainvars, clock, flags, died>>

\* freq_step: the bus is idle, then the clock has changed; the PLL may not lock
BeginSwitch ==
  /\ At("switch") /\ Goto("idle_bus")
  /\ UNCHANGED <<unprimary, enabled, sync, asleep, trainvars, clock, flags, died>>

EndSwitch ==
  /\ At("idle_bus")
  /\ \/ clock' = clock + 1 /\ Goto("switched") /\ UNCHANGED died
     \/ died' = "clock" /\ UNCHANGED <<clock, primary>>
  /\ UNCHANGED <<unprimary, enabled, sync, asleep, trainvars, flags>>

Switched ==
  /\ At("switched")
  /\ chan_st' = [c \in Channel |-> "SWITCHED"]
  /\ Goto("enable_0")
  /\ UNCHANGED <<geo, int_status, busy, secondary, expected, enabled, sync, asleep, trainvars,
                 clock, flags, died>>

EnableSpi(c, from, to) ==
  /\ At(from) /\ enabled' = enabled \union {c} /\ Goto(to)
  /\ UNCHANGED <<unprimary, sync, asleep, trainvars, clock, flags, died>>

\* ddrinit_notify: the store, then the wake
Notify(from, val, to) ==
  /\ At(from) /\ Sync(val) /\ Goto(to)
  /\ UNCHANGED <<unprimary, enabled, asleep, trainvars, clock, flags, died>>

Wake(from, to) ==
  /\ At(from) /\ asleep' = {} /\ Goto(to)
  /\ UNCHANGED <<unprimary, enabled, sync, trainvars, clock, flags, died>>

PrimaryTrains ==
  /\ At("train")
  /\ \/ Train(0) /\ UNCHANGED primary
     \/ EndTrain(0) /\ Goto(IF died' = "no" THEN "await_trained" ELSE "train")
  /\ UNCHANGED <<unprimary, enabled, sync, asleep, clock, flags>>

\* channel_post_init of both channels, encode_dram_size: the geometry is found by
\* mirror tests, or there is something wrong with it
PostInit ==
  /\ At("post_init")
  /\ \/ /\ \A c \in Channel : geo[c] # {} => 0 \in geo[c]
        /\ flags' = flags \union {<<"DRAM_TRAINING">>}
        /\ Goto("mirror") /\ UNCHANGED died
     \/ /\ \E c \in Channel : geo[c] # {}
        /\ died' = "geometry" /\ UNCHANGED <<flags, primary>>
  /\ UNCHANGED <<unprimary, enabled, sync, asleep, trainvars, clock>>

TestMirrors ==
  /\ At("mirror")
  /\ \/ flags' = flags \union {<<"DRAM_READY">>} /\ Goto("dead") /\ UNCHANGED died
     \/ died' = "geometry" /\ UNCHANGED <<flags, primary>>
  /\ UNCHANGED <<unprimary, enabled, sync, asleep, trainvars, clock>>

PrimaryStep ==
  \/ AwaitReady \/ ClearSync
  \/ DisableSpi(0, "disable_0", "disable_1") \/ DisableSpi(1, "disable_1", "switch")
  \/ BeginSwitch \/ EndSwitch \/ Switched
  \/ EnableSpi(0, "enable_0", "enable_1") \/ EnableSpi(1, "enable_1", "start")
  \/ Notify("start", 2, "start_wake") \/ Wake("start_wake", "train")
  \/ PrimaryTrains \/ AwaitTrained
  \/ Notify("stop", 3, "stop_wake") \/ Wake("stop_wake", "post_init")
  \/ PostInit \/ TestMirrors

-----------------------------------------------------------------------------
(* ddrinit_secondary.                                                      *)

unsecondary == <<ctlvars, enabled, primary, clock, flags>>

SecondaryWait ==
  /\ secondary = "wait" /\ Running("secondary")
  /\ \/ SleepOn("secondary", expected) /\ UNCHANGED <<secondary, expected>>
     \/ /\ sync # expected /\ UNCHANGED asleep
        /\ expected' = sync
        /\ secondary' = IF sync = 3 THEN "dead" ELSE IF sync = 2 THEN "train" ELSE "wait"
  /\ UNCHANGED <<unsecondary, sync, trainvars, died>>

SecondaryTrains ==
  /\ secondary = "train" /\ Running("secondary")
  /\ \/ Train(1) /\ UNCHANGED secondary
     \/ EndTrain(1) /\ secondary' = IF died' = "no" THEN "notify" ELSE "train"
  /\ UNCHANGED <<unsecondary, expected, sync, asleep>>

SecondaryNotify ==
  /\ secondary = "notify" /\ Running("secondary")
  /\ sync' = 1 /\ secondary' = "wake"
  /\ UNCHANGED <<unsecondary, expected, asleep, trainvars, died>>

\* mutant: the waiters are not queued
SecondaryWake_Nobody ==
  /\ secondary = "wake" /\ Running("secondary")
  /\ expected' = 1 /\ secondary' = "wait"
  /\ UNCHANGED <<unsecondary, sync, asleep, trainvars, died>>

SecondaryWake ==
  /\ secondary = "wake" /\ Running("secondary")
  /\ asleep' = {} /\ expected' = 1 /\ secondary' = "wait"
  /\ UNCHANGED <<unsecondary, sync, trainvars, died>>

SecondaryStep == SecondaryWait \/ SecondaryTrains \/ SecondaryNotify \/ SecondaryWake

-----------------------------------------------------------------------------
Interrupts(c) == \E present \in BOOLEAN : Interrupt(c, present)

\* main() leaves its loop when both threads are dead; die() does not return
Ended == died # "no" \/ (primary = "dead" /\ secondary = "dead")

\* main() waits for an interrupt, if only the tick
Idle == \A t \in {"primary", "secondary"} : t \in asleep \/ (t = "secondary" /\ secondary = "dead")

Next == \/ PrimaryStep \/ SecondaryStep
        \/ \E c \in Channel : Complete(c) \/ Interrupts(c)
        \/ (Idle \/ Ended) /\ UNCHANGED vars

Spec == Init /\ [][Next]_vars

(* The scheduler runs every runnable thread (Sched, property NoStarvation) *)
(* and the controllers answer.                                             *)
Fairness == /\ WF_vars(PrimaryStep) /\ WF_vars(SecondaryStep)
            /\ \A c \in Channel : WF_vars(Complete(c)) /\ WF_vars(Interrupts(c))
FairSpec == Spec /\ Fairness

-----------------------------------------------------------------------------
(* Types.                                                                  *)
TypeOK ==
  /\ chan_st \in [Channel -> ChanState] /\ geo \in [Channel -> SUBSET Rank]
  /\ int_status \in [Channel -> SUBSET {"INIT_DONE", "MRR_DONE"}] /\ busy \in [Channel -> BOOLEAN]
  /\ enabled \in SUBSET Channel
  /\ sync \in 0..3 /\ expected \in 0..3
  /\ asleep \in SUBSET {"primary", "secondary"}
  /\ primary \in {"await_ready", "clear", "disable_0", "disable_1", "switch", "idle_bus",
                  "switched", "enable_0", "enable_1", "start", "start_wake", "train",
                  "await_trained", "stop", "stop_wake", "post_init", "mirror", "dead"}
  /\ secondary \in {"wait", "train", "notify", "wake", "dead"}
  /\ phase \in [Channel -> 0..Len(Phase)] /\ failed \in [Channel -> BOOLEAN]
  /\ clock \in 0..Steps /\ trained \in [Channel -> 0..Steps]
  /\ died \in {"no", "interrupt", "sync", "clock", "training", "geometry"}

(* The threads never disagree: neither "sync error" nor an "unexpected     *)
(* interrupt" is ever reported (ddrinit.c:249, training.c:213,             *)
(* ddrinit.c:382), whichever thread is faster and wherever the interrupts  *)
(* fall.                                                                   *)
NoSyncError == died \notin {"sync", "interrupt"}

(* While the bus to the controllers is idle nobody touches their registers *)
(* (ddrinit.c:220): no interrupt of theirs can be taken, the secondary is  *)
(* not training, and no controller still works on a command.               *)
SwitchAlone ==
  primary \in {"idle_bus", "switched"} =>
    enabled = {} /\ secondary # "train" /\ \A c \in Channel : ~busy[c] /\ int_status[c] = {}

(* The two threads and the interrupts keep to the barrier's protocol.      *)
BarrierSound == TypeOK /\ NoSyncError /\ SwitchAlone

(* The initialization of the DRAM is the one of DdrSpec: each channel is   *)
(* trained at each of the two clocks with its final csmask, the clock does *)
(* not change during a training, and the memory is only declared trained   *)
(* after the last training of the slower channel.                          *)
Known == {c \in Channel : chan_st[c] \in {"READY", "SWITCHED"}}
InTraining == {c \in Channel : phase[c] > 0}
Abstract == INSTANCE DdrSpec WITH known <- Known, training <- InTraining,
                                  finished <- <<"DRAM_TRAINING">> \in flags
ImplementsTraining == Abstract!Spec

(* Initialization ends: neither thread sleeps through a change of sync, so *)
(* both return and main() goes on, or one of the failures is reported.     *)
Ends == <>Ended
=============================================================================
