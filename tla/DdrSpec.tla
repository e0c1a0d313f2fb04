------------------------------- MODULE DdrSpec -------------------------------
(* What the training of the DRAM has to be: the memory clock goes through  *)
(* its steps; at each step every channel is trained once, at a clock that  *)
(* does not change meanwhile; the clock is only changed when all channels  *)
(* are known and none is being trained.                                    *)
EXTENDS Integers

CONSTANTS Channel, Steps

VARIABLES
  known,      \* channels whose ranks have been detected
  clock,      \* 0 before the first step
  training,   \* channels being trained
  trained,    \* [Channel -> number of steps it has been trained at]
  finished    \* the memory may be used

vars == <<known, clock, training, trained, finished>>

Init ==
  /\ known = {} /\ clock = 0 /\ training = {}
  /\ trained = [c \in Channel |-> 0]
  /\ finished = FALSE

Detect(c) ==
  /\ c \notin known
  /\ known' = known \union {c}
  /\ UNCHANGED <<clock, training, trained, finished>>

Switch ==
  /\ known = Channel /\ training = {} /\ clock < Steps
  /\ \A c \in Channel : trained[c] = clock
  /\ clock' = clock + 1
  /\ UNCHANGED <<known, training, trained, finished>>

BeginTraining(c) ==
  /\ c \notin training /\ trained[c] < clock
  /\ training' = training \union {c}
  /\ UNCHANGED <<known, clock, trained, finished>>

EndTraining(c) ==
  /\ c \in training
  /\ training' = training \ {c}
  /\ trained' = [trained EXCEPT ![c] = @ + 1]
  /\ UNCHANGED <<known, clock, finished>>

Finish ==
  /\ \A c \in Channel : trained[c] = Steps
  /\ finished' = TRUE
  /\ UNCHANGED <<known, clock, training, trained>>

Next == \/ Switch \/ Finish
        \/ \E c \in Channel : Detect(c) \/ BeginTraining(c) \/ EndTraining(c)

Spec == Init /\ [][Next]_vars
=============================================================================
