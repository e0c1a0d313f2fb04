---------------------------- MODULE RunListSpec ----------------------------
(***************************************************************************)
(* What include/runqueue.h promises of runnable lists and the runqueue,    *)
(* without pointers.  A list of waiters is a queue, oldest first; the      *)
(* runqueue is a queue; whole lists are taken and added atomically         *)
(* (runqueue.h:25), in the order in which their members were queued.       *)
(***************************************************************************)
EXTENDS Sequences

CONSTANTS Runnable,   \* the threads
          Ctx,        \* execution contexts that may queue: threads, CPU loop, interrupts
          List        \* lists of waiting threads

VARIABLES ready,      \* the runqueue, next to run first
          waiting,    \* [List -> queue]
          held,       \* [Ctx -> queue]: being moved by the context
          out         \* threads off every list: the running one, the dead ones

vars == <<ready, waiting, held, out>>

Init == /\ ready = <<>>
        /\ waiting = [l \in List |-> <<>>]
        /\ held = [p \in Ctx |-> <<>>]
        /\ out = Runnable

\* a context starts to queue a single runnable
Pick(p, r) == /\ held[p] = <<>> /\ r \in out
              /\ held' = [held EXCEPT ![p] = <<r>>]
              /\ out' = out \ {r}
              /\ UNCHANGED <<ready, waiting>>

\* a context takes all the waiters of a list
TakeAll(p, l) == /\ held[p] = <<>> /\ waiting[l] # <<>>
                 /\ held' = [held EXCEPT ![p] = waiting[l]]
                 /\ waiting' = [waiting EXCEPT ![l] = <<>>]
                 /\ UNCHANGED <<ready, out>>

\* what a context holds is added, all at once, to a list or to the runqueue
AddToList(p, l) == /\ held[p] # <<>>
                   /\ waiting' = [waiting EXCEPT ![l] = @ \o held[p]]
                   /\ held' = [held EXCEPT ![p] = <<>>]
                   /\ UNCHANGED <<ready, out>>

AddToRunqueue(p) == /\ held[p] # <<>>
                    /\ ready' = ready \o held[p]
                    /\ held' = [held EXCEPT ![p] = <<>>]
                    /\ UNCHANGED <<waiting, out>>

\* the CPU loop takes the oldest runnable
Unqueue == /\ ready # <<>>
           /\ out' = out \union {Head(ready)}
           /\ ready' = Tail(ready)
           /\ UNCHANGED <<waiting, held>>

Next == \/ \E p \in Ctx : \/ \E r \in Runnable : Pick(p, r)
                          \/ \E l \in List : TakeAll(p, l) \/ AddToList(p, l)
                          \/ AddToRunqueue(p)
        \/ Unqueue

Spec == Init /\ [][Next]_vars
=============================================================================
