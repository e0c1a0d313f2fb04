------------------------------ MODULE RunList ------------------------------
(***************************************************************************)
(* The lock-free runnable lists and the runqueue of lib/sched.c at the     *)
(* level of their pointers: next fields, list heads, the runqueue's tail   *)
(* pointer-to-pointer, and every load, store, exchange and                 *)
(* compare-exchange as a step of its own, so that contexts which are       *)
(* preempted or interrupted anywhere inside an operation are covered.      *)
(* sched_unqueue is one step: its caller owns the non-atomic part of the   *)
(* runqueue and has interrupts masked (dramstage/main.c:316).              *)
(***************************************************************************)
EXTENDS Naturals, Sequences, FiniteSets

CONSTANTS Runnable, Ctx, List, Null

Fresh == "fresh"          \* rq->fresh, which CURRENT_RUNQUEUE resolves to
RqHead == "rqhead"        \* the pointer &rq->head

ASSUME RunListAssumption ==
  /\ IsFiniteSet(Runnable)
  /\ Null \notin Runnable /\ RqHead \notin Runnable \union {Null} /\ Fresh \notin List

Heads == List \union {Fresh}
Ptr == Runnable \union {Null}

VARIABLES next,           \* [Runnable -> Ptr]: runnable->next
          head,           \* [Heads -> Ptr]: list->head
          rqhead,         \* rq->head
          rqtail,         \* rq->tail: Null, &rq->head or (the address of) r->next
          op,             \* [Ctx -> the queue operation in progress]
          out             \* runnables that are on no list and that nobody is queueing

vars == <<next, head, rqhead, rqtail, op, out>>

Idle == [pc |-> "idle", list |-> Fresh, first |-> Null, last |-> Null, nxt |-> Null]

Init == /\ next = [r \in Runnable |-> Null]
        /\ head = [l \in Heads |-> Null]
        /\ rqhead = Null /\ rqtail = RqHead
        /\ op = [p \in Ctx |-> Idle]
        /\ out = Runnable

-----------------------------------------------------------------------------
(* Sequences read off the pointers.  One pointer more than there are       *)
(* runnables is followed, so a cycle shows as a duplicate.                 *)

Last(s) == s[Len(s)]
Reverse(s) == [i \in 1..Len(s) |-> s[Len(s) - i + 1]]

Follow(nx, r) == IF r = Null THEN Null ELSE nx[r]

Chain(nx, start) ==
  LET at[k \in 0..Cardinality(Runnable) + 1] == IF k = 0 THEN start ELSE Follow(nx, at[k - 1])
  IN  [i \in 1..Cardinality({k \in 0..Cardinality(Runnable) + 1 : at[k] # Null}) |-> at[i - 1]]

\* the part of a chain up to and including last
Segment(nx, first, last) == Chain([nx EXCEPT ![last] = Null], first)

-----------------------------------------------------------------------------
(* sched_queue_many: load the head, link, compare-exchange until it holds. *)

StartQueueMany(p, l, first, last) ==
  op' = [op EXCEPT ![p] = [pc |-> "link", list |-> l, first |-> first,
                           last |-> last, nxt |-> head[l]]]

QueueSingle(p, l, r) ==
  /\ op[p].pc = "idle" /\ r \in out
  /\ StartQueueMany(p, l, r, r)
  /\ out' = out \ {r}
  /\ UNCHANGED <<next, head, rqhead, rqtail>>

Link(p) ==
  /\ op[p].pc = "link"
  /\ next' = [next EXCEPT ![op[p].last] = op[p].nxt]
  /\ op' = [op EXCEPT ![p].pc = "cas"]
  /\ UNCHANGED <<head, rqhead, rqtail, out>>

\* mutant: a plain store in place of the compare-exchange
CasOk_PlainStore(p) ==
  /\ op[p].pc = "cas"
  /\ head' = [head EXCEPT ![op[p].list] = op[p].first]
  /\ op' = [op EXCEPT ![p] = Idle]
  /\ UNCHANGED <<next, rqhead, rqtail, out>>

CasOk(p) ==
  /\ op[p].pc = "cas" /\ head[op[p].list] = op[p].nxt
  /\ head' = [head EXCEPT ![op[p].list] = op[p].first]
  /\ op' = [op EXCEPT ![p] = Idle]
  /\ UNCHANGED <<next, rqhead, rqtail, out>>

\* the head moved, or the weak compare-exchange failed spuriously
CasFail(p) ==
  /\ op[p].pc = "cas"
  /\ op' = [op EXCEPT ![p].nxt = head[op[p].list], ![p].pc = "link"]
  /\ UNCHANGED <<next, head, rqhead, rqtail, out>>

(* sched_queue_list: exchange the source head with null, walk to the last  *)
(* member, sched_queue_many.                                               *)

Exchange(p, dest, src) ==
  /\ op[p].pc = "idle" /\ head[src] # Null
  /\ head' = [head EXCEPT ![src] = Null]
  /\ op' = [op EXCEPT ![p] = [pc |-> "walk", list |-> dest, first |-> head[src],
                              last |-> head[src], nxt |-> Null]]
  /\ UNCHANGED <<next, rqhead, rqtail, out>>

Walk(p) ==
  /\ op[p].pc = "walk"
  /\ IF next[op[p].last] # Null
       THEN op' = [op EXCEPT ![p].last = next[@]]
       ELSE StartQueueMany(p, op[p].list, op[p].first, op[p].last)
  /\ UNCHANGED <<next, head, rqhead, rqtail, out>>

-----------------------------------------------------------------------------
(* sched_unqueue: append the fresh entries in reverse order behind the     *)
(* tail pointer, then pop the head; an emptied queue gets its tail back.   *)

\* mutant: the fresh entries are appended as they are, newest first
Reversed_Not(nx, s) == nx

\* after the do-while: each fresh entry points at the one that was before it
Reversed(nx, s) ==
  [r \in Runnable |->
     IF \E i \in DOMAIN s : s[i] = r
       THEN LET i == CHOOSE i \in DOMAIN s : s[i] = r
            IN  IF i = 1 THEN Null ELSE s[i - 1]
       ELSE nx[r]]

Splice ==
  LET s == Chain(next, head[Fresh])
      nx == Reversed(next, s)
      tail == IF rqtail = Null THEN RqHead ELSE rqtail
  IN  IF s = <<>> THEN [next |-> next, head |-> rqhead, tail |-> rqtail]
      ELSE IF tail = RqHead
             THEN [next |-> nx, head |-> Last(s), tail |-> Head(s)]
             ELSE [next |-> [nx EXCEPT ![tail] = Last(s)], head |-> rqhead, tail |-> Head(s)]

Unqueue ==
  /\ Splice.head # Null
  /\ head' = [head EXCEPT ![Fresh] = Null]
  /\ next' = Splice.next
  /\ rqhead' = Splice.next[Splice.head]
  /\ rqtail' = IF rqhead' = Null THEN RqHead ELSE Splice.tail
  /\ out' = out \union {Splice.head}
  /\ UNCHANGED op

-----------------------------------------------------------------------------
Next ==
  \/ \E p \in Ctx :
       \/ \E l \in Heads, r \in Runnable : QueueSingle(p, l, r)
       \/ \E dest \in Heads, src \in List : Exchange(p, dest, src)
       \/ Walk(p) \/ Link(p) \/ CasOk(p) \/ CasFail(p)
  \/ Unqueue

Spec == Init /\ [][Next]_vars

-----------------------------------------------------------------------------
(* The queues the pointers stand for, oldest entry first.                  *)
ReadyQ == Chain(next, rqhead) \o Reverse(Chain(next, head[Fresh]))
WaitingQ(l) == Reverse(Chain(next, head[l]))
HeldQ(p) == IF op[p].pc = "idle" THEN <<>>
            ELSE IF op[p].pc = "walk" THEN Reverse(Chain(next, op[p].first))
            ELSE Reverse(Segment(next, op[p].first, op[p].last))

(* Types of the pointers and of the operations in progress.                *)
TypeOK ==
  /\ next \in [Runnable -> Ptr]
  /\ head \in [Heads -> Ptr]
  /\ rqhead \in Ptr /\ rqtail \in Ptr \union {RqHead}
  /\ out \subseteq Runnable
  /\ \A p \in Ctx : /\ op[p].pc \in {"idle", "walk", "link", "cas"}
                    /\ op[p].list \in Heads
                    /\ op[p].nxt \in Ptr
                    /\ op[p].pc # "idle" => {op[p].first, op[p].last} \subseteq Runnable

(* No runnable is lost or duplicated, whatever the contexts that are in    *)
(* the middle of sched_queue_many or sched_queue_list: each one is off the *)
(* lists, or exactly once on exactly one list, runqueue or moving chain.   *)
Spots(q, r) == {i \in DOMAIN q : q[i] = r}
Places(r) == {<<"out", x>> : x \in out \intersect {r}}
             \union {<<"ready", i>> : i \in Spots(ReadyQ, r)}
             \union (UNION {{<<"held", p, i>> : i \in Spots(HeldQ(p), r)} : p \in Ctx})
             \union (UNION {{<<"waiting", l, i>> : i \in Spots(WaitingQ(l), r)} : l \in List})
OnePlace == \A r \in Runnable : \E x \in Places(r) : Places(r) = {x}

(* The runqueue's tail pointer is the address of the null that ends it, so *)
(* the next batch of fresh entries is appended and never overwrites a      *)
(* link (sched.c:42-56).                                                   *)
TailAtEnd ==
  LET q == Chain(next, rqhead)
  IN  rqtail \in (IF q = <<>> THEN {RqHead} ELSE {Last(q)})

(* What must hold of the pointers between any two accesses of any of the   *)
(* contexts: nothing is lost, doubled or out of the reach of sched_unqueue. *)
ListsSound == TypeOK /\ OnePlace /\ TailAtEnd

(* Every step of the pointer code is a step of the queues it promises      *)
(* (runqueue.h:25), or none: FIFO order and atomic moves included.         *)
Queues == INSTANCE RunListSpec WITH
            ready <- ReadyQ,
            waiting <- [l \in List |-> WaitingQ(l)],
            held <- [p \in Ctx |-> HeldQ(p)]
ImplementsQueues == Queues!Spec
=============================================================================
