----------------------------- MODULE NvmeProofs -----------------------------
(***************************************************************************)
(* Proofs about Nvme: for every size of the queues, number of namespaces   *)
(* and layout of the buffers, driver and controller agree about what is    *)
(* outstanding.                                                            *)
(*                                                                         *)
(* A queue pair has at most one command under way.  The invariant says     *)
(* where it is: nowhere, with the controller, or answered by the entry the *)
(* driver reads next.  A completion that makes no sense spoils the queue   *)
(* for good: it stays the entry the driver reads next, and each wait ends  *)
(* there.                                                                  *)
(***************************************************************************)
EXTENDS Nvme, TLAPS

\* time limits of the provers
USE SMTT(30), ZenonT(40)

\* the one request a queue is used for
Req(q) == IF q = 0 THEN "admin" ELSE "xfer"

\* the completion the driver looks at next
Cell(q) == cqmem[q][cq[q].pos]

\* no command is under way
Quiet(q) ==
  /\ status[Req(q)] # "submitted" /\ \A i \in Cids(q) : cmd[q][i] = Null
  /\ sq[q].head = sq[q].tail /\ dev[q].head = sq[q].tail

\* one command is under way: with the id i, and either fetched or not
Pending(q, i) ==
  /\ status[Req(q)] = "submitted" /\ cmd[q][i] = Req(q)
  /\ \A j \in Cids(q) : j # i => cmd[q][j] = Null
  /\ sq[q].tail = NextSlot(sq[q].head) /\ dev[q].head \in {sq[q].head, sq[q].tail}
  /\ dev[q].head = sq[q].head => sqmem[q][sq[q].head].cid = i

\* everything the controller has posted was taken
Clean(q) == dev[q].tail = cq[q].pos /\ dev[q].phase = cq[q].phase

\* the controller is one entry ahead, and that entry answers the command i
Answered(q, i) ==
  /\ dev[q].tail = NextSlot(cq[q].pos)
  /\ dev[q].phase = IF cq[q].pos = QSize THEN 1 - cq[q].phase ELSE cq[q].phase
  /\ dev[q].head = sq[q].tail
  /\ Cell(q).sq = q /\ Cell(q).cid = i /\ Cell(q).sqhd = dev[q].head

\* the next entry is one that nvme_process_cqe refuses; the controller never
\* comes around to it
Spoilt(q) ==
  /\ dev[q].tail # cq[q].pos /\ Cell(q).phase = cq[q].phase
  /\ Cell(q).sq # q \/ Cell(q).cid \notin Cids(q)

Outstanding(q, i) ==
  /\ Pending(q, i)
  /\ \/ Clean(q) /\ dev[q].head = sq[q].head
     \/ Answered(q, i) \/ Spoilt(q)

QueueInv(q) == (Quiet(q) /\ (Clean(q) \/ Spoilt(q))) \/ \E i \in Cids(q) : Outstanding(q, i)

Queues == \A q \in Queue : QueueInv(q)

\* the phase bits of a completion queue in memory: up to where the controller
\* is they are of this round
Phases == \A q \in Queue : \A s \in Slot :
  cqmem[q][s].phase = IF s < dev[q].tail THEN dev[q].phase ELSE 1 - dev[q].phase

\* an admin command under way is waited for, or was given up for the shutdown
AdminHeld ==
  (\E i \in Cids(0) : cmd[0][i] # Null) =>
    (Waiting /\ pc \in Commands) \/ pc \in {"shutdown", "abrupt", "log", "out", "exit"}

\* only commands and reads are waited for
WaitsFor == Waiting => pc \in Commands \union {"xfer"}

\* where the controller cannot write to memory
Powered ==
  /\ pc \in {"link", "config", "init", "phys"} => ~ctl.en
  /\ pc \in {"out", "exit"} => ~(ctl.en /\ ctl.bus)

Types ==
  /\ TypeOK
  /\ DOMAIN sq = Queue /\ DOMAIN cq = Queue /\ DOMAIN cmd = Queue /\ DOMAIN dev = Queue
  /\ DOMAIN sqmem = Queue /\ DOMAIN cqmem = Queue
  /\ \A q \in Queue : DOMAIN sqmem[q] = Slot /\ DOMAIN cqmem[q] = Slot
  /\ \A q \in Queue : \A s \in Slot : sqmem[q][s].read.lba \in Nat
  /\ blk \in [consume : Int, end : Int, next_end : Int, stop : Int, next_lba : Nat,
              xfer : Nat, want : Int, buf : Int, lba : Nat]

IInv == Types /\ Queues /\ Phases /\ AdminHeld /\ WaitsFor /\ Powered

-----------------------------------------------------------------------------
(* Slots and types.                                                        *)

LEMMA Slots == ASSUME NEW s \in Slot PROVE NextSlot(s) \in Slot /\ NextSlot(s) # s
BY NvmeAssumption DEF Slot, NextSlot

\* the types of a queue pair, one by one
LEMMA QueueTypes ==
  ASSUME Types, NEW q \in Queue
  PROVE  /\ sq[q] \in [tail : Slot, head : Slot] /\ sq[q].tail \in Slot /\ sq[q].head \in Slot
         /\ cq[q] \in [pos : Slot, phase : 0..1] /\ cq[q].pos \in Slot /\ cq[q].phase \in 0..1
         /\ dev[q] \in [head : Slot, tail : Slot, phase : 0..1]
         /\ dev[q].head \in Slot /\ dev[q].tail \in Slot /\ dev[q].phase \in 0..1
         /\ cmd[q] \in [Cids(q) -> {Null, "admin", "xfer"}]
BY DEF Types, TypeOK

PCs == Commands \union {"link", "config", "init", "cue", "client", "pump", "request", "xfer",
                        "shutdown", "abrupt", "log", "phys", "out", "exit", "die"}
Blk == [consume : Int, end : Int, next_end : Int, stop : Int, next_lba : Nat,
        xfer : Nat, want : Int, buf : Int, lba : Nat]

Ctl == [en : BOOLEAN, bus : BOOLEAN, cfs : BOOLEAN, down : BOOLEAN]

\* what the parts of the state that are not queues are
LEMMA PlainTypes ==
  ASSUME Types
  PROVE  /\ pc \in PCs /\ scan \in -1..2 /\ nsid \in 1..NumNs /\ num_iocq \in 0..1 /\ num_iosq \in 0..1
         /\ rtd3e \in {0, SecondUs} /\ waited \in Nat /\ blk \in Blk
         /\ ctl \in Ctl
         /\ status \in [{"admin", "xfer"} -> {"creating", "submitted", "ok", "error"}]
         /\ \A a \in DOMAIN mem : mem[a] \in Nat \union {Garbage}
BY SMTT(30) DEF Types, TypeOK, PCs, Blk, Ctl

\* the types after a step, part by part
LEMMA NextTypes ==
  ASSUME pc' \in PCs, scan' \in -1..2, nsid' \in 1..NumNs, num_iocq' \in 0..1, num_iosq' \in 0..1,
         rtd3e' \in {0, SecondUs}, waited' \in Nat, blk' \in Blk, ctl' \in Ctl,
         status' \in [{"admin", "xfer"} -> {"creating", "submitted", "ok", "error"}],
         \A a \in DOMAIN mem' : mem'[a] \in Nat \union {Garbage},
         DOMAIN sq' = Queue, DOMAIN cq' = Queue, DOMAIN cmd' = Queue, DOMAIN dev' = Queue,
         DOMAIN sqmem' = Queue, DOMAIN cqmem' = Queue,
         \A q \in Queue : /\ sq'[q] \in [tail : Slot, head : Slot] /\ cq'[q] \in [pos : Slot, phase : 0..1]
                          /\ cmd'[q] \in [Cids(q) -> {Null, "admin", "xfer"}]
                          /\ dev'[q] \in [head : Slot, tail : Slot, phase : 0..1]
                          /\ DOMAIN sqmem'[q] = Slot /\ DOMAIN cqmem'[q] = Slot
                          /\ \A s \in Slot : sqmem'[q][s].read.lba \in Nat
  PROVE  Types'
BY ZenonT(40) DEF Types, TypeOK, PCs, Blk, Ctl

\* a quiet queue has room for a command
LEMMA QuietHasRoom == ASSUME Types, NEW q \in Queue, Quiet(q) PROVE Submitted(q)
<1>1. ~Full(q) BY Slots, QueueTypes DEF Full, Quiet
<1>2. 0 \in Cids(q) BY NvmeAssumption DEF Cids, Queue
<1>3. QED BY <1>1, <1>2 DEF Submitted, Free, Quiet

-----------------------------------------------------------------------------
(* The queues.                                                             *)

\* a queue pair that nobody touches keeps its invariant
LEMMA QueueKept ==
  ASSUME NEW q \in Queue, QueueInv(q),
         sq'[q] = sq[q], cq'[q] = cq[q], cmd'[q] = cmd[q], dev'[q] = dev[q],
         sqmem'[q] = sqmem[q], cqmem'[q] = cqmem[q], status'[Req(q)] = status[Req(q)]
  PROVE  QueueInv(q)'
<1>1. Quiet(q)' <=> Quiet(q) BY DEF Quiet
<1>2. \A i \in Cids(q) : Pending(q, i)' <=> Pending(q, i) BY DEF Pending
<1>3. Clean(q)' <=> Clean(q) BY DEF Clean
<1>4. Spoilt(q)' <=> Spoilt(q) BY DEF Spoilt, Cell
<1>5. \A i \in Cids(q) : Answered(q, i)' <=> Answered(q, i) BY DEF Answered, Cell
<1>6. QED BY <1>1, <1>2, <1>3, <1>4, <1>5 DEF QueueInv, Outstanding

\* a command is given to a quiet queue
LEMMA SubmitQueue ==
  ASSUME Types, Queues, NEW q \in Queue, Quiet(q), NEW read,
         nvme_submit_single_command(q, Req(q), read), UNCHANGED <<dev, cqmem>>
  PROVE  Queues'
<1>1. Submitted(q) BY QuietHasRoom
<1>2. PICK id \in Cids(q) : /\ sqmem' = [sqmem EXCEPT ![q][sq[q].tail] = [cid |-> id, read |-> read]]
                            /\ cmd' = [cmd EXCEPT ![q][id] = Req(q)]
  BY <1>1, ZenonT(40) DEF nvme_submit_single_command, Lowest, Free
<1>3. /\ sqmem' = [sqmem EXCEPT ![q][sq[q].tail] = [cid |-> id, read |-> read]]
      /\ status' = [status EXCEPT ![Req(q)] = "submitted"]
      /\ cmd' = [cmd EXCEPT ![q][id] = Req(q)]
      /\ sq' = [sq EXCEPT ![q].tail = NextSlot(@)]
      /\ cq' = cq /\ dev' = dev /\ cqmem' = cqmem
  BY <1>1, <1>2, ZenonT(40) DEF nvme_submit_single_command, Submitted
<1>4. QueueInv(q)'
  <2>1. Pending(q, id)' /\ dev'[q].head = sq'[q].head
    <3>1. Req(q) \in {"admin", "xfer"} /\ status \in [{"admin", "xfer"} -> {"creating", "submitted", "ok", "error"}]
      BY PlainTypes DEF Req
    <3>2. status'[Req(q)] = "submitted" BY <1>3, <3>1
    <3>3. cmd'[q][id] = Req(q) /\ \A j \in Cids(q) : j # id => cmd'[q][j] = Null
      BY <1>2, <1>3, QueueTypes DEF Types, Quiet
    <3>4. sq'[q].tail = NextSlot(sq[q].head) /\ sq'[q].head = sq[q].head /\ dev'[q].head = sq[q].head
      BY <1>3, QueueTypes, ZenonT(40) DEF Types, Quiet
    <3>5. sqmem'[q][sq[q].head].cid = id
      BY <1>3, QueueTypes, ZenonT(40) DEF Types, Quiet
    <3>6. QED BY <3>2, <3>3, <3>4, <3>5 DEF Pending
  <2>2. Clean(q) => Clean(q)' BY <1>3 DEF Clean
  <2>3. Spoilt(q) => Spoilt(q)' BY <1>3, ZenonT(40) DEF Spoilt, Cell
  <2>4. Clean(q) \/ Spoilt(q) BY ZenonT(40) DEF Queues, QueueInv, Outstanding, Pending, Quiet
  <2>5. Outstanding(q, id)' BY <2>1, <2>2, <2>3, <2>4 DEF Outstanding
  <2>6. QED BY <2>5, ZenonT(40) DEF QueueInv
<1>5. ASSUME NEW x \in Queue, x # q PROVE QueueInv(x)'
  <2>1. /\ sq'[x] = sq[x] /\ cq'[x] = cq[x] /\ cmd'[x] = cmd[x] /\ dev'[x] = dev[x]
        /\ sqmem'[x] = sqmem[x] /\ cqmem'[x] = cqmem[x] /\ status'[Req(x)] = status[Req(x)]
    BY <1>3, <1>5 DEF Types, TypeOK, Req, Queue
  <2>2. QED BY <2>1, QueueKept DEF Queues
<1>6. QED BY <1>4, <1>5 DEF Queues

\* the types of what a submission changes
LEMMA SubmitTypes ==
  ASSUME Types, NEW q \in Queue, Quiet(q), NEW read, read.lba \in Nat,
         nvme_submit_single_command(q, Req(q), read)
  PROVE  /\ DOMAIN sq' = Queue /\ DOMAIN cmd' = Queue /\ DOMAIN sqmem' = Queue /\ cq' = cq
         /\ \A x \in Queue : /\ sq'[x] \in [tail : Slot, head : Slot] /\ DOMAIN sqmem'[x] = Slot
                             /\ cmd'[x] \in [Cids(x) -> {Null, "admin", "xfer"}]
                             /\ \A s \in Slot : sqmem'[x][s].read.lba \in Nat
         /\ status' \in [{"admin", "xfer"} -> {"creating", "submitted", "ok", "error"}]
         /\ q = 1 => cmd'[0] = cmd[0]
<1>1. Submitted(q) BY QuietHasRoom
<1>2. PICK id \in Cids(q) : /\ sqmem' = [sqmem EXCEPT ![q][sq[q].tail] = [cid |-> id, read |-> read]]
                            /\ cmd' = [cmd EXCEPT ![q][id] = Req(q)]
  BY <1>1, ZenonT(40) DEF nvme_submit_single_command, Lowest, Free
<1>3. /\ sqmem' = [sqmem EXCEPT ![q][sq[q].tail] = [cid |-> id, read |-> read]]
      /\ status' = [status EXCEPT ![Req(q)] = "submitted"]
      /\ cmd' = [cmd EXCEPT ![q][id] = Req(q)]
      /\ sq' = [sq EXCEPT ![q].tail = NextSlot(@)]
      /\ cq' = cq
  BY <1>1, <1>2, ZenonT(40) DEF nvme_submit_single_command, Submitted
<1>4. DOMAIN sq' = Queue /\ DOMAIN cmd' = Queue /\ DOMAIN sqmem' = Queue
  BY <1>3 DEF Types
<1>5. \A x \in Queue : sq'[x] \in [tail : Slot, head : Slot]
  <2>1. \A x \in Queue : sq[x] \in [tail : Slot, head : Slot] BY QueueTypes
  <2>2. NextSlot(sq[q].tail) \in Slot BY Slots, QueueTypes
  <2>3. DOMAIN sq = Queue BY DEF Types
  <2>4. sq'[q] = [sq[q] EXCEPT !.tail = NextSlot(sq[q].tail)] /\ \A x \in Queue : x # q => sq'[x] = sq[x]
    BY <1>3, <2>3
  <2>5. [sq[q] EXCEPT !.tail = NextSlot(sq[q].tail)] \in [tail : Slot, head : Slot] BY <2>1, <2>2
  <2>6. QED BY <2>1, <2>4, <2>5
<1>6. \A x \in Queue : cmd'[x] \in [Cids(x) -> {Null, "admin", "xfer"}]
  <2>1. Req(q) \in {Null, "admin", "xfer"} BY DEF Req
  <2>2. \A x \in Queue : cmd[x] \in [Cids(x) -> {Null, "admin", "xfer"}] BY QueueTypes
  <2>3. QED BY <1>3, <2>1, <2>2 DEF Types
<1>7. \A x \in Queue : DOMAIN sqmem'[x] = Slot /\ \A s \in Slot : sqmem'[x][s].read.lba \in Nat
  BY <1>3, ZenonT(40) DEF Types, TypeOK
<1>8. status' \in [{"admin", "xfer"} -> {"creating", "submitted", "ok", "error"}]
  BY <1>3 DEF Types, TypeOK, Req
<1>9. q = 1 => cmd'[0] = cmd[0] BY <1>3 DEF Types, Queue
<1>10. QED BY <1>3, <1>4, <1>5, <1>6, <1>7, <1>8, <1>9, ZenonT(40)

\* a fresh completion that makes sense answers the command under way
LEMMA FreshAnswers ==
  ASSUME Types, Queues, Phases, NEW q \in Queue, Cell(q).phase = cq[q].phase,
         Cell(q).sq = q, Cell(q).cid \in Cids(q)
  PROVE  Pending(q, Cell(q).cid) /\ Answered(q, Cell(q).cid)
<1>1. ~Spoilt(q) BY DEF Spoilt
<1>2. ~Clean(q)
  <2>1. SUFFICES ASSUME Clean(q) PROVE FALSE OBVIOUS
  <2>2. dev[q].tail = cq[q].pos /\ cq[q].pos \in Slot /\ dev[q].phase = cq[q].phase /\ cq[q].phase \in 0..1
    BY <2>1, QueueTypes, ZenonT(40) DEF Clean
  <2>3. ~(cq[q].pos < dev[q].tail) BY <2>2 DEF Slot
  <2>4. Cell(q).phase = 1 - dev[q].phase BY <2>2, <2>3, ZenonT(40) DEF Phases, Cell
  <2>5. QED BY <2>2, <2>4
<1>3. PICK i \in Cids(q) : Pending(q, i) /\ Answered(q, i)
  BY <1>1, <1>2 DEF Queues, QueueInv, Outstanding
<1>4. QED BY <1>3 DEF Answered

\* the driver takes the answer: nothing is under way any more
LEMMA ProcessQueue ==
  ASSUME Types, Queues, Phases, nvme_process_cqe
  PROVE  /\ scan \in Queue /\ Queues'
         /\ sq'[scan] \in [tail : Slot, head : Slot] /\ cq'[scan] \in [pos : Slot, phase : 0..1]
         /\ status' \in [{"admin", "xfer"} -> {"creating", "submitted", "ok", "error"}]
         /\ cmd'[scan] \in [Cids(scan) -> {Null, "admin", "xfer"}]
<1>1. scan \in Queue
  BY DEF nvme_process_cqe, Waiting, Idle, Fresh, Types, TypeOK, Queue
<1>2. PICK q \in Queue : q = scan BY <1>1, ZenonT(40)
<1>3. /\ Cell(q).phase = cq[q].phase /\ Cell(q).sq = q /\ Cell(q).cid \in Cids(q)
      /\ Cqe = Cell(q)
  BY <1>2, ZenonT(40) DEF nvme_process_cqe, Fresh, Bad, Cqe, Cell
<1>4. PICK i \in Cids(q) : i = Cell(q).cid /\ Pending(q, i) /\ Answered(q, i)
  BY <1>3, FreshAnswers, ZenonT(40)
<1>5. /\ cmd' = [cmd EXCEPT ![q][i] = Null]
      /\ sq' = [sq EXCEPT ![q].head = dev[q].head]
      /\ cq' = [cq EXCEPT ![q] = Consumed(@)]
      /\ \A r \in {"admin", "xfer"} : r # Req(q) => status'[r] = status[r]
      /\ status'[Req(q)] \in {"ok", "error"}
      /\ DOMAIN status' = {"admin", "xfer"} /\ status' = [r \in {"admin", "xfer"} |-> status'[r]]
      /\ dev' = dev /\ sqmem' = sqmem /\ cqmem' = cqmem
  <2>2. cmd[scan][Cqe.cid] = Req(q) /\ Cqe.sqhd = dev[q].head BY <1>2, <1>3, <1>4, ZenonT(40) DEF Pending, Answered
  <2>3. DOMAIN status = {"admin", "xfer"} /\ Req(q) \in {"admin", "xfer"} BY DEF Types, TypeOK, Req
  <2>4. status' = [r \in {"admin", "xfer"} |-> IF r # Req(q) THEN status[r] ELSE IF Cqe.ok THEN "ok" ELSE "error"]
    BY <2>2, <2>3, ZenonT(40) DEF nvme_process_cqe
  <2>5. cmd' = [cmd EXCEPT ![q][i] = Null] /\ sq' = [sq EXCEPT ![q].head = dev[q].head]
        /\ cq' = [cq EXCEPT ![q] = Consumed(@)]
    BY <1>2, <1>3, <1>4, <2>2 DEF nvme_process_cqe
  <2>6. dev' = dev /\ sqmem' = sqmem /\ cqmem' = cqmem BY DEF nvme_process_cqe, devvars
  <2>7. QED BY <2>3, <2>4, <2>5, <2>6
<1>6. Quiet(q)'
  <2>1. \A j \in Cids(q) : cmd'[q][j] = Null BY <1>4, <1>5, QueueTypes, ZenonT(40) DEF Pending, Types
  <2>2. sq'[q].head = dev[q].head /\ sq'[q].tail = sq[q].tail BY <1>5, QueueTypes DEF Types
  <2>3. QED BY <1>4, <1>5, <2>1, <2>2 DEF Quiet, Answered
<1>7. Clean(q)'
  <2>1. cq'[q].pos = NextSlot(cq[q].pos) /\ cq'[q].phase = IF cq[q].pos = QSize THEN 1 - cq[q].phase ELSE cq[q].phase
    BY <1>5 DEF Consumed, Types
  <2>2. QED BY <2>1, <1>4, <1>5 DEF Answered, Clean
<1>8. ASSUME NEW x \in Queue, x # q PROVE QueueInv(x)'
  <2>1. Req(x) # Req(q) /\ Req(x) \in {"admin", "xfer"} BY <1>8 DEF Req, Queue
  <2>2. /\ sq'[x] = sq[x] /\ cq'[x] = cq[x] /\ cmd'[x] = cmd[x] /\ dev'[x] = dev[x]
        /\ sqmem'[x] = sqmem[x] /\ cqmem'[x] = cqmem[x] /\ status'[Req(x)] = status[Req(x)]
    BY <1>5, <1>8, <2>1 DEF Types
  <2>3. QED BY <2>2, QueueKept DEF Queues
<1>9. Queues' BY <1>6, <1>7, <1>8, ZenonT(40) DEF Queues, QueueInv
<1>10. sq'[q] \in [tail : Slot, head : Slot]
  <2>1. sq[q] \in [tail : Slot, head : Slot] /\ dev[q].head \in Slot BY QueueTypes
  <2>2. DOMAIN sq = Queue /\ sq' = [sq EXCEPT ![q].head = dev[q].head] BY <1>5, ZenonT(40) DEF Types
  <2>3. sq'[q] = [sq[q] EXCEPT !.head = dev[q].head] BY <2>2
  <2>4. QED BY <2>1, <2>3
<1>11. cq'[q] \in [pos : Slot, phase : 0..1]
  <2>1. NextSlot(cq[q].pos) \in Slot BY QueueTypes, Slots
  <2>2. (IF cq[q].pos = QSize THEN 1 - cq[q].phase ELSE cq[q].phase) \in 0..1 BY QueueTypes
  <2>3. QED BY <1>5, <2>1, <2>2 DEF Types, Consumed
<1>12. status' \in [{"admin", "xfer"} -> {"creating", "submitted", "ok", "error"}]
  <2>1. \A r \in {"admin", "xfer"} : status'[r] \in {"creating", "submitted", "ok", "error"}
    BY <1>5, PlainTypes
  <2>2. QED BY <2>1, <1>5
<1>13. cmd'[q] \in [Cids(q) -> {Null, "admin", "xfer"}] BY <1>5, QueueTypes, ZenonT(40) DEF Types
<1>14. QED BY <1>1, <1>2, <1>9, <1>10, <1>11, <1>12, <1>13

\* what posting the entry e does to its queue pair
Posted(q, e) ==
  /\ \A x \in Queue : x # q => dev'[x] = dev[x] /\ cqmem'[x] = cqmem[x]
  /\ dev'[q].tail = NextSlot(dev[q].tail) /\ dev'[q].head = e.sqhd
  /\ dev'[q].phase = IF dev[q].tail = QSize THEN 1 - dev[q].phase ELSE dev[q].phase
  /\ \A s \in Slot : s # dev[q].tail => cqmem'[q][s] = cqmem[q][s]
  /\ cqmem'[q][dev[q].tail].phase = dev[q].phase /\ cqmem'[q][dev[q].tail].sq = e.sq
  /\ cqmem'[q][dev[q].tail].cid = e.cid /\ cqmem'[q][dev[q].tail].sqhd = e.sqhd

\* it keeps the phase bits in order
LEMMA PostPhases ==
  ASSUME Types, Phases, NEW q \in Queue, NEW e, e.sqhd \in Slot, Post(q, e)
  PROVE  /\ Posted(q, e) /\ Phases' /\ DOMAIN dev' = Queue /\ DOMAIN cqmem' = Queue
         /\ \A x \in Queue : /\ dev'[x] \in [head : Slot, tail : Slot, phase : 0..1]
                             /\ DOMAIN cqmem'[x] = Slot
<1> DEFINE cell == [phase |-> dev[q].phase, sq |-> e.sq, cid |-> e.cid, sqhd |-> e.sqhd, ok |-> e.ok]
<1>1. dev[q] \in [head : Slot, tail : Slot, phase : 0..1] /\ dev[q].tail \in Slot /\ dev[q].phase \in 0..1
  BY QueueTypes, ZenonT(40)
<1>2. cqmem' = [cqmem EXCEPT ![q][dev[q].tail] = cell] BY DEF Post
<1>3. cell.phase = dev[q].phase /\ cell.sq = e.sq /\ cell.cid = e.cid /\ cell.sqhd = e.sqhd OBVIOUS
<1> HIDE DEF cell
<1>4. /\ DOMAIN cqmem' = Queue /\ \A x \in Queue : DOMAIN cqmem'[x] = Slot
      /\ \A x \in Queue : x # q => cqmem'[x] = cqmem[x]
      /\ \A s \in Slot : s # dev[q].tail => cqmem'[q][s] = cqmem[q][s]
      /\ cqmem'[q][dev[q].tail] = cell
  BY <1>1, <1>2 DEF Types
<1>5. /\ DOMAIN dev' = Queue /\ \A x \in Queue : x # q => dev'[x] = dev[x]
      /\ DOMAIN dev'[q] = {"head", "tail", "phase"} /\ dev'[q] = [f \in {"head", "tail", "phase"} |-> dev'[q][f]]
      /\ dev'[q].tail = NextSlot(dev[q].tail) /\ dev'[q].head = e.sqhd
      /\ dev'[q].phase = IF dev[q].tail = QSize THEN 1 - dev[q].phase ELSE dev[q].phase
  <2>1. DOMAIN dev = Queue BY ZenonT(40) DEF Types
  <2>2. dev' = [dev EXCEPT ![q].tail = NextSlot(@),
                           ![q].phase = IF dev[q].tail = QSize THEN 1 - @ ELSE @,
                           ![q].head = e.sqhd]
    BY ZenonT(40) DEF Post
  <2>3. QED BY <1>1, <2>1, <2>2, ZenonT(40)
<1>6. \A x \in Queue : dev'[x] \in [head : Slot, tail : Slot, phase : 0..1]
  <2>1. NextSlot(dev[q].tail) \in Slot BY <1>1, Slots
  <2>2. (IF dev[q].tail = QSize THEN 1 - dev[q].phase ELSE dev[q].phase) \in 0..1 BY <1>1
  <2>3. dev'[q] \in [head : Slot, tail : Slot, phase : 0..1] BY <1>5, <2>1, <2>2, ZenonT(40)
  <2>4. QED BY <2>3, <1>5, QueueTypes, ZenonT(40)
<1>7. Phases'
  <2> SUFFICES ASSUME NEW x \in Queue, NEW s \in Slot
               PROVE  cqmem'[x][s].phase = IF s < dev'[x].tail THEN dev'[x].phase ELSE 1 - dev'[x].phase
    BY DEF Phases
  <2>1. CASE x # q BY <2>1, <1>4, <1>5 DEF Phases
  <2>2. CASE x = q
    <3>1. cqmem'[q][s].phase = IF s =< dev[q].tail THEN dev[q].phase ELSE 1 - dev[q].phase
      BY <1>1, <1>3, <1>4 DEF Phases, Slot
    <3>2. s \in 0..QSize /\ QSize \in Nat /\ dev[q].tail \in 0..QSize /\ dev[q].phase \in 0..1
      BY <1>1, NvmeAssumption DEF Slot
    <3>3. QED BY <2>2, <3>1, <3>2, <1>5 DEF NextSlot
  <2>3. QED BY <2>1, <2>2
<1>8. Posted(q, e) BY <1>3, <1>4, <1>5, ZenonT(40) DEF Posted
<1>9. QED BY <1>4, <1>5, <1>6, <1>7, <1>8, ZenonT(40)

\* a posted entry in a queue pair whose next entry is spoilt already
LEMMA SpoiltStays ==
  ASSUME Types, NEW q \in Queue, Spoilt(q), Room(q), NEW e, cq' = cq,
         dev'[q].tail = NextSlot(dev[q].tail),
         \A s \in Slot : s # dev[q].tail => cqmem'[q][s] = cqmem[q][s]
  PROVE  Spoilt(q)'
<1>1. NextSlot(dev[q].tail) = (dev[q].tail + 1) % (QSize + 1)
  <2>1. QSize \in Nat /\ dev[q].tail \in 0..QSize BY QueueTypes, NvmeAssumption, ZenonT(40) DEF Slot
  <2>2. QED BY <2>1 DEF NextSlot
<1>2. dev'[q].tail # cq'[q].pos BY <1>1, ZenonT(40) DEF Room
<1>3. Cell(q)' = Cell(q) BY QueueTypes, ZenonT(40) DEF Cell, Spoilt
<1>4. QED BY <1>2, <1>3, ZenonT(40) DEF Spoilt

\* the controller answers or fails the command it has
LEMMA CompleteQueue ==
  ASSUME Types, Queues, Phases, NEW q \in Queue, NEW ok \in BOOLEAN, Complete(q, ok)
  PROVE  Queues'
<1> DEFINE e == [sq |-> q, cid |-> sqmem[q][dev[q].head].cid, sqhd |-> NextSlot(dev[q].head), ok |-> ok]
<1>1. Post(q, e) BY ZenonT(40) DEF Complete
<1>2. e.sqhd \in Slot /\ e.sqhd = NextSlot(dev[q].head) /\ e.sq = q /\ e.cid = sqmem[q][dev[q].head].cid
  BY QueueTypes, Slots, ZenonT(40)
<1> HIDE DEF e
<1>3. Posted(q, e) BY <1>1, <1>2, PostPhases, ZenonT(40)
<1>4. sq' = sq /\ cq' = cq /\ cmd' = cmd /\ status' = status /\ sqmem' = sqmem BY ZenonT(40) DEF Complete, qvars
<1>5. dev[q].head # sq[q].tail /\ Room(q) BY ZenonT(40) DEF Complete
<1>6. PICK i \in Cids(q) : Outstanding(q, i) BY <1>5, ZenonT(40) DEF Queues, QueueInv, Quiet
<1>7. Pending(q, i) /\ dev[q].head = sq[q].head /\ sqmem[q][dev[q].head].cid = i
  BY <1>5, <1>6, ZenonT(40) DEF Outstanding, Pending
<1>8. Pending(q, i)' /\ dev'[q].head = sq'[q].tail
  <2>1. dev'[q].head = sq[q].tail BY <1>2, <1>3, <1>7, ZenonT(40) DEF Pending, Posted
  <2>2. sq[q].tail # sq[q].head BY <1>7, QueueTypes, Slots, ZenonT(40) DEF Pending
  <2>3. QED BY <2>1, <2>2, <1>4, <1>7, ZenonT(40) DEF Pending
<1>9. Clean(q) => Answered(q, i)'
  <2> SUFFICES ASSUME Clean(q) PROVE Answered(q, i)' OBVIOUS
  <2>1. Cell(q)' = cqmem'[q][dev[q].tail] BY <1>4 DEF Clean, Cell
  <2>2. Cell(q)'.sq = q /\ Cell(q)'.cid = i /\ Cell(q)'.sqhd = dev'[q].head
    BY <2>1, <1>2, <1>3, <1>7, ZenonT(40) DEF Posted
  <2>3. QED BY <2>2, <1>3, <1>4, <1>8, ZenonT(40) DEF Clean, Answered, Posted
<1>10. Spoilt(q) => Spoilt(q)' BY <1>3, <1>4, <1>5, SpoiltStays, ZenonT(40) DEF Posted
<1>11. Clean(q) \/ Spoilt(q) BY <1>5, <1>6, ZenonT(40) DEF Outstanding, Answered
<1>12. Outstanding(q, i)' BY <1>8, <1>9, <1>10, <1>11, ZenonT(40) DEF Outstanding
<1>13. ASSUME NEW x \in Queue, x # q PROVE QueueInv(x)' BY <1>3, <1>4, <1>13, QueueKept, ZenonT(40) DEF Queues, Posted
<1>14. QED BY <1>12, <1>13, ZenonT(40) DEF Queues, QueueInv

\* a completion that makes no sense spoils the queue
LEMMA GlitchQueue ==
  ASSUME Types, Queues, Phases, NEW q \in Queue, Glitch(q)
  PROVE  Queues'
<1>1. PICK c \in {<<2, 0>>, <<1 - q, 0>>, <<q, MaxCid[q + 1] + 1>>} :
        Post(q, [sq |-> c[1], cid |-> c[2], sqhd |-> dev[q].head, ok |-> TRUE])
  BY ZenonT(40) DEF Glitch
<1> DEFINE e == [sq |-> c[1], cid |-> c[2], sqhd |-> dev[q].head, ok |-> TRUE]
<1>2. Post(q, e) /\ e.sqhd \in Slot /\ e.sqhd = dev[q].head /\ (e.sq # q \/ e.cid \notin Cids(q))
  <2>1. c[1] # q \/ c[2] \notin Cids(q) BY NvmeAssumption DEF Queue, Cids
  <2>2. Post(q, e) BY <1>1, ZenonT(40)
  <2>3. QED BY <2>1, <2>2, QueueTypes, ZenonT(40)
<1> HIDE DEF e
<1>3. Posted(q, e) BY <1>2, PostPhases, ZenonT(40)
<1>4. sq' = sq /\ cq' = cq /\ cmd' = cmd /\ status' = status /\ sqmem' = sqmem /\ dev[q].tail = cq[q].pos
  BY ZenonT(40) DEF Glitch, qvars
<1>5. dev'[q].tail # cq'[q].pos BY <1>3, <1>4, QueueTypes, Slots, ZenonT(40) DEF Posted
<1>6. ~Answered(q, 0) /\ \A i \in Cids(q) : ~Answered(q, i) BY <1>4, QueueTypes, Slots, ZenonT(40) DEF Answered
<1>7. Clean(q) BY <1>4, <1>6, ZenonT(40) DEF Queues, QueueInv, Outstanding, Spoilt
<1>8. Spoilt(q)'
  <2>1. Cell(q)' = cqmem'[q][dev[q].tail] BY <1>4, ZenonT(40) DEF Cell
  <2>2. QED BY <2>1, <1>2, <1>3, <1>4, <1>5, <1>7, ZenonT(40) DEF Spoilt, Clean, Posted
<1>9. QueueInv(q)'
  <2>1. Quiet(q)' <=> Quiet(q) BY <1>2, <1>3, <1>4, ZenonT(40) DEF Quiet, Posted
  <2>2. \A i \in Cids(q) : Pending(q, i) => Pending(q, i)' BY <1>2, <1>3, <1>4, ZenonT(40) DEF Pending, Posted
  <2>3. Quiet(q) \/ \E i \in Cids(q) : Pending(q, i) BY ZenonT(40) DEF Queues, QueueInv, Outstanding
  <2>4. CASE Quiet(q) BY <2>1, <2>4, <1>8, ZenonT(40) DEF QueueInv
  <2>5. ASSUME NEW i \in Cids(q), Pending(q, i) PROVE QueueInv(q)'
    <3>1. Outstanding(q, i)' BY <2>2, <2>5, <1>8, ZenonT(40) DEF Outstanding
    <3>2. QED BY <3>1, ZenonT(40) DEF QueueInv
  <2>6. QED BY <2>3, <2>4, <2>5, ZenonT(40)
<1>10. ASSUME NEW x \in Queue, x # q PROVE QueueInv(x)' BY <1>3, <1>4, <1>10, QueueKept, ZenonT(40) DEF Queues, Posted
<1>11. QED BY <1>9, <1>10, ZenonT(40) DEF Queues

\* steps that leave the queues alone
LEMMA QueuesKept ==
  ASSUME Queues, Phases, UNCHANGED <<sq, cq, cmd, status, dev, sqmem, cqmem>>
  PROVE  Queues' /\ Phases'
<1>1. Queues' BY QueueKept, ZenonT(40) DEF Queues
<1>2. Phases' BY ZenonT(40) DEF Phases
<1>3. QED BY <1>1, <1>2

-----------------------------------------------------------------------------
(* The controller's steps.                                                 *)

\* the controller completes a command
LEMMA CompleteStep == ASSUME IInv, NEW q \in Queue, NEW ok \in BOOLEAN, Complete(q, ok) PROVE IInv'
<1> DEFINE r == sqmem[q][dev[q].head].read
           js(a) == {j \in 0..(NumBlocks - 1) : j < r.bytes /\ Target(r, j) = a}
           e == [sq |-> q, cid |-> sqmem[q][dev[q].head].cid, sqhd |-> NextSlot(dev[q].head), ok |-> ok]
<1>1. UNCHANGED <<pc, scan, drvvars, qvars, blk, sqmem, ctl, waited>> BY ZenonT(40) DEF Complete
<1>2. Queues' BY CompleteQueue DEF IInv
<1>3. Post(q, e) BY ZenonT(40) DEF Complete
<1>4. e.sqhd \in Slot BY QueueTypes, Slots, ZenonT(40) DEF IInv
<1>5. /\ Phases' /\ DOMAIN dev' = Queue /\ DOMAIN cqmem' = Queue
      /\ \A x \in Queue : dev'[x] \in [head : Slot, tail : Slot, phase : 0..1] /\ DOMAIN cqmem'[x] = Slot
  <2> HIDE DEF e
  <2> QED BY <1>3, <1>4, PostPhases, ZenonT(40) DEF IInv
<1>6. r.lba \in Nat BY QueueTypes, ZenonT(40) DEF IInv, Types
<1>7. DOMAIN mem' = DOMAIN mem /\ \A a \in DOMAIN mem : mem'[a] = mem[a] \/ \E j \in js(a) : mem'[a] = r.lba + j
  BY ZenonT(40) DEF Complete
<1>8. \A a \in DOMAIN mem : mem'[a] \in Nat \union {Garbage}
  <2> SUFFICES ASSUME NEW a \in DOMAIN mem PROVE mem'[a] \in Nat \union {Garbage} OBVIOUS
  <2>1. CASE mem'[a] = mem[a] BY <2>1, PlainTypes DEF IInv
  <2>2. CASE \E j \in js(a) : mem'[a] = r.lba + j
    <3>1. \A j \in js(a) : j \in 0..(NumBlocks - 1) BY ZenonT(40)
    <3> HIDE DEF js, r
    <3>2. QED BY <2>2, <3>1, <1>6
  <2>3. QED BY <1>7, <2>1, <2>2, ZenonT(40)
<1>9. Types'
  <2>1. \A a \in DOMAIN mem' : mem'[a] \in Nat \union {Garbage} BY <1>7, <1>8, ZenonT(40)
  <2>2. QED BY <1>1, <1>5, <2>1, QueueTypes, PlainTypes, NextTypes, ZenonT(40) DEF IInv, Types, drvvars, qvars
<1>10. AdminHeld' /\ WaitsFor' /\ Powered' BY <1>1 DEF IInv, AdminHeld, WaitsFor, Powered, Waiting, qvars
<1>11. QED BY <1>2, <1>5, <1>9, <1>10, ZenonT(40) DEF IInv

\* the controller posts an entry that answers nothing
LEMMA GlitchStep == ASSUME IInv, NEW q \in Queue, Glitch(q) PROVE IInv'
<1>1. UNCHANGED <<pc, scan, drvvars, qvars, blk, sqmem, mem, ctl, waited>> BY ZenonT(40) DEF Glitch
<1>2. Queues' BY GlitchQueue DEF IInv
<1>3. PICK c \in {<<2, 0>>, <<1 - q, 0>>, <<q, MaxCid[q + 1] + 1>>} :
        Post(q, [sq |-> c[1], cid |-> c[2], sqhd |-> dev[q].head, ok |-> TRUE])
  BY ZenonT(40) DEF Glitch
<1> DEFINE e == [sq |-> c[1], cid |-> c[2], sqhd |-> dev[q].head, ok |-> TRUE]
<1>4. Post(q, e) BY <1>3, ZenonT(40)
<1>5. e.sqhd \in Slot BY QueueTypes, ZenonT(40) DEF IInv
<1>6. /\ Phases' /\ DOMAIN dev' = Queue /\ DOMAIN cqmem' = Queue
      /\ \A x \in Queue : dev'[x] \in [head : Slot, tail : Slot, phase : 0..1] /\ DOMAIN cqmem'[x] = Slot
  <2> HIDE DEF e
  <2> QED BY <1>4, <1>5, PostPhases, ZenonT(40) DEF IInv
<1>7. Types' BY <1>1, <1>6, QueueTypes, PlainTypes, NextTypes, ZenonT(40) DEF IInv, Types, drvvars, qvars
<1>8. AdminHeld' /\ WaitsFor' /\ Powered' BY <1>1, ZenonT(40) DEF IInv, AdminHeld, WaitsFor, Powered, Waiting, qvars
<1>9. QED BY <1>2, <1>6, <1>7, <1>8 DEF IInv

-----------------------------------------------------------------------------
(* The first state.                                                        *)

LEMMA InitHolds == Init => IInv
<1> SUFFICES ASSUME Init PROVE IInv OBVIOUS
<1>1. PICK size \in XferSizes :
        blk = [consume |-> 0, end |-> 0, next_end |-> 0, stop |-> 0, next_lba |-> 0,
               xfer |-> size, want |-> 0, buf |-> 0, lba |-> 0]
  BY ZenonT(40) DEF Init
<1>2. blk \in Blk BY <1>1, NvmeAssumption DEF Blk
<1>3. /\ pc = "link" /\ scan = -1 /\ waited = 0
      /\ nsid = 1 /\ num_iocq = 0 /\ num_iosq = 0 /\ rtd3e = SecondUs
      /\ status = [admin |-> "creating", xfer |-> "creating"]
  BY ZenonT(40) DEF Init
<1>4. /\ sq = [q \in Queue |-> [tail |-> 0, head |-> 0]]
      /\ cq = [q \in Queue |-> [pos |-> 0, phase |-> 1]]
      /\ cmd = [q \in Queue |-> [i \in Cids(q) |-> Null]]
      /\ dev = [q \in Queue |-> [head |-> 0, tail |-> 0, phase |-> 1]]
  BY ZenonT(40) DEF Init
<1>5. /\ sqmem = [q \in Queue |-> [s \in Slot |-> [cid |-> 0, read |-> NoRead]]]
      /\ cqmem = [q \in Queue |-> [s \in Slot |-> Stale]]
  BY ZenonT(40) DEF Init
<1>6. ctl = [en |-> FALSE, bus |-> FALSE, cfs |-> FALSE, down |-> FALSE] BY ZenonT(40) DEF Init
<1>7. TypeOK
  <2>1. 0 \in Slot BY NvmeAssumption DEF Slot
  <2>2. pc \in PCs /\ scan \in -1..2 /\ nsid \in 1..NumNs /\ num_iocq \in 0..1 /\ num_iosq \in 0..1
        /\ rtd3e \in {0, SecondUs} /\ waited \in Nat
    BY <1>3, NvmeAssumption DEF PCs
  <2>3. \A q \in Queue : /\ sq[q] \in [tail : Slot, head : Slot] /\ cq[q] \in [pos : Slot, phase : 0..1]
                         /\ cmd[q] \in [Cids(q) -> {Null, "admin", "xfer"}]
                         /\ dev[q] \in [head : Slot, tail : Slot, phase : 0..1]
    BY <1>4, <2>1
  <2>4. status \in [{"admin", "xfer"} -> {"creating", "submitted", "ok", "error"}] BY <1>3
  <2>5. ctl \in Ctl BY <1>6, ZenonT(40) DEF Ctl
  <2>6. \A a \in DOMAIN mem : mem[a] \in Nat \union {Garbage} BY ZenonT(40) DEF Init
  <2>7. QED BY <2>2, <2>3, <2>4, <2>5, <2>6, ZenonT(40) DEF TypeOK, PCs, Ctl
<1>8. Types
  <2>1. DOMAIN sq = Queue /\ DOMAIN cq = Queue /\ DOMAIN cmd = Queue /\ DOMAIN dev = Queue BY <1>4
  <2>2. /\ DOMAIN sqmem = Queue /\ DOMAIN cqmem = Queue
        /\ \A q \in Queue : DOMAIN sqmem[q] = Slot /\ DOMAIN cqmem[q] = Slot
    BY <1>5
  <2>3. \A q \in Queue : \A s \in Slot : sqmem[q][s].read.lba \in Nat BY <1>5 DEF NoRead
  <2>4. QED BY <1>2, <1>7, <2>1, <2>2, <2>3, ZenonT(40) DEF Types, Blk
<1>9. \A q \in Queue : Quiet(q) /\ Clean(q) BY <1>3, <1>4, ZenonT(40) DEF Quiet, Clean, Req
<1>10. Queues BY <1>9, ZenonT(40) DEF Queues, QueueInv
<1>11. Phases BY <1>4, <1>5, NvmeAssumption DEF Phases, Stale, Slot
<1>12. WaitsFor /\ Powered BY <1>3, <1>6 DEF WaitsFor, Powered, Waiting, Idle
<1>13. AdminHeld BY <1>4 DEF AdminHeld, Queue
<1>14. QED BY <1>8, <1>10, <1>11, <1>12, <1>13 DEF IInv

-----------------------------------------------------------------------------
(* Every step of the driver, of its client and of the controller keeps the *)
(* invariant, and the invariant implies QueuesSound.                       *)

(* What the invariant says.                                                *)

LEMMA InvSound == IInv => QueuesSound
<1> SUFFICES ASSUME IInv PROVE QueuesSound OBVIOUS
<1>1. TypeOK BY ZenonT(40) DEF IInv, Types
<1>2. CompletionsMatch
  <2> SUFFICES ASSUME Waiting, Fresh, ~Bad
               PROVE  cmd[scan][Cqe.cid] # Null /\ status[cmd[scan][Cqe.cid]] = "submitted"
    BY ZenonT(40) DEF CompletionsMatch
  <2>1. scan \in Queue BY PlainTypes DEF IInv, Waiting, Idle, Fresh, Queue
  <2>2. Cqe = Cell(scan) BY ZenonT(40) DEF Cqe, Cell
  <2>3. Cell(scan).phase = cq[scan].phase /\ Cell(scan).sq = scan /\ Cell(scan).cid \in Cids(scan)
    BY <2>2, ZenonT(40) DEF Fresh, Bad
  <2>4. Pending(scan, Cell(scan).cid) BY <2>1, <2>3, FreshAnswers, ZenonT(40) DEF IInv
  <2>5. QED BY <2>2, <2>4, ZenonT(40) DEF Pending, Req, Null
<1>3. StackRequestLives BY ZenonT(40) DEF IInv, AdminHeld, StackRequestLives, Null
<1>4. NeverFull
  <2>1. ASSUME pc \in Commands, ~Waiting PROVE Submitted(0)
    <3>1. \A i \in Cids(0) : cmd[0][i] = Null BY <2>1 DEF IInv, AdminHeld, Commands
    <3>2. QueueInv(0) /\ Req(0) # Null BY DEF IInv, Queues, Queue, Req, Null
    <3>3. Quiet(0) BY <3>1, <3>2, ZenonT(40) DEF QueueInv, Outstanding, Pending
    <3>4. QED BY <3>3, QuietHasRoom DEF IInv, Queue
  <2>2. ASSUME ~Busy PROVE Submitted(1)
    <3>1. QueueInv(1) /\ Req(1) = "xfer" BY DEF IInv, Queues, Queue, Req
    <3>2. Quiet(1) BY <2>2, <3>1, ZenonT(40) DEF QueueInv, Outstanding, Pending, Busy
    <3>3. QED BY <3>2, QuietHasRoom DEF IInv, Queue
  <2>3. QED BY <2>1, <2>2 DEF NeverFull
<1>5. QuietAtExit BY DEF IInv, Powered, QuietAtExit
<1>6. QED BY <1>1, <1>2, <1>3, <1>4, <1>5 DEF QueuesSound

-----------------------------------------------------------------------------
(* The steps of the driver.                                                *)

\* setting and clearing a bit of the controller's state
LEMMA CtlBits ==
  ASSUME ctl \in Ctl, NEW b \in BOOLEAN
  PROVE  /\ [ctl EXCEPT !.en = b] \in Ctl /\ [ctl EXCEPT !.bus = b] \in Ctl
         /\ [ctl EXCEPT !.cfs = b] \in Ctl /\ [ctl EXCEPT !.down = b] \in Ctl
BY ZenonT(40) DEF Ctl

\* the types of what a driver's step may change while the queues stay alone
LEMMA TypesKept ==
  ASSUME Types, UNCHANGED <<sq, cq, cmd, status, dev, sqmem, cqmem>>,
         pc' \in PCs, scan' \in -1..2, nsid' \in 1..NumNs, num_iocq' \in 0..1, num_iosq' \in 0..1,
         rtd3e' \in {0, SecondUs}, waited' \in Nat, blk' \in Blk,
         ctl' \in Ctl, mem' = mem
  PROVE  Types'
BY ZenonT(40) DEF Types, TypeOK, PCs, Blk, Ctl

\* the bring-up and the shutdown
LEMMA PowerStep ==
  ASSUME IInv, FinishLink \/ ProbeFunction \/ nvme_init \/ NormalShutdown \/ AbruptShutdown \/ Leave
               \/ Fatal \/ PowerDown
  PROVE  IInv'
<1>1. UNCHANGED <<sq, cq, cmd, status, dev, sqmem, cqmem, mem, blk, drvvars, scan>>
  BY DEF FinishLink, ProbeFunction, nvme_init, NormalShutdown, AbruptShutdown, Leave, Fatal, PowerDown,
         Goto, Poll, Disable, qvars, devvars
<1>2. pc' \in PCs /\ waited' \in Nat /\ ctl' \in Ctl
  <2>1. pc' \in {pc, "out", "config", "phys", "init", "log", "identify_ctl", "abrupt", "exit"}
    BY ZenonT(40)
    DEF FinishLink, ProbeFunction, nvme_init, NormalShutdown, AbruptShutdown, Leave, Fatal, PowerDown, Goto, Poll, Disable
  <2>2. waited' \in {waited, waited + 1}
    BY ZenonT(40)
    DEF FinishLink, ProbeFunction, nvme_init, NormalShutdown, AbruptShutdown, Leave, Fatal, PowerDown, Goto, Poll, Disable
  <2>3. ctl' \in {ctl, [ctl EXCEPT !.en = TRUE], [ctl EXCEPT !.en = FALSE], [ctl EXCEPT !.bus = TRUE],
                  [ctl EXCEPT !.bus = FALSE], [ctl EXCEPT !.cfs = TRUE], [ctl EXCEPT !.down = TRUE]}
    BY ZenonT(40)
    DEF FinishLink, ProbeFunction, nvme_init, NormalShutdown, AbruptShutdown, Leave, Fatal, PowerDown, Goto, Poll, Disable, devvars
  <2>4. pc \in PCs /\ waited \in Nat /\ ctl \in Ctl BY PlainTypes DEF IInv
  <2>5. ctl' \in Ctl BY <2>3, <2>4, CtlBits, ZenonT(40)
  <2>6. pc' \in PCs BY <2>1, <2>4 DEF PCs, Commands
  <2>7. QED BY <2>2, <2>4, <2>5, <2>6
<1>3. Types' BY <1>1, <1>2, PlainTypes, TypesKept DEF IInv, drvvars
<1>4. Queues' /\ Phases' BY <1>1, QueuesKept DEF IInv
<1>5. AdminHeld'
  BY <1>1, PlainTypes, ZenonT(40)
  DEF IInv, AdminHeld, FinishLink, ProbeFunction, nvme_init, NormalShutdown, AbruptShutdown, Leave, Fatal, PowerDown,
         Goto, Poll, Disable, Waiting, Commands
<1>6. WaitsFor'
  BY <1>1, ZenonT(40)
  DEF IInv, WaitsFor, FinishLink, ProbeFunction, nvme_init, NormalShutdown, AbruptShutdown, Leave, Fatal, PowerDown,
         Goto, Poll, Disable, Waiting, Commands
<1>7. Powered'
  <2>1. DOMAIN ctl = {"en", "bus", "cfs", "down"} BY PlainTypes, SMTT(30) DEF IInv, Ctl
  <2>2. CASE FinishLink BY <2>2 DEF IInv, Powered, FinishLink, Goto, devvars
  <2>3. CASE ProbeFunction BY <2>1, <2>3 DEF IInv, Powered, ProbeFunction, Goto
  <2>4. CASE nvme_init BY <2>1, <2>4 DEF IInv, Powered, nvme_init, Goto
  <2>5. CASE NormalShutdown BY <2>5 DEF IInv, Powered, NormalShutdown, Goto, Poll, Disable
  <2>6. CASE AbruptShutdown BY <2>6 DEF IInv, Powered, AbruptShutdown, Goto, Poll, Disable
  <2>7. CASE Leave BY <2>1, <2>7 DEF IInv, Powered, Leave, Goto
  <2>8. CASE Fatal \/ PowerDown BY <2>1, <2>8 DEF IInv, Powered, Fatal, PowerDown
  <2>9. QED BY <2>2, <2>3, <2>4, <2>5, <2>6, <2>7, <2>8
<1>8. QED BY <1>3, <1>4, <1>5, <1>6, <1>7 DEF IInv

\* boot_nvme goes on or gives up: the namespace number stays in its range
LEMMA AfterBootStep ==
  ASSUME Types, NEW st, AfterBoot(st)
  PROVE  /\ pc' \in {"shutdown", "identify_ns"} /\ nsid' \in 1..NumNs
         /\ num_iocq' = num_iocq /\ num_iosq' = num_iosq /\ rtd3e' = rtd3e
<1>1. nsid \in 1..NumNs /\ NumNs \in Nat BY PlainTypes, NvmeAssumption
<1>2. pc' \in {"shutdown", "identify_ns"} BY ZenonT(40) DEF AfterBoot
<1>3. nsid' = nsid \/ (nsid # NumNs /\ nsid' = nsid + 1) BY ZenonT(40) DEF AfterBoot
<1>4. num_iocq' = num_iocq /\ num_iosq' = num_iosq /\ rtd3e' = rtd3e BY ZenonT(40) DEF AfterBoot
<1>5. QED BY <1>1, <1>2, <1>3, <1>4

\* steps that touch neither the queues nor the controller
LEMMA QuietStep ==
  ASSUME IInv, UNCHANGED <<sq, cq, cmd, status, dev, sqmem, cqmem, mem, ctl>>,
         pc' \in PCs, scan' \in -1..2, nsid' \in 1..NumNs, num_iocq' \in 0..1, num_iosq' \in 0..1,
         rtd3e' \in {0, SecondUs}, waited' = waited, blk' \in Blk,
         WaitsFor', AdminHeld', pc' \notin {"link", "config", "init", "phys", "out", "exit"}
  PROVE  IInv'
<1>1. Types' BY PlainTypes, TypesKept, ZenonT(40) DEF IInv
<1>2. Queues' /\ Phases' BY QueuesKept DEF IInv
<1>3. Powered' BY DEF Powered
<1>4. QED BY <1>1, <1>2, <1>3 DEF IInv

\* the wait returns st; nothing is left of an admin command unless it goes to the shutdown
LEMMA WaitReturnsStep ==
  ASSUME IInv, NEW st, Waiting, WaitReturns(st), UNCHANGED <<qvars, devvars, waited>>,
         st = "OK" \/ st = "LOCAL" => status[Request] # "submitted"
  PROVE  IInv'
<1>1. UNCHANGED <<sq, cq, cmd, status, dev, sqmem, cqmem, mem, ctl, waited>> BY DEF qvars, devvars
<1>2. /\ pc \in PCs /\ nsid \in 1..NumNs /\ num_iocq \in 0..1 /\ num_iosq \in 0..1
      /\ rtd3e \in {0, SecondUs} /\ blk \in Blk /\ pc \in Commands \union {"xfer"}
  BY PlainTypes DEF IInv, WaitsFor
<1>3. scan' = Idle BY ZenonT(40) DEF WaitReturns
<1>4. scan' \in -1..2 /\ ~Waiting' BY <1>3 DEF Idle, Waiting
<1>5. CASE pc = "xfer" /\ st = "OK"
  <2>1. pc' = "request" /\ blk' = [blk EXCEPT !.end = blk.next_end] /\ UNCHANGED drvvars
    BY <1>5, ZenonT(40) DEF WaitReturns
  <2>2. blk' \in Blk BY <1>2, <2>1 DEF Blk
  <2>3. AdminHeld' BY <1>1, <1>5, <2>1 DEF AdminHeld, IInv, Commands
  <2>4. WaitsFor' BY <1>4 DEF WaitsFor
  <2>5. QED BY <1>1, <1>2, <1>4, <2>1, <2>2, <2>3, <2>4, QuietStep DEF drvvars, PCs
<1>6. CASE pc = "xfer" /\ st # "OK"
  <2>1. PumpFails(st) BY <1>6, ZenonT(40) DEF WaitReturns
  <2>2. PICK r : AfterBoot(r) BY <2>1, ZenonT(40) DEF PumpFails
  <2>3. blk' = blk BY <2>1, ZenonT(40) DEF PumpFails
  <2>4. /\ pc' \in {"shutdown", "identify_ns"} /\ nsid' \in 1..NumNs
        /\ num_iocq' = num_iocq /\ num_iosq' = num_iosq /\ rtd3e' = rtd3e
    BY <2>2, AfterBootStep DEF IInv
  <2>5. AdminHeld' BY <1>1, <1>6, <2>4, ZenonT(40) DEF AdminHeld, IInv, Commands
  <2>6. WaitsFor' BY <1>4 DEF WaitsFor
  <2>7. QED BY <1>1, <1>2, <1>4, <2>3, <2>4, <2>5, <2>6, QuietStep, ZenonT(40) DEF PCs, Commands
<1>7. CASE pc # "xfer" /\ st = "OK"
  <2>1. AfterCommand BY <1>7, ZenonT(40) DEF WaitReturns
  <2>2. pc \in Commands BY <1>2, <1>7
  <2>3. pc' \in {"set_features", "shutdown", "create_cq", "create_sq", "identify_ns", "cue"}
    BY <2>1, <2>2 DEF AfterCommand, Following, Commands
  <2>4. /\ rtd3e' \in {0, SecondUs} /\ num_iocq' \in 0..1 /\ num_iosq' \in 0..1 /\ nsid' = nsid /\ blk' = blk
    BY <1>2, <2>1 DEF AfterCommand
  <2>5. status["admin"] # "submitted" BY <1>7 DEF Request
  <2>6. \A i \in Cids(0) : cmd[0][i] = Null
    <3>1. QueueInv(0) /\ Req(0) = "admin" BY DEF IInv, Queues, Queue, Req
    <3>2. QED BY <2>5, <3>1, ZenonT(40) DEF QueueInv, Quiet, Outstanding, Pending
  <2>7. AdminHeld' BY <1>1, <2>6 DEF AdminHeld
  <2>8. WaitsFor' BY <1>4 DEF WaitsFor
  <2>9. QED BY <1>1, <1>2, <1>4, <2>3, <2>4, <2>7, <2>8, QuietStep, ZenonT(40) DEF PCs, Commands
<1>8. CASE pc # "xfer" /\ st # "OK"
  <2>1. pc' = "shutdown" /\ UNCHANGED <<drvvars, blk>> BY <1>8, ZenonT(40) DEF WaitReturns
  <2>2. AdminHeld' BY <2>1 DEF AdminHeld
  <2>3. WaitsFor' BY <1>4 DEF WaitsFor
  <2>4. QED BY <1>1, <1>2, <1>4, <2>1, <2>2, <2>3, QuietStep, ZenonT(40) DEF PCs, drvvars
<1>9. QED BY <1>5, <1>6, <1>7, <1>8

\* a completion is refused, a queue has nothing more, or all queues were looked at
LEMMA AwaitStep ==
  ASSUME IInv, RejectCqe \/ NextQueue \/ CheckRequest
  PROVE  IInv'
<1>1. CASE RejectCqe BY <1>1, WaitReturnsStep DEF RejectCqe
<1>2. CASE NextQueue
  <2>1. /\ scan' = scan + 1 /\ scan =< num_iocq /\ scan # -1
        /\ UNCHANGED <<pc, drvvars, qvars, blk, devvars, waited>>
    BY <1>2, ZenonT(40) DEF NextQueue, Waiting, Idle
  <2>2. scan' \in -1..2 /\ Waiting' BY <2>1, PlainTypes DEF IInv, Waiting, Idle
  <2>3. AdminHeld' BY <2>1, <2>2, <1>2, ZenonT(40) DEF AdminHeld, IInv, qvars, NextQueue
  <2>4. WaitsFor' BY <2>1, <1>2 DEF WaitsFor, IInv, NextQueue
  <2>5. pc \in Commands \union {"xfer"} BY <1>2 DEF WaitsFor, IInv, NextQueue
  <2>6. pc' \notin {"link", "config", "init", "phys", "out", "exit"} BY <2>1, <2>5 DEF Commands
  <2>7. QED BY <2>1, <2>2, <2>3, <2>4, <2>6, PlainTypes, QuietStep, ZenonT(40) DEF IInv, drvvars, qvars, devvars
<1>3. CASE CheckRequest
  <2>1. Waiting /\ UNCHANGED <<qvars, devvars, waited>> BY <1>3, ZenonT(40) DEF CheckRequest
  <2>2. CASE \E st : WaitReturns(st) /\ (st \in {"OK", "LOCAL"} => status[Request] # "submitted")
    BY <2>1, <2>2, WaitReturnsStep
  <2>3. CASE scan' = 0 /\ UNCHANGED <<pc, drvvars, blk>>
    <3>1. scan' \in -1..2 /\ Waiting' BY <2>3 DEF Waiting, Idle
    <3>2. AdminHeld' BY <2>1, <2>3, <3>1, ZenonT(40) DEF AdminHeld, IInv, qvars
    <3>3. WaitsFor' BY <2>1, <2>3 DEF WaitsFor, IInv
    <3>4. pc \in Commands \union {"xfer"} BY <2>1 DEF WaitsFor, IInv
    <3>5. pc' \notin {"link", "config", "init", "phys", "out", "exit"} BY <2>3, <3>4 DEF Commands
    <3>6. QED BY <2>1, <2>3, <3>1, <3>2, <3>3, <3>5, PlainTypes, QuietStep, ZenonT(40) DEF IInv, drvvars, qvars, devvars
  <2>4. \/ status[Request] = "ok" /\ WaitReturns("OK")
        \/ status[Request] = "error" /\ WaitReturns("LOCAL")
        \/ WaitReturns("GLOBAL")
        \/ scan' = 0 /\ UNCHANGED <<pc, drvvars, blk>>
    BY <1>3, ZenonT(40) DEF CheckRequest
  <2>5. QED BY <2>2, <2>3, <2>4
<1>4. QED BY <1>1, <1>2, <1>3

\* the answer is taken
LEMMA ProcessStep == ASSUME IInv, nvme_process_cqe PROVE IInv'
<1>1. /\ scan \in Queue /\ Queues'
      /\ sq'[scan] \in [tail : Slot, head : Slot] /\ cq'[scan] \in [pos : Slot, phase : 0..1]
      /\ status' \in [{"admin", "xfer"} -> {"creating", "submitted", "ok", "error"}]
      /\ cmd'[scan] \in [Cids(scan) -> {Null, "admin", "xfer"}]
  BY ProcessQueue, ZenonT(40) DEF IInv
<1>2. UNCHANGED <<pc, scan, drvvars, blk, devvars, waited>> BY ZenonT(40) DEF nvme_process_cqe
<1>3. Phases' BY <1>2, ZenonT(40) DEF IInv, Phases, devvars
<1>4. /\ DOMAIN sq' = Queue /\ DOMAIN cq' = Queue /\ DOMAIN cmd' = Queue
      /\ \A x \in Queue : x # scan => sq'[x] = sq[x] /\ cq'[x] = cq[x] /\ cmd'[x] = cmd[x]
  BY DEF nvme_process_cqe, IInv, Types
<1>5. \A i \in Cids(0) : cmd'[0][i] # Null => cmd[0][i] # Null
  <2>1. cmd' = [cmd EXCEPT ![scan][Cqe.cid] = Null] BY ZenonT(40) DEF nvme_process_cqe
  <2>2. 0 \in Queue BY DEF Queue
  <2>3. DOMAIN cmd = Queue /\ cmd[0] \in [Cids(0) -> {Null, "admin", "xfer"}] BY <2>2, QueueTypes, ZenonT(40) DEF IInv, Types
  <2>4. QED BY <2>1, <2>2, <2>3, ZenonT(40)
<1>6. Types'
  <2>1. \A x \in Queue : /\ sq'[x] \in [tail : Slot, head : Slot] /\ cq'[x] \in [pos : Slot, phase : 0..1]
                         /\ cmd'[x] \in [Cids(x) -> {Null, "admin", "xfer"}]
    BY <1>1, <1>4, QueueTypes, ZenonT(40) DEF IInv
  <2>2. /\ DOMAIN dev' = Queue /\ DOMAIN sqmem' = Queue /\ DOMAIN cqmem' = Queue
        /\ \A x \in Queue : /\ dev'[x] \in [head : Slot, tail : Slot, phase : 0..1]
                            /\ DOMAIN sqmem'[x] = Slot /\ DOMAIN cqmem'[x] = Slot
                            /\ \A s \in Slot : sqmem'[x][s].read.lba \in Nat
    BY <1>2, QueueTypes, ZenonT(40) DEF IInv, Types, devvars
  <2>3. QED BY <1>1, <1>2, <1>4, <2>1, <2>2, PlainTypes, NextTypes, ZenonT(40) DEF IInv, drvvars, devvars
<1>7. AdminHeld' BY <1>2, <1>5, ZenonT(40) DEF IInv, AdminHeld, Waiting
<1>8. WaitsFor' /\ Powered' BY <1>2, ZenonT(40) DEF IInv, WaitsFor, Powered, Waiting, devvars
<1>9. QED BY <1>1, <1>3, <1>6, <1>7, <1>8, ZenonT(40) DEF IInv

\* an admin command is submitted: there is room, as nothing is under way
LEMMA CommandStep == ASSUME IInv, wait_single_command PROVE IInv'
<1>1. /\ pc \in Commands /\ ~Waiting /\ nvme_submit_single_command(0, "admin", NoRead)
      /\ UNCHANGED <<drvvars, blk, dev, cqmem, mem, ctl, waited>>
  BY ZenonT(40) DEF wait_single_command
<1>2. Quiet(0) /\ 0 \in Queue /\ Req(0) = "admin" /\ NoRead.lba \in Nat
  <2>1. 0 \in Queue /\ Req(0) = "admin" BY DEF Queue, Req
  <2>2. \A i \in Cids(0) : cmd[0][i] = Null BY <1>1 DEF IInv, AdminHeld, Commands
  <2>3. Quiet(0) BY <2>1, <2>2, ZenonT(40) DEF IInv, Queues, QueueInv, Outstanding, Pending, Null
  <2>4. QED BY <2>1, <2>3, ZenonT(40) DEF NoRead
<1>3. Submitted(0) BY <1>2, QuietHasRoom DEF IInv
<1>4. scan' = 0 /\ pc' = pc BY <1>3, ZenonT(40) DEF wait_single_command
<1>5. Queues' BY <1>1, <1>2, SubmitQueue DEF IInv
<1>6. Phases'
  <2>1. dev' = dev /\ cqmem' = cqmem BY <1>1, ZenonT(40)
  <2>2. QED BY <2>1, ZenonT(40) DEF IInv, Phases
<1>7. Types'
  <2>1. /\ DOMAIN sq' = Queue /\ DOMAIN cmd' = Queue /\ DOMAIN sqmem' = Queue /\ cq' = cq
        /\ \A y \in Queue : /\ sq'[y] \in [tail : Slot, head : Slot] /\ DOMAIN sqmem'[y] = Slot
                            /\ cmd'[y] \in [Cids(y) -> {Null, "admin", "xfer"}]
                            /\ \A s \in Slot : sqmem'[y][s].read.lba \in Nat
        /\ status' \in [{"admin", "xfer"} -> {"creating", "submitted", "ok", "error"}]
    BY <1>1, <1>2, SubmitTypes, ZenonT(40) DEF IInv
  <2>2. /\ DOMAIN cq' = Queue /\ DOMAIN dev' = Queue /\ DOMAIN cqmem' = Queue
        /\ \A y \in Queue : /\ cq'[y] \in [pos : Slot, phase : 0..1] /\ DOMAIN cqmem'[y] = Slot
                            /\ dev'[y] \in [head : Slot, tail : Slot, phase : 0..1]
    BY <1>1, <2>1, QueueTypes, ZenonT(40) DEF IInv, Types
  <2>3. scan' \in -1..2 BY <1>4
  <2>4. QED BY <1>1, <1>4, <2>1, <2>2, <2>3, PlainTypes, NextTypes, ZenonT(40) DEF IInv, drvvars
<1>8. AdminHeld' /\ WaitsFor' BY <1>1, <1>4 DEF AdminHeld, WaitsFor, Waiting, Idle
<1>9. Powered' BY <1>1, <1>4 DEF IInv, Powered
<1>10. QED BY <1>5, <1>6, <1>7, <1>8, <1>9 DEF IInv

\* steps between which no admin command is under way and nothing is waited for
LEMMA ClientStep ==
  ASSUME IInv, UNCHANGED <<sq, cq, cmd, status, dev, sqmem, cqmem, mem, ctl>>,
         pc \in {"cue", "client", "pump", "request"}, scan' = scan,
         pc' \in PCs \ {"link", "config", "init", "phys", "out", "exit", "xfer"}, nsid' \in 1..NumNs,
         num_iocq' = num_iocq, num_iosq' = num_iosq, rtd3e' = rtd3e, waited' = waited, blk' \in Blk
  PROVE  IInv'
<1>1. ~Waiting BY ZenonT(40) DEF IInv, WaitsFor, Commands
<1>2. WaitsFor' BY <1>1, ZenonT(40) DEF WaitsFor, Waiting
<1>3. AdminHeld' BY ZenonT(40) DEF IInv, AdminHeld, Commands
<1>4. QED BY <1>2, <1>3, PlainTypes, QuietStep, ZenonT(40) DEF IInv

\* pump is called, tests its condition, or stops at the end of the buffer
LEMMA PumpStep ==
  ASSUME IInv, (\E consume \in Consumes, min \in Wants : Pump(consume, min)) \/ PumpTest \/ PumpStop
  PROVE  IInv'
<1>1. UNCHANGED <<sq, cq, cmd, status, dev, sqmem, cqmem, mem, ctl, waited, drvvars>>
  BY ZenonT(40) DEF Pump, PumpTest, PumpStop, qvars, devvars
<1>2. blk \in Blk /\ nsid \in 1..NumNs BY PlainTypes DEF IInv
<1>3. CASE \E consume \in Consumes, min \in Wants : Pump(consume, min)
  <2>1. PICK consume \in Consumes, min \in Wants : Pump(consume, min) BY <1>3
  <2>2. /\ blk.consume + consume \in Int /\ min \in Int
        /\ blk' = [blk EXCEPT !.consume = blk.consume + consume, !.want = min]
    <3>1. blk.consume \in Int /\ blk.end \in Int BY <1>2 DEF Blk
    <3>2. consume \in Int /\ min \in Int BY <3>1 DEF Consumes, Wants
    <3>3. blk' = [blk EXCEPT !.consume = blk.consume + consume, !.want = min] BY <2>1, ZenonT(40) DEF Pump
    <3>4. QED BY <3>1, <3>2, <3>3
  <2>3. blk' \in Blk BY <1>2, <2>2, ZenonT(40) DEF Blk
  <2>4. pc = "client" /\ pc' = "pump" /\ scan' = scan BY <2>1, ZenonT(40) DEF Pump, Goto
  <2>5. QED BY <1>1, <1>2, <2>3, <2>4, ClientStep, ZenonT(40) DEF drvvars, PCs
<1>4. CASE PumpTest /\ pc' # "xfer"
  <2>1. pc = "pump" /\ pc' \in {"client", "request"} /\ scan' = scan /\ blk' = blk
    BY <1>4, ZenonT(40) DEF PumpTest, Goto
  <2>2. QED BY <1>1, <1>2, <2>1, ClientStep, ZenonT(40) DEF drvvars, PCs
<1>5. CASE PumpTest /\ pc' = "xfer"
  <2>1. pc = "pump" /\ pc' = "xfer" /\ blk' = blk /\ scan' = 0 BY <1>5, ZenonT(40) DEF PumpTest, Goto
  <2>2. AdminHeld' BY <1>1, <2>1, ZenonT(40) DEF IInv, AdminHeld, Commands
  <2>3. WaitsFor' BY <2>1 DEF WaitsFor
  <2>4. pc' \in PCs /\ scan' \in -1..2 BY <2>1 DEF PCs
  <2>5. QED BY <1>1, <1>2, <2>1, <2>2, <2>3, <2>4, PlainTypes, QuietStep, ZenonT(40) DEF IInv, drvvars
<1>6. CASE PumpStop
  <2>1. pc = "request" /\ pc' = "client" /\ scan' = scan /\ blk' = blk BY <1>6, ZenonT(40) DEF PumpStop, Goto
  <2>2. QED BY <1>1, <1>2, <2>1, ClientStep, ZenonT(40) DEF drvvars, PCs
<1>7. QED BY <1>3, <1>4, <1>5, <1>6

\* the client starts a read elsewhere, or boot_blockdev returns
LEMMA StartStep ==
  ASSUME IInv, pc \in {"cue", "client"}, NEW lba \in Nat, NEW buf \in Int, NEW end \in Int, start(lba, buf, end)
  PROVE  IInv'
<1>1. UNCHANGED <<sq, cq, cmd, status, dev, sqmem, cqmem, mem, ctl, waited>> BY DEF start, qvars, devvars
<1>2. blk \in Blk /\ nsid \in 1..NumNs BY PlainTypes, ZenonT(40) DEF IInv
<1>3. CASE lba >= NumBlocks
  <2>1. AfterBoot("INVALID") /\ scan' = scan /\ blk' = blk BY <1>3, ZenonT(40) DEF start
  <2>2. /\ pc' \in {"shutdown", "identify_ns"} /\ nsid' \in 1..NumNs
        /\ num_iocq' = num_iocq /\ num_iosq' = num_iosq /\ rtd3e' = rtd3e
    BY <2>1, AfterBootStep, ZenonT(40) DEF IInv
  <2>3. QED BY <1>1, <1>2, <2>1, <2>2, ClientStep, ZenonT(40) DEF PCs, Commands
<1>4. CASE ~(lba >= NumBlocks)
  <2>1. /\ pc' = "client" /\ scan' = scan /\ UNCHANGED drvvars
        /\ blk' = [blk EXCEPT !.consume = buf, !.end = buf, !.next_end = buf, !.stop = end,
                              !.next_lba = lba % U32, !.buf = buf, !.lba = lba]
    BY <1>4, ZenonT(40) DEF start, Goto
  <2>2. lba % U32 \in Nat BY NvmeAssumption
  <2>3. blk' \in Blk BY <1>2, <2>1, <2>2, ZenonT(40) DEF Blk
  <2>4. QED BY <1>1, <1>2, <2>1, <2>3, ClientStep DEF PCs, drvvars
<1>5. QED BY <1>3, <1>4

LEMMA BootStep ==
  ASSUME IInv, Cue \/ ReadOn \/ (\E lba \in PayloadLbas : ReadPayload(lba))
               \/ (\E st \in {"OK", "INVALID"} : BootDone(st))
  PROVE  IInv'
<1>1. blk \in Blk /\ nsid \in 1..NumNs BY PlainTypes DEF IInv
<1>2. TableEnd \in Nat /\ BlobEnd \in Nat /\ PayloadLbas \subseteq Nat BY NvmeAssumption
<1>3. CASE pc = "cue" /\ start(0, 0, TableEnd) BY <1>2, <1>3, StartStep
<1>4. CASE pc = "cue" /\ Goto("shutdown") /\ UNCHANGED <<drvvars, qvars, blk, devvars, waited>>
  BY <1>1, <1>4, ClientStep, ZenonT(40) DEF Goto, drvvars, qvars, devvars, PCs
<1>5. CASE ReadOn
  <2>1. blk.lba + TableEnd \in Nat BY <1>1, <1>2 DEF Blk
  <2>2. pc = "client" /\ start(blk.lba + TableEnd, 0, TableEnd) BY <1>5, ZenonT(40) DEF ReadOn
  <2>3. PICK l \in Nat : start(l, 0, TableEnd) BY <2>1, <2>2
  <2>4. 0 \in Int /\ TableEnd \in Int BY <1>2
  <2>5. QED BY <2>2, <2>3, <2>4, StartStep, ZenonT(40)
<1>6. CASE \E lba \in PayloadLbas : ReadPayload(lba)
  <2>1. PICK lba \in PayloadLbas : ReadPayload(lba) BY <1>6
  <2>2. pc = "client" /\ start(lba, TableEnd, BlobEnd) BY <2>1, ZenonT(40) DEF ReadPayload
  <2>3. QED BY <1>2, <2>1, <2>2, StartStep
<1>7. CASE \E st \in {"OK", "INVALID"} : BootDone(st)
  <2>1. PICK st \in {"OK", "INVALID"} : BootDone(st) BY <1>7
  <2>2. pc = "client" /\ AfterBoot(st) /\ UNCHANGED <<scan, qvars, blk, devvars, waited>> BY <2>1, ZenonT(40) DEF BootDone
  <2>3. /\ pc' \in {"shutdown", "identify_ns"} /\ nsid' \in 1..NumNs
        /\ num_iocq' = num_iocq /\ num_iosq' = num_iosq /\ rtd3e' = rtd3e
    BY <2>2, AfterBootStep, ZenonT(40) DEF IInv
  <2>4. QED BY <1>1, <2>2, <2>3, ClientStep, ZenonT(40) DEF qvars, devvars, PCs, Commands
<1>8. QED BY <1>3, <1>4, <1>5, <1>6, <1>7, ZenonT(40) DEF Cue

\* a read is started, unless one that was given up is still under way
LEMMA RequestStep == ASSUME IInv, PumpRequest PROVE IInv'
<1> DEFINE x == nvme_add_phys_buffer(blk.end, RequestEnd)
           read == nvme_emit_read(x, blk.next_lba)
<1>1. pc = "request" /\ UNCHANGED <<dev, cqmem, ctl, waited>> BY ZenonT(40) DEF PumpRequest
<1>2. blk \in Blk /\ nsid \in 1..NumNs BY PlainTypes DEF IInv
<1>3. CASE Busy
  <2>1. PumpFails("TRANSIENT") /\ UNCHANGED <<scan, qvars, sqmem, mem>> BY <1>3, ZenonT(40) DEF PumpRequest
  <2>2. PICK r : AfterBoot(r) BY <2>1, ZenonT(40) DEF PumpFails
  <2>3. blk' = blk BY <2>1, ZenonT(40) DEF PumpFails
  <2>4. /\ pc' \in {"shutdown", "identify_ns"} /\ nsid' \in 1..NumNs
        /\ num_iocq' = num_iocq /\ num_iosq' = num_iosq /\ rtd3e' = rtd3e
    BY <2>2, AfterBootStep DEF IInv
  <2>5. QED BY <1>1, <1>2, <2>1, <2>3, <2>4, ClientStep, ZenonT(40) DEF PCs, Commands, qvars
<1>4. CASE pc' = "die" /\ scan' = scan /\ UNCHANGED <<drvvars, qvars, blk, sqmem, mem>>
  BY <1>1, <1>2, <1>4, ClientStep, ZenonT(40) DEF PCs, Commands, qvars, drvvars
<1>5. CASE /\ ~Busy /\ nvme_submit_single_command(1, "xfer", read)
           /\ IF Submitted(1)
                THEN /\ Goto("pump") /\ UNCHANGED drvvars
                     /\ blk' = [blk EXCEPT !.next_lba = NextLba, !.next_end = RequestEnd]
                     /\ mem' = [a \in DOMAIN mem |-> IF a \in blk.end..(RequestEnd - 1) THEN Garbage ELSE mem[a]]
                ELSE TRUE
  <2>1. 1 \in Queue /\ Req(1) = "xfer" BY DEF Queue, Req
  <2>2. Quiet(1) BY <1>5, <2>1, ZenonT(40) DEF IInv, Queues, QueueInv, Outstanding, Pending, Busy
  <2>3. Submitted(1) BY <2>1, <2>2, QuietHasRoom DEF IInv
  <2>4. /\ pc' = "pump" /\ scan' = scan /\ UNCHANGED drvvars
        /\ blk' = [blk EXCEPT !.next_lba = NextLba, !.next_end = RequestEnd]
        /\ mem' = [a \in DOMAIN mem |-> IF a \in blk.end..(RequestEnd - 1) THEN Garbage ELSE mem[a]]
    BY <1>5, <2>3, ZenonT(40) DEF Goto
  <2>5. read.lba \in Nat BY <1>2, ZenonT(40) DEF nvme_emit_read, Blk
  <2> HIDE DEF read
  <2>6. Queues' BY <1>1, <1>5, <2>1, <2>2, SubmitQueue DEF IInv
  <2>7. Phases' BY <1>1, ZenonT(40) DEF IInv, Phases
  <2>8. blk' \in Blk
    <3>1. NextLba \in Nat /\ RequestEnd \in Int BY <1>2 DEF NextLba, RequestEnd, Blk
    <3>2. QED BY <1>2, <2>4, <3>1, ZenonT(40) DEF Blk
  <2>9. DOMAIN mem' = DOMAIN mem /\ \A a \in DOMAIN mem : mem'[a] \in Nat \union {Garbage}
    BY <2>4 DEF IInv, Types, TypeOK
  <2>10. Types'
    <3>1. /\ DOMAIN sq' = Queue /\ DOMAIN cmd' = Queue /\ DOMAIN sqmem' = Queue /\ cq' = cq
          /\ \A y \in Queue : /\ sq'[y] \in [tail : Slot, head : Slot] /\ DOMAIN sqmem'[y] = Slot
                              /\ cmd'[y] \in [Cids(y) -> {Null, "admin", "xfer"}]
                              /\ \A s \in Slot : sqmem'[y][s].read.lba \in Nat
          /\ status' \in [{"admin", "xfer"} -> {"creating", "submitted", "ok", "error"}]
      BY <1>5, <2>1, <2>2, <2>5, SubmitTypes DEF IInv
    <3>2. /\ DOMAIN cq' = Queue /\ DOMAIN dev' = Queue /\ DOMAIN cqmem' = Queue
          /\ \A y \in Queue : /\ cq'[y] \in [pos : Slot, phase : 0..1] /\ DOMAIN cqmem'[y] = Slot
                              /\ dev'[y] \in [head : Slot, tail : Slot, phase : 0..1]
      BY <1>1, <3>1, QueueTypes, ZenonT(40) DEF IInv, Types
    <3>3. pc' \in PCs BY <2>4 DEF PCs
    <3>4. QED BY <1>1, <2>4, <2>8, <2>9, <3>1, <3>2, <3>3, PlainTypes, NextTypes, ZenonT(40) DEF IInv, drvvars
  <2>11. cmd'[0] = cmd[0] BY <1>5, <2>1, <2>2, <2>5, SubmitTypes DEF IInv
  <2>12. AdminHeld' BY <1>1, <2>11, ZenonT(40) DEF IInv, AdminHeld, Commands
  <2>13. WaitsFor' /\ Powered' BY <1>1, <2>4 DEF IInv, WaitsFor, Powered, Waiting, Commands
  <2>14. QED BY <2>6, <2>7, <2>10, <2>12, <2>13 DEF IInv
<1>6. QED BY <1>3, <1>4, <1>5, ZenonT(40) DEF PumpRequest, Goto

-----------------------------------------------------------------------------
(* The invariant is kept.                                                  *)

LEMMA NextKeeps == IInv /\ [Next]_vars => IInv'
<1> SUFFICES ASSUME IInv, [Next]_vars PROVE IInv' OBVIOUS
<1>1. CASE UNCHANGED vars
  <2>1. UNCHANGED <<sq, cq, cmd, status, dev, sqmem, cqmem, mem, ctl, waited, drvvars, pc, scan, blk>>
    BY <1>1, ZenonT(40) DEF vars, qvars, devvars
  <2>2. Types' BY <2>1, PlainTypes, TypesKept, ZenonT(40) DEF IInv, drvvars
  <2>3. Queues' /\ Phases' BY <2>1, QueuesKept, ZenonT(40) DEF IInv
  <2>4. AdminHeld' /\ WaitsFor' /\ Powered' BY <2>1, ZenonT(40) DEF IInv, AdminHeld, WaitsFor, Powered, Waiting
  <2>5. QED BY <2>2, <2>3, <2>4 DEF IInv
<1>2. CASE Driver
  BY <1>2, PowerStep, CommandStep, ProcessStep, AwaitStep, PumpStep, RequestStep, BootStep, ZenonT(40) DEF Driver, Await
<1>3. CASE Client BY <1>3, PumpStep, BootStep, ZenonT(40) DEF Client
<1>4. CASE Controller \/ (\E q \in Queue : Glitch(q)) \/ PowerDown
  BY <1>4, CompleteStep, GlitchStep, PowerStep, ZenonT(40) DEF Controller
<1>5. QED BY <1>1, <1>2, <1>3, <1>4, ZenonT(40) DEF Next, Ended

(* Whatever the controller answers, delays, refuses or invents, and        *)
(* however deep the queues are: a completion that nvme_process_cqe takes   *)
(* is for the request that waits for it, the queues never overflow, no     *)
(* request on the stack is left where a completion could reach it, and     *)
(* after boot_nvme the controller cannot write to memory.                  *)
THEOREM QueuesAreSound == Spec => []QueuesSound
<1>1. QED BY InitHolds, NextKeeps, InvSound, PTL DEF Spec
=============================================================================
