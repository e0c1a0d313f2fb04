-------------------------------- MODULE Nvme --------------------------------
(* boot_nvme with the NVMe driver under it (lib/nvme.c, lib/nvme_xfer.c,   *)
(* dramstage/blk_nvme.c) against a controller that answers, refuses, falls *)
(* silent or posts completions for commands it was never given.            *)
(*                                                                         *)
(* Addresses and LBAs count blocks.  A submission reaches the controller   *)
(* when the doorbell is rung; from then until the completion the target of *)
(* a read holds garbage.                                                   *)
EXTENDS Integers, Sequences

CONSTANTS
  QSize,           \* sq.size and cq.size: zero based, 3
  MaxCid,          \* max_cid of the admin and the I/O queue, <<1, 3>>
  NumNs,           \* IDCtl.NN
  NumBlocks,       \* size of a namespace
  U32,             \* 2^32: the values of a u32
  Page,            \* blocks in a page
  PrpCap,          \* xfer.prp_cap
  XferSizes,       \* 1 << xfer_shift, by what MDTS allows
  TableEnd,        \* partition_table_buffer is 0..TableEnd-1
  BlobEnd,         \* blob_buffer is TableEnd..BlobEnd-1
  PayloadLbas,     \* where a payload partition may start
  SecondUs         \* a second, in turns of the polling loop of nvme_reset

ASSUME NvmeAssumption ==
  /\ QSize \in Nat \ {0} /\ MaxCid \in [1..2 -> Nat] /\ Page \in Nat \ {0}
  /\ NumNs \in Nat \ {0} /\ NumBlocks \in Nat /\ U32 \in Nat \ {0} /\ XferSizes \subseteq Nat /\ PayloadLbas \subseteq Nat
  /\ TableEnd \in Nat /\ TableEnd % Page = 0 /\ BlobEnd \in Nat /\ TableEnd < BlobEnd /\ SecondUs \in Nat

Null == "none"
Garbage == -1
Queue == 0..1                                 \* the admin queue and the I/O queue
Slot == 0..QSize
Cids(q) == 0..MaxCid[q + 1]
NoRead == [lba |-> 0, bytes |-> 0, first |-> 0, rest |-> <<>>]
Stale == [phase |-> 0, sq |-> 0, cid |-> 0, sqhd |-> 0, ok |-> TRUE]

VARIABLES
  pc, scan,        \* where boot_nvme is; the queue nvme_wait_req looks at
  nsid, num_iocq, num_iosq, rtd3e,
  sq, cq,          \* [tail, head] and [pos, phase] of each queue
  cmd,             \* cmd[q][cid]: the request that has the command id
  status,          \* of the request on the stack and of nvme_blk.xfer.req
  blk,             \* the pointers of nvme_blk, and the call it serves
  dev,             \* the controller's [head, tail, phase] of each queue pair
  sqmem, cqmem,    \* the queues in memory
  mem,             \* LBA of the block at an address
  ctl,             \* CC.EN, PCI bus mastering, CSTS.CFS, CSTS.SHST complete
  waited           \* turns of the loops of nvme_reset

drvvars == <<nsid, num_iocq, num_iosq, rtd3e>>
qvars == <<sq, cq, cmd, status>>
devvars == <<dev, sqmem, cqmem, mem, ctl>>
vars == <<pc, scan, drvvars, qvars, blk, devvars, waited>>

Init ==
  /\ pc = "link" /\ scan = -1 /\ waited = 0
  /\ nsid = 1 /\ num_iocq = 0 /\ num_iosq = 0 /\ rtd3e = SecondUs
  /\ sq = [q \in Queue |-> [tail |-> 0, head |-> 0]]
  /\ cq = [q \in Queue |-> [pos |-> 0, phase |-> 1]]
  /\ cmd = [q \in Queue |-> [i \in Cids(q) |-> Null]]
  /\ status = [admin |-> "creating", xfer |-> "creating"]
  /\ \E size \in XferSizes :
       blk = [consume |-> 0, end |-> 0, next_end |-> 0, stop |-> 0, next_lba |-> 0,
              xfer |-> size, want |-> 0, buf |-> 0, lba |-> 0]
  /\ dev = [q \in Queue |-> [head |-> 0, tail |-> 0, phase |-> 1]]
  /\ sqmem = [q \in Queue |-> [s \in Slot |-> [cid |-> 0, read |-> NoRead]]]
  /\ cqmem = [q \in Queue |-> [s \in Slot |-> Stale]]
  /\ mem = [a \in 0..(BlobEnd - 1) |-> Garbage]
  /\ ctl = [en |-> FALSE, bus |-> FALSE, cfs |-> FALSE, down |-> FALSE]

Goto(l) == pc' = l /\ UNCHANGED scan

-----------------------------------------------------------------------------
(* The bring-up of link, function and controller.                          *)

\* PCIe left off by sramstage; finish_pcie_link: trained, or the clocks are gated again
FinishLink ==
  /\ pc = "link"
  /\ Goto("out") \/ Goto("config") \/ Goto("phys")
  /\ UNCHANGED <<drvvars, qvars, blk, devvars, waited>>

\* capabilities, class and BARs; the last step enables bus mastering
ProbeFunction ==
  /\ pc = "config"
  /\ \/ Goto("phys") /\ UNCHANGED ctl
     \/ Goto("out") /\ UNCHANGED ctl
     \/ Goto("init") /\ ctl' = [ctl EXCEPT !.bus = TRUE]
  /\ UNCHANGED <<drvvars, qvars, blk, dev, sqmem, cqmem, mem, waited>>

\* INVALID before anything is written, GLOBAL on a timeout before or after EN
nvme_init ==
  /\ pc = "init"
  /\ \/ Goto("out") /\ UNCHANGED ctl
     \/ Goto("log") /\ ctl' \in {ctl, [ctl EXCEPT !.en = TRUE]}
     \/ Goto("identify_ctl") /\ ctl' = [ctl EXCEPT !.en = TRUE]
  /\ UNCHANGED <<drvvars, qvars, blk, dev, sqmem, cqmem, mem, waited>>

-----------------------------------------------------------------------------
(* Submission and completion.                                              *)
NextSlot(s) == IF s = QSize THEN 0 ELSE s + 1
Free(q) == {i \in Cids(q) : cmd[q][i] = Null}
Full(q) == NextSlot(sq[q].tail) = sq[q].head
Submitted(q) == ~Full(q) /\ Free(q) # {}
Lowest(q) == {i \in Free(q) : \A j \in Free(q) : i <= j}

\* The command is written before the queue is looked at.
nvme_submit_single_command(q, req, read) ==
  /\ \E id \in IF Submitted(q) THEN Lowest(q) ELSE {sqmem[q][sq[q].tail].cid} :
       /\ sqmem' = [sqmem EXCEPT ![q][sq[q].tail] = [cid |-> id, read |-> read]]
       /\ cmd' = IF Submitted(q) THEN [cmd EXCEPT ![q][id] = req] ELSE cmd
  /\ status' = IF Full(q) THEN status ELSE [status EXCEPT ![req] = "submitted"]
  /\ sq' = IF Submitted(q) THEN [sq EXCEPT ![q].tail = NextSlot(@)] ELSE sq
  /\ UNCHANGED cq

Commands == {"identify_ctl", "set_features", "create_cq", "create_sq", "identify_ns"}
Idle == -1                                    \* scan while nothing is waited for
Waiting == scan # Idle
Request == IF pc = "xfer" THEN "xfer" ELSE "admin"

\* wait_single_command up to the wait; without a slot or an id it returns TRANSIENT
wait_single_command ==
  /\ pc \in Commands /\ ~Waiting
  /\ nvme_submit_single_command(0, "admin", NoRead)
  /\ IF Submitted(0) THEN scan' = 0 /\ UNCHANGED pc ELSE Goto("shutdown")
  /\ UNCHANGED <<drvvars, blk, dev, cqmem, mem, ctl, waited>>

\* What the wait's caller does with its result.  A failed admin command ends in
\* the shutdown; the answers to Identify may be unusable.
Following == [identify_ctl |-> {"set_features", "shutdown"}, set_features |-> {"create_cq"},
              create_cq |-> {"create_sq"}, create_sq |-> {"identify_ns", "shutdown"},
              identify_ns |-> {"cue", "shutdown"}]
AfterCommand ==
  /\ pc' \in Following[pc]
  /\ rtd3e' \in IF pc = "identify_ctl" THEN {0, rtd3e} ELSE {rtd3e}
  /\ num_iocq' = IF pc = "create_cq" THEN 1 ELSE num_iocq
  /\ num_iosq' = IF pc = "create_sq" THEN 1 ELSE num_iosq
  /\ UNCHANGED <<nsid, blk>>

\* boot_nvme after boot_blockdev has returned st
AfterBoot(st) ==
  /\ IF st \in {"OK", "GLOBAL"} \/ nsid = NumNs
       THEN pc' = "shutdown" /\ UNCHANGED nsid
       ELSE pc' = "identify_ns" /\ nsid' = nsid + 1
  /\ UNCHANGED <<num_iocq, num_iosq, rtd3e>>

\* pump fails: boot_blockdev returns the status, of a payload read INVALID
PumpFails(st) == AfterBoot(IF blk.buf = 0 THEN st ELSE "INVALID") /\ UNCHANGED blk

\* nvme_wait_req returns st to the command or to pump
WaitReturns(st) ==
  /\ scan' = Idle
  /\ \/ pc = "xfer" /\ st = "OK"
        /\ pc' = "request" /\ blk' = [blk EXCEPT !.end = blk.next_end] /\ UNCHANGED drvvars
     \/ pc = "xfer" /\ st # "OK" /\ PumpFails(st)
     \/ pc # "xfer" /\ st = "OK" /\ AfterCommand
     \/ pc # "xfer" /\ st # "OK" /\ pc' = "shutdown" /\ UNCHANGED <<drvvars, blk>>

Cqe == cqmem[scan][cq[scan].pos]
Fresh == scan <= num_iocq /\ Cqe.phase = cq[scan].phase
Bad == Cqe.sq > num_iosq \/ Cqe.sq # scan \/ Cqe.cid \notin Cids(scan)

\* mutant: the phase is not inverted when the queue wraps around
Consumed_SamePhase(c) == [c EXCEPT !.pos = NextSlot(@)]

Consumed(c) == [pos |-> NextSlot(c.pos), phase |-> IF c.pos = QSize THEN 1 - c.phase ELSE c.phase]

nvme_process_cqe ==
  /\ Waiting /\ Fresh /\ ~Bad
  /\ cmd' = [cmd EXCEPT ![scan][Cqe.cid] = Null]
  /\ status' = [r \in DOMAIN status |-> IF r # cmd[scan][Cqe.cid] THEN status[r] ELSE IF Cqe.ok THEN "ok" ELSE "error"]
  /\ sq' = [sq EXCEPT ![scan].head = Cqe.sqhd]
  /\ cq' = [cq EXCEPT ![scan] = Consumed(@)]
  /\ UNCHANGED <<pc, scan, drvvars, blk, devvars, waited>>

\* a completion of an unknown queue or command
RejectCqe ==
  /\ Waiting /\ Fresh /\ Bad
  /\ WaitReturns("GLOBAL")
  /\ UNCHANGED <<qvars, devvars, waited>>

\* TRANSIENT: go on with the next queue
NextQueue ==
  /\ Waiting /\ scan <= num_iocq /\ ~Fresh
  /\ scan' = scan + 1
  /\ UNCHANGED <<pc, drvvars, qvars, blk, devvars, waited>>

\* mutant: CSTS.CFS is not looked at
CheckRequest_NoFatal ==
  LET st == status[Request] IN
  /\ Waiting /\ scan > num_iocq
  /\ \/ st = "ok" /\ WaitReturns("OK")
     \/ st = "error" /\ WaitReturns("LOCAL")
     \/ st = "submitted" /\ scan' = 0 /\ UNCHANGED <<pc, drvvars, blk>>
  /\ UNCHANGED <<qvars, devvars, waited>>

\* all queues were looked at: is it the request, a fatal status, or time to sleep?
CheckRequest ==
  LET st == status[Request] IN
  /\ Waiting /\ scan > num_iocq
  /\ \/ st = "ok" /\ WaitReturns("OK")
     \/ st = "error" /\ WaitReturns("LOCAL")
     \/ st = "submitted" /\ ctl.cfs /\ WaitReturns("GLOBAL")
     \/ st = "submitted" /\ ~ctl.cfs /\ scan' = 0 /\ UNCHANGED <<pc, drvvars, blk>>
  /\ UNCHANGED <<qvars, devvars, waited>>

-----------------------------------------------------------------------------
(* The block device.                                                       *)

\* nvme_add_phys_buffer, called once per request: the first page, the second,
\* then one more entry of the list per page
AddPage(x, start, end) ==
  IF x.size >= 2 /\ x.size - 2 >= PrpCap - 1 THEN [x EXCEPT !.ok = FALSE]
  ELSE [x EXCEPT !.list = IF x.size >= 2 THEN Append(@, x.last) ELSE @,
                 !.size = @ + 1, !.last = start,
                 !.bytes = @ + IF end - start <= Page THEN end - start ELSE Page]

nvme_add_phys_buffer(start, end) ==
  LET second == (start \div Page + 1) * Page
      first == [ok |-> TRUE, first |-> start, last |-> 0, list |-> <<>>, size |-> 1,
                bytes |-> IF start \div Page >= end \div Page THEN end - start ELSE second - start]
      pages == IF second >= end THEN 0 ELSE (end - second + Page - 1) \div Page
      added[k \in 0..pages] ==
        IF k = 0 THEN first
        ELSE IF added[k - 1].ok THEN AddPage(added[k - 1], second + (k - 1) * Page, end)
        ELSE added[k - 1]
  IN added[pages]

\* nvme_emit_read: the second pointer is the second page or the list, whose last
\* entry is only written here
nvme_emit_read(x, lba) ==
  [lba |-> lba, bytes |-> x.bytes, first |-> x.first,
   rest |-> IF x.size = 1 THEN <<>> ELSE Append(x.list, x.last)]

\* pump is called: what was consumed is given up
Pump(consume, min) ==
  /\ pc = "client" /\ consume <= blk.end - blk.consume
  /\ Goto("pump")
  /\ blk' = [blk EXCEPT !.consume = @ + consume, !.want = min]
  /\ UNCHANGED <<drvvars, qvars, devvars, waited>>

\* the condition of its loop
PumpTest ==
  /\ pc = "pump"
  /\ \/ blk.end - blk.consume >= blk.want /\ Goto("client")
     \/ blk.end - blk.consume < blk.want /\ blk.end # blk.next_end /\ pc' = "xfer" /\ scan' = 0
     \/ blk.end - blk.consume < blk.want /\ blk.end = blk.next_end /\ Goto("request")
  /\ UNCHANGED <<drvvars, qvars, blk, devvars, waited>>

\* the end of the buffer: there may be less than was asked for
PumpStop ==
  /\ pc = "request" /\ blk.stop = blk.end
  /\ Goto("client")
  /\ UNCHANGED <<drvvars, qvars, blk, devvars, waited>>

(* nvme_reset_xfer repeats while its weak compare-exchange succeeds and    *)
(* ends when it fails.  From a finished request the second attempt fails,  *)
(* as the first has stored CREATING; if the first fails spuriously, the    *)
(* old status stays.  From CREATING only a spurious failure ends it.       *)
nvme_reset_xfer == {"creating", status.xfer}

Busy == status.xfer = "submitted"

RequestEnd == IF blk.stop - blk.end > blk.xfer THEN blk.end + blk.xfer ELSE blk.stop

\* mutant: the next request starts one block too early
NextLba_Short == blk.next_lba + blk.xfer - 1

NextLba == blk.next_lba + blk.xfer

\* the rest of pump's loop: the next request is started, also when the last one
\* has already brought enough
PumpRequest ==
  LET x == nvme_add_phys_buffer(blk.end, RequestEnd) IN
  /\ pc = "request" /\ blk.stop # blk.end
  /\ \/ Busy /\ PumpFails("TRANSIENT") /\ UNCHANGED <<scan, qvars, sqmem, mem>>
     \/ ~Busy /\ \E st \in nvme_reset_xfer :
          IF st # "creating" \/ ~x.ok        \* the assertions of add_phys_buffer and pump
            THEN Goto("die") /\ UNCHANGED <<drvvars, qvars, blk, sqmem, mem>>
            ELSE /\ nvme_submit_single_command(1, "xfer", nvme_emit_read(x, blk.next_lba))
                 /\ IF Submitted(1)
                      THEN /\ Goto("pump")
                           /\ blk' = [blk EXCEPT !.next_lba = NextLba, !.next_end = RequestEnd]
                           /\ mem' = [a \in DOMAIN mem |-> IF a \in blk.end..(RequestEnd - 1) THEN Garbage ELSE mem[a]]
                           /\ UNCHANGED drvvars
                      ELSE PumpFails("TRANSIENT") /\ UNCHANGED <<scan, mem>>
  /\ UNCHANGED <<dev, cqmem, ctl, waited>>

\* start: it refuses an address behind the end and waits for nothing.  The address
\* and next_lba have 64 bits, but the conversion between them has 32.
start(lba, buf, end) ==
  /\ IF lba >= NumBlocks
       THEN AfterBoot("INVALID") /\ UNCHANGED <<scan, blk>>
       ELSE /\ Goto("client") /\ UNCHANGED drvvars
            /\ blk' = [blk EXCEPT !.consume = buf, !.end = buf, !.next_end = buf, !.stop = end,
                                  !.next_lba = lba % U32, !.buf = buf, !.lba = lba]
  /\ UNCHANGED <<qvars, devvars, waited>>

\* The cue comes, or the exit cue.  boot_blockdev reads the table, again from a
\* later block when the buffer is used up, and then the payload.
Cue == /\ pc = "cue"
       /\ \/ start(0, 0, TableEnd)
          \/ Goto("shutdown") /\ UNCHANGED <<drvvars, qvars, blk, devvars, waited>>

ReadOn == /\ pc = "client" /\ blk.buf = 0 /\ blk.consume = blk.stop
          /\ start(blk.lba + TableEnd, 0, TableEnd)

ReadPayload(lba) == /\ pc = "client" /\ blk.buf = 0 /\ blk.consume # blk.buf
                    /\ start(lba, TableEnd, BlobEnd)

\* boot_blockdev is content with the payload, or finds nothing of use
BootDone(st) ==
  /\ pc = "client" /\ st \in {"OK", "INVALID"} /\ (st = "OK" => blk.buf # 0)
  /\ AfterBoot(st)
  /\ UNCHANGED <<scan, qvars, blk, devvars, waited>>

-----------------------------------------------------------------------------
(* The end: nvme_reset notifies the controller, waits, insists, waits, and *)
(* disables it in any case.                                                *)
Disable == ctl' = [ctl EXCEPT !.en = FALSE] /\ Goto("log") /\ UNCHANGED waited
Poll(limit) == ~ctl.down /\ waited <= limit /\ waited' = waited + 1 /\ UNCHANGED <<pc, scan, ctl>>

NormalShutdown ==
  /\ pc = "shutdown"
  /\ \/ ctl.down /\ Disable
     \/ Poll(rtd3e)
     \/ ~ctl.down /\ waited > rtd3e /\ Goto("abrupt") /\ UNCHANGED <<ctl, waited>>
  /\ UNCHANGED <<drvvars, qvars, blk, dev, sqmem, cqmem, mem>>

AbruptShutdown ==
  /\ pc = "abrupt"
  /\ \/ Poll(2 * rtd3e)
     \/ (ctl.down \/ waited > 2 * rtd3e) /\ Disable
  /\ UNCHANGED <<drvvars, qvars, blk, dev, sqmem, cqmem, mem>>

\* shut_down_log, shut_down_phys and out
Leave ==
  /\ \/ pc = "log" /\ Goto("out") /\ ctl' = [ctl EXCEPT !.bus = FALSE]
     \/ pc = "phys" /\ Goto("out") /\ UNCHANGED ctl
     \/ pc = "out" /\ Goto("exit") /\ UNCHANGED ctl
  /\ UNCHANGED <<drvvars, qvars, blk, dev, sqmem, cqmem, mem, waited>>

-----------------------------------------------------------------------------
(* The controller (external).                                              *)
Alive == ctl.en /\ ctl.bus /\ ~ctl.cfs
Room(q) == (dev[q].tail + 1) % (QSize + 1) # cq[q].pos

Post(q, e) ==
  /\ cqmem' = [cqmem EXCEPT ![q][dev[q].tail] =
                 [phase |-> dev[q].phase, sq |-> e.sq, cid |-> e.cid, sqhd |-> e.sqhd, ok |-> e.ok]]
  /\ dev' = [dev EXCEPT ![q].tail = NextSlot(@),
                        ![q].phase = IF dev[q].tail = QSize THEN 1 - @ ELSE @,
                        ![q].head = e.sqhd]

\* where block j of a read goes, by the pointers of the command
Target(r, j) ==
  LET room == Page - (r.first % Page) IN
  IF j < room THEN r.first + j ELSE r.rest[(j - room) \div Page + 1] + ((j - room) % Page)

Complete(q, ok) ==
  LET c == sqmem[q][dev[q].head]
      r == c.read
  IN
  /\ Alive /\ Room(q) /\ dev[q].head # sq[q].tail
  /\ ok => r.lba + r.bytes <= NumBlocks
  /\ Post(q, [sq |-> q, cid |-> c.cid, sqhd |-> NextSlot(dev[q].head), ok |-> ok])
  /\ mem' = IF ok THEN [a \in DOMAIN mem |->
                          LET js == {j \in 0..(NumBlocks - 1) : j < r.bytes /\ Target(r, j) = a} IN
                          IF js = {} THEN mem[a] ELSE r.lba + (CHOOSE j \in js : TRUE)]
                  ELSE mem
  /\ UNCHANGED <<pc, scan, drvvars, qvars, blk, sqmem, ctl, waited>>

\* A completion for a queue or an id that does not exist.  One for an id that no
\* request has at the time is not among them: the driver takes it for right, and
\* follows the null pointer of its command table.
Glitch(q) ==
  /\ Alive /\ Waiting /\ dev[q].tail = cq[q].pos /\ q <= num_iocq
  /\ \E e \in {<<2, 0>>, <<1 - q, 0>>, <<q, MaxCid[q + 1] + 1>>} :
       Post(q, [sq |-> e[1], cid |-> e[2], sqhd |-> dev[q].head, ok |-> TRUE])
  /\ UNCHANGED <<pc, scan, drvvars, qvars, blk, sqmem, mem, ctl, waited>>

Fatal == Alive /\ ctl' = [ctl EXCEPT !.cfs = TRUE]
         /\ UNCHANGED <<pc, scan, drvvars, qvars, blk, dev, sqmem, cqmem, mem, waited>>

PowerDown == /\ pc \in {"shutdown", "abrupt"} /\ ~ctl.down
             /\ ctl' = [ctl EXCEPT !.down = TRUE]
             /\ UNCHANGED <<pc, scan, drvvars, qvars, blk, dev, sqmem, cqmem, mem, waited>>

-----------------------------------------------------------------------------
Await == nvme_process_cqe \/ RejectCqe \/ NextQueue \/ CheckRequest
Consumes == {0, blk.end - blk.consume}
Wants == {0, blk.end - blk.consume + 1}
Client == \/ \E consume \in Consumes, min \in Wants : Pump(consume, min)
          \/ ReadOn \/ \E lba \in PayloadLbas : ReadPayload(lba)
          \/ \E st \in {"OK", "INVALID"} : BootDone(st)
Driver == \/ FinishLink \/ ProbeFunction \/ nvme_init \/ wait_single_command \/ Await
          \/ PumpTest \/ PumpStop \/ PumpRequest \/ Cue
          \/ NormalShutdown \/ AbruptShutdown \/ Leave
Controller == (\E q \in Queue, ok \in BOOLEAN : Complete(q, ok)) \/ Fatal
Ended == pc \in {"exit", "die"} /\ UNCHANGED vars

Next == Driver \/ Client \/ Controller \/ (\E q \in Queue : Glitch(q)) \/ PowerDown \/ Ended

\* The thread runs, and a command is answered or the controller fails: there is
\* no timeout in nvme_wait_req.
Fairness == WF_vars(Driver) /\ WF_vars(Controller)
Spec == Init /\ [][Next]_vars /\ Fairness

-----------------------------------------------------------------------------
(* Types.                                                                  *)
TypeOK ==
  /\ pc \in Commands \union {"link", "config", "init", "cue", "client", "pump", "request", "xfer",
                             "shutdown", "abrupt", "log", "phys", "out", "exit", "die"}
  /\ scan \in -1..2 /\ nsid \in 1..NumNs /\ num_iocq \in 0..1 /\ num_iosq \in 0..1
  /\ rtd3e \in {0, SecondUs} /\ waited \in Nat
  /\ \A q \in Queue : /\ sq[q] \in [tail : Slot, head : Slot] /\ cq[q] \in [pos : Slot, phase : 0..1]
                      /\ cmd[q] \in [Cids(q) -> {Null, "admin", "xfer"}]
                      /\ dev[q] \in [head : Slot, tail : Slot, phase : 0..1]
  /\ status \in [{"admin", "xfer"} -> {"creating", "submitted", "ok", "error"}]
  /\ ctl \in [en : BOOLEAN, bus : BOOLEAN, cfs : BOOLEAN, down : BOOLEAN]
  /\ \A a \in DOMAIN mem : mem[a] \in Nat \union {Garbage}

(* A completion that nvme_process_cqe takes is for a request that waits    *)
(* for it: never the entry of an earlier round, taken again, and so never  *)
(* a null pointer (nvme.c:130 dereferences it untested).  This is about    *)
(* the driver's side of the queues: the controller is taken not to post a  *)
(* completion for an id in range that has no command.                      *)
CompletionsMatch ==
  Waiting /\ Fresh /\ ~Bad =>
    LET req == cmd[scan][Cqe.cid] IN req # Null /\ status[req] = "submitted"

(* wait_single_command has its request on the stack: when nvme_wait_req    *)
(* gives up, the pointer stays in sq->cmd, and nothing may look at the     *)
(* completion queues any more.                                             *)
StackRequestLives ==
  (\E i \in Cids(0) : cmd[0][i] = "admin") =>
    \/ Waiting /\ pc \in Commands
    \/ pc \in {"shutdown", "abrupt", "log", "out", "exit"}

(* What pump hands out are the blocks that start() was asked for, in       *)
(* order, through prefetching, wrapped queues, failed and repeated reads   *)
(* and the pages of the PRP list, if it was asked for a block below 2^32.  *)
(* The end may be behind that; from a start behind it the blocks 2^32      *)
(* lower are read (blk_nvme.c:172).                                        *)
DataInOrder ==
  blk.lba < U32 /\ pc \in {"client", "pump", "xfer", "request"} =>
    \A a \in blk.buf..(blk.end - 1) : mem[a] = blk.lba + (a - blk.buf)

(* One command per queue at a time: the queue is never full and there is   *)
(* always a command id (nvme.c:154 and 167 have no better answer than      *)
(* failure, and 158 would leave the request SUBMITTED).                    *)
NeverFull == (pc \in Commands /\ ~Waiting => Submitted(0)) /\ (pc = "request" /\ ~Busy => Submitted(1))

(* When boot_nvme has returned, the controller cannot write to memory any  *)
(* more, by whatever path it came there.                                   *)
QuietAtExit == pc = "exit" => ~(ctl.en /\ ctl.bus)

(* The driver and the controller agree about what is outstanding, from the *)
(* first command to the shutdown.                                          *)
QueuesSound == TypeOK /\ CompletionsMatch /\ StackRequestLives /\ NeverFull /\ QuietAtExit

(* A wait ends: by the completion, by a completion that makes no sense or  *)
(* by the controller's fatal status.                                       *)
WaitEnds == Waiting ~> ~Waiting
=============================================================================
