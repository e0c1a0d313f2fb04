-------------------------------- MODULE Emmc --------------------------------
(* The eMMC: what sramstage starts (sramstage/emmc_init.c), boot_emmc with *)
(* its block device (dramstage/blk_emmc.c) and the SDHCI driver under them *)
(* (lib/sdhci.c, lib/sdhci_common.c).  The thread, the interrupt handler,  *)
(* the tick and the controller interleave.                                 *)
(*                                                                         *)
(* Addresses and LBAs count blocks.  While the controller moves data the   *)
(* target holds garbage.  What a card answers is chosen where the driver   *)
(* looks at it.                                                            *)
EXTENDS Integers, Sequences, FiniteSetsExt, SequencesExt

CONSTANTS
  NumBlocks,       \* sectors of the card
  Seg,             \* blocks of a full ADMA2 segment: 64 KiB
  RequestSize,     \* REQUEST_SIZE
  DescCap,         \* xfer.desc_cap
  TableEnd,        \* partition_table_buffer is 0..TableEnd-1
  BlobEnd,         \* blob_buffer is TableEnd..BlobEnd-1
  PayloadLbas,     \* where a payload partition may start
  MaxPolls         \* CMD1 polls before a second is over

ASSUME EmmcAssumption ==
  /\ Seg \in Nat \ {0} /\ RequestSize \in Nat \ {0} /\ DescCap * Seg >= RequestSize
  /\ TableEnd < BlobEnd /\ MaxPolls \in Nat

Garbage == -1

VARIABLES
  pc, w,           \* the call the thread is in; whether it checks or sleeps in it
  late,            \* the timeout of the wait has passed
  seen,            \* what sdhci_wait_state read of PRESTS
  mode,            \* the timing that switch_timing switches to
  polls, ready,    \* CMD1 polls; the card has reported the end of its init
  info,            \* the EXT_CSD has been read
  status, active,  \* xfer.status; st->active_xfer is this xfer
  int_err,         \* st->int_st has an error bit
  blk,             \* the pointers of emmc_blockdev
  desc,            \* the ADMA2 descriptors
  hw,              \* PRESTS, pending interrupts, what is enabled
  dma,             \* the running transfer
  mem              \* LBA of the block at an address

cardvars == <<mode, polls, ready, info>>
waitvars == <<pc, w, late, seen>>
vars == <<waitvars, cardvars, status, active, int_err, blk, desc, hw, dma, mem>>

NoDma == [on |-> FALSE, lba |-> 0, count |-> 0]
EmptyDesc == [addr |-> 0, len |-> 0, valid |-> FALSE, end |-> FALSE]

Init ==
  /\ pc = "early" /\ w = "check" /\ late = FALSE /\ seen = {}
  /\ mode = "none" /\ polls = 0 /\ ready = FALSE /\ info = FALSE
  /\ status = "OK" /\ active = FALSE /\ int_err = FALSE
  /\ blk = [consume |-> 0, end |-> 0, next_end |-> 0, stop |-> 0, next_lba |-> 0,
            want |-> 0, buf |-> 0, lba |-> 0, args |-> [lba |-> 0, buf |-> 0, end |-> 0]]
  /\ desc = [i \in 1..DescCap |-> EmptyDesc]
  /\ hw = [prs |-> {}, ints |-> {}, signal |-> FALSE, clock |-> FALSE, power |-> FALSE]
  /\ dma = NoDma
  /\ mem = [a \in 0..(BlobEnd - 1) |-> Garbage]

Goto(l) == pc' = l /\ w' = "check" /\ late' = FALSE /\ seen' = {}

-----------------------------------------------------------------------------
(* sdhci_wait_state.  Each label of Prog is a call of it with a mask of    *)
(* PRESTS and what is expected; one with a command is sdhci_submit_cmd.    *)
Inhibit == {"cmd", "dat"}
Wait(mask, want, next) == [mask |-> mask, want |-> want, cmd |-> "none", next |-> next]
Submit(cmd, next) == [mask |-> Inhibit, want |-> {}, cmd |-> cmd, next |-> next]

Prog ==
  [early_cmd1 |-> Submit("plain", "handoff"),
   poll |-> Wait({"cmd"}, {}, "ocr"), cmd1 |-> Submit("plain", "poll"),
   cmd2 |-> Submit("plain", "cid"), cid |-> Wait({"cmd"}, {}, "cmd3"),
   cmd3 |-> Submit("plain", "rca"), rca |-> Wait({"cmd"}, {}, "set_clock"),
   cmd9 |-> Submit("plain", "csd"), csd |-> Wait({"cmd"}, {}, "cmd7"),
   cmd7 |-> Submit("plain", "cmd16"), cmd16 |-> Submit("plain", "width"),
   width |-> Submit("busy", "width_done"), width_done |-> Wait(Inhibit, {}, "cmd8"),
   cmd8 |-> Submit("fifo", "fifo"), fifo |-> Wait({"read"}, {"read"}, "fifo_done"),
   fifo_done |-> Wait(Inhibit, {}, "ext_csd"),
   cmd6 |-> Submit("busy", "switched"), switched |-> Wait(Inhibit, {}, "set_clock"),
   cmd13 |-> Submit("plain", "card_status"), card_status |-> Wait(Inhibit, {}, "switch_result"),
   cmd18 |-> Submit("xfer", "started"),
   abort |-> Wait({"cmd"}, {}, "aborting"), cmd12 |-> Wait({"cmd"}, {}, "swreset")]
InWait == pc \in DOMAIN Prog
Masked == hw.prs \intersect Prog[pc].mask

\* boot_emmc after boot_blockdev has returned st
AfterBoot(st) == Goto(IF st = "GLOBAL" THEN "shut_down" ELSE "abort")

\* pump fails: boot_blockdev returns the status, of a payload read INVALID
PumpFails(st) == AfterBoot(IF blk.buf = 0 THEN st ELSE "INVALID")

\* all of sdhci_init_late's errors end in shut_down_emmc, as does a failed abort
WaitFails(st) ==
  /\ CASE pc = "early_cmd1" -> Goto("gate")
       [] pc = "cmd18" -> PumpFails(st)
       [] OTHER -> Goto("shut_down")
  /\ UNCHANGED <<cardvars, blk, hw, dma, mem>>

RequestEnd == IF blk.stop - blk.end > RequestSize THEN blk.end + RequestSize ELSE blk.stop

\* the command register is written; a transfer takes its target away
Issue(cmd) ==
  /\ hw' = [hw EXCEPT !.prs = (@ \ {"read"}) \union (IF cmd = "plain" THEN {"cmd"} ELSE Inhibit)]
  /\ dma' = IF cmd = "xfer" THEN [on |-> TRUE, lba |-> blk.next_lba, count |-> RequestEnd - blk.end] ELSE dma
  /\ mem' = IF cmd = "xfer" THEN [a \in DOMAIN mem |-> IF a \in blk.end..(RequestEnd - 1) THEN Garbage ELSE mem[a]]
                            ELSE mem

\* One CPU: the interrupt that comes with a change of PRESTS is taken before the
\* thread acts on what it has read (the next command is logged before it is
\* written); an error may come at any time.
Pending == hw.signal /\ hw.ints # {}

WaitDone ==
  /\ ~Pending
  /\ Goto(Prog[pc].next)
  /\ IF Prog[pc].cmd = "none" THEN UNCHANGED <<hw, dma, mem>> ELSE Issue(Prog[pc].cmd)
  /\ UNCHANGED <<cardvars, blk>>

\* mutant: a wait has no timeout
Check_NoTimeout ==
  /\ InWait /\ w = "check"
  /\ IF int_err THEN WaitFails("GLOBAL")
     ELSE IF Masked = Prog[pc].want THEN WaitDone
     ELSE w' = "sleep" /\ seen' = Masked /\ UNCHANGED <<pc, late, cardvars, blk, hw, dma, mem>>
  /\ UNCHANGED <<status, active, int_err, desc>>

Check ==
  /\ InWait /\ w = "check"
  /\ IF int_err THEN WaitFails("GLOBAL")
     ELSE IF Masked = Prog[pc].want THEN WaitDone
     ELSE IF late THEN WaitFails("TRANSIENT")
     ELSE w' = "sleep" /\ seen' = Masked /\ UNCHANGED <<pc, late, cardvars, blk, hw, dma, mem>>
  /\ UNCHANGED <<status, active, int_err, desc>>

\* sched_finish_u32 on PRESTS: an error interrupt since the check goes unnoticed
Sleep ==
  /\ InWait /\ w = "sleep"
  /\ w' = IF Masked = seen THEN "asleep" ELSE "check"
  /\ UNCHANGED <<pc, late, seen, cardvars, status, active, int_err, blk, desc, hw, dma, mem>>

-----------------------------------------------------------------------------
(* sramstage: power, clock, CMD0 and the first CMD1.  boot_emmc starts     *)
(* with a state of its own.                                                *)
sdhci_init_early ==
  /\ pc = "early"
  /\ \/ Goto("gate") /\ UNCHANGED hw
     \/ Goto("early_cmd1")
        /\ hw' = [hw EXCEPT !.prs = {"cmd"}, !.signal = TRUE, !.clock = TRUE, !.power = TRUE]
  /\ UNCHANGED <<cardvars, status, active, int_err, blk, desc, dma, mem>>

emmc_init ==
  /\ pc \in {"gate", "handoff"}
  /\ Goto(IF pc = "gate" THEN "exit" ELSE "poll")
  /\ hw' = IF pc = "gate" THEN [hw EXCEPT !.clock = FALSE, !.signal = FALSE] ELSE hw
  /\ int_err' = FALSE
  /\ UNCHANGED <<cardvars, status, active, blk, desc, dma, mem>>

-----------------------------------------------------------------------------
(* sdhci_init_late between its waits.                                      *)

\* The OCR: ready, with sector addressing or not; or still busy.  After a
\* second sdhci_init_late returns 0, which is IOST_OK.
Ocr ==
  /\ pc = "ocr"
  /\ \/ Goto("cmd2") /\ ready' = TRUE /\ UNCHANGED polls
     \/ Goto("shut_down") /\ ready' = TRUE /\ UNCHANGED polls
     \/ polls = MaxPolls /\ Goto("parse") /\ UNCHANGED <<ready, polls>>
     \/ polls < MaxPolls /\ Goto("cmd1") /\ polls' = polls + 1 /\ UNCHANGED ready
  /\ UNCHANGED <<mode, info, status, active, int_err, blk, desc, hw, dma, mem>>

\* sdhci_set_clock: the clock stable, the PHY calibrated and locked, or not
sdhci_set_clock ==
  /\ pc = "set_clock"
  /\ Goto("shut_down") \/ Goto(IF mode = "none" THEN "cmd9" ELSE "cmd13")
  /\ UNCHANGED <<cardvars, status, active, int_err, blk, desc, hw, dma, mem>>

\* switch_timing's CMD6 for the next timing
SwitchTo(m) == Goto("cmd6") /\ mode' = m

\* sdhci_read_ext_csd is done.  The first time sdhci_try_higher_speeds looks
\* for a better timing, if it understands the card and the card has one.
ExtCsd ==
  /\ pc = "ext_csd"
  /\ info' = TRUE
  /\ IF mode = "none" THEN SwitchTo("hs200") \/ SwitchTo("hs") \/ (Goto("cmd8") /\ mode' = "default")
                                                               \/ (Goto("parse") /\ UNCHANGED mode)
                      ELSE Goto("parse") /\ UNCHANGED mode
  /\ UNCHANGED <<polls, ready, status, active, int_err, blk, desc, hw, dma, mem>>

\* the end of switch_timing: the card may have refused (INVALID)
SwitchResult ==
  /\ pc = "switch_result"
  /\ \/ Goto("shut_down") /\ UNCHANGED mode
     \/ mode = "hs200" /\ Goto("train") /\ UNCHANGED mode
     \/ mode = "bc" /\ SwitchTo("hs")                   \* 20 MHz: high speed is still to be had
     \/ mode = "hs" /\ SwitchTo("ddr")
     \/ mode # "hs200" /\ Goto("cmd8") /\ UNCHANGED mode
  /\ UNCHANGED <<polls, ready, info, status, active, int_err, blk, desc, hw, dma, mem>>

\* execute_training polls with the interrupt signals off, up to ten times
execute_training ==
  \/ /\ pc = "train" /\ Goto("tuning")
     /\ hw' = [hw EXCEPT !.signal = FALSE]
     /\ UNCHANGED <<cardvars, status, active, int_err, blk, desc, dma, mem>>
  \/ /\ pc = "tuning"
     /\ hw' = [hw EXCEPT !.signal = TRUE]
     /\ (Goto("cmd8") /\ UNCHANGED mode) \/ SwitchTo("bc")
     /\ UNCHANGED <<polls, ready, info, status, active, int_err, blk, desc, dma, mem>>

-----------------------------------------------------------------------------
(* boot_emmc and its block device.                                         *)

\* the zeroed EXT_CSD of a card that was given up is not understood; the locals
\* of sdhci_init_late are gone
parse_cardinfo ==
  /\ pc = "parse"
  /\ Goto("out") \/ (info /\ Goto("cue"))
  /\ mode' = "none" /\ polls' = 0
  /\ UNCHANGED <<ready, info, status, active, int_err, blk, desc, hw, dma, mem>>

\* start: it waits for what is still being read, at first for the zeroed status
start(lba, buf, end) ==
  /\ IF lba >= NumBlocks
       THEN AfterBoot("INVALID") /\ UNCHANGED blk
       ELSE Goto("start") /\ blk' = [blk EXCEPT !.args = [lba |-> lba, buf |-> buf, end |-> end]]
  /\ UNCHANGED <<cardvars, status, active, int_err, desc, hw, dma, mem>>

\* the rest of start, when wait_xfer has returned
Started ==
  /\ pc = "start" /\ status # "submitted"
  /\ IF status # "OK" THEN AfterBoot(status) /\ UNCHANGED blk
     ELSE /\ Goto("client")
          /\ blk' = [blk EXCEPT !.consume = blk.args.buf, !.end = blk.args.buf, !.next_end = blk.args.buf,
                                !.stop = blk.args.end, !.next_lba = blk.args.lba,
                                !.buf = blk.args.buf, !.lba = blk.args.lba]
  /\ UNCHANGED <<cardvars, status, active, int_err, desc, hw, dma, mem>>

\* sdhci_wait_xfer sleeps while the status is SUBMITTED
WaitXfer ==
  /\ pc \in {"start", "xfer"} /\ w = "check" /\ status = "submitted"
  /\ w' = "asleep"
  /\ UNCHANGED <<pc, late, seen, cardvars, status, active, int_err, blk, desc, hw, dma, mem>>

XferDone ==
  /\ pc = "xfer" /\ status # "submitted"
  /\ IF status = "OK" THEN Goto("request") /\ blk' = [blk EXCEPT !.end = blk.next_end]
                      ELSE PumpFails(status) /\ UNCHANGED blk
  /\ UNCHANGED <<cardvars, status, active, int_err, desc, hw, dma, mem>>

Pump(consume, min) ==
  /\ pc = "client" /\ consume <= blk.end - blk.consume
  /\ Goto("pump")
  /\ blk' = [blk EXCEPT !.consume = @ + consume, !.want = min]
  /\ UNCHANGED <<cardvars, status, active, int_err, desc, hw, dma, mem>>

\* the condition of pump's loop
PumpTest ==
  /\ pc = "pump"
  /\ Goto(IF blk.end - blk.consume >= blk.want THEN "client"
          ELSE IF blk.end # blk.next_end THEN "xfer" ELSE "request")
  /\ UNCHANGED <<cardvars, status, active, int_err, blk, desc, hw, dma, mem>>

\* sdhci_add_phys_buffer: one descriptor per segment, the first not yet valid
sdhci_add_phys_buffer(from, to) ==
  [i \in 1..DescCap |->
     IF i > (to - from + Seg - 1) \div Seg THEN desc[i]
     ELSE [addr |-> from + (i - 1) * Seg, len |-> Min({Seg, to - (from + (i - 1) * Seg)}),
           valid |-> i # 1, end |-> FALSE]]

\* sdhci_start_xfer marks the last descriptor, then the first
Arm(d, size) == [d EXCEPT ![size].end = TRUE, ![1].valid = TRUE]

\* the rest of the loop: the end of the buffer, or the next request up to its
\* command.  next_end and next_lba are set once that is accepted.
PumpRequest ==
  /\ pc = "request"
  /\ IF blk.stop = blk.end
       THEN Goto("client") /\ UNCHANGED <<status, active, desc>>
     ELSE IF status = "submitted"                       \* the assertions of sdhci_reset_xfer
       THEN Goto("die") /\ UNCHANGED <<status, active, desc>>
     ELSE /\ desc' = Arm(sdhci_add_phys_buffer(blk.end, RequestEnd), (RequestEnd - blk.end + Seg - 1) \div Seg)
          /\ status' = "submitted"
          /\ IF active THEN PumpFails("TRANSIENT") /\ UNCHANGED active
                       ELSE Goto("cmd18") /\ active' = TRUE
  /\ UNCHANGED <<cardvars, int_err, blk, hw, dma, mem>>

\* mutant: the next request starts one block too early
NextLba_Short == blk.next_lba + RequestSize - 1

NextLba == blk.next_lba + RequestSize

XferStarted ==
  /\ pc = "started"
  /\ Goto("pump") /\ blk' = [blk EXCEPT !.next_lba = NextLba, !.next_end = RequestEnd]
  /\ UNCHANGED <<cardvars, status, active, int_err, desc, hw, dma, mem>>

\* The cue comes, or the exit cue.  boot_blockdev reads the table, again from a
\* later block when the buffer is used up, and then the payload.
Cue == /\ pc = "cue"
       /\ \/ start(0, 0, TableEnd)
          \/ Goto("out") /\ UNCHANGED <<cardvars, status, active, int_err, blk, desc, hw, dma, mem>>

ReadOn == /\ pc = "client" /\ blk.buf = 0 /\ blk.consume = blk.stop
          /\ start(blk.lba + TableEnd, 0, TableEnd)

ReadPayload(lba) == /\ pc = "client" /\ blk.buf = 0 /\ blk.consume # blk.buf
                    /\ start(lba, TableEnd, BlobEnd)

\* boot_blockdev is content with the payload, or finds nothing of use
BootDone ==
  /\ pc = "client" /\ AfterBoot("INVALID")
  /\ UNCHANGED <<cardvars, status, active, int_err, blk, desc, hw, dma, mem>>

-----------------------------------------------------------------------------
(* The end: sdhci_try_abort, or the power and the clocks off.              *)

\* no data on the way: done.  Otherwise CMD12, without looking at the inhibits.
sdhci_try_abort ==
  /\ pc = "aborting"
  /\ IF "dat" \notin hw.prs THEN Goto("out") /\ UNCHANGED hw
     ELSE Goto("cmd12") /\ hw' = [hw EXCEPT !.prs = @ \union Inhibit]
  /\ UNCHANGED <<cardvars, status, active, int_err, blk, desc, dma, mem>>

\* the reset ends the transfer, or does not come to its end in time
Reset ==
  /\ pc = "swreset"
  /\ \/ Goto("out") /\ dma' = NoDma /\ hw' = [hw EXCEPT !.prs = {}, !.ints = {}]
     \/ Goto("shut_down") /\ UNCHANGED <<dma, hw>>
  /\ UNCHANGED <<cardvars, status, active, int_err, blk, desc, mem>>

ShutDown ==
  /\ pc = "shut_down" /\ Goto("out")
  /\ hw' = [hw EXCEPT !.power = FALSE, !.signal = FALSE, !.clock = FALSE]
  /\ dma' = NoDma
  /\ UNCHANGED <<cardvars, status, active, int_err, blk, desc, mem>>

Out == /\ pc = "out" /\ Goto("exit")
       /\ UNCHANGED <<cardvars, status, active, int_err, blk, desc, hw, dma, mem>>

-----------------------------------------------------------------------------
(* The interrupt handler and the tick, which sramstage does not pass on.   *)
Wake == w' = IF w = "asleep" THEN "check" ELSE w

Outcome == IF int_err \/ "err" \in hw.ints THEN "GLOBAL" ELSE "OK"

\* mutant: the transfer stays the active one
Irq_KeepActive ==
  /\ Pending
  /\ hw' = [hw EXCEPT !.ints = {}]
  /\ int_err' = (int_err \/ "err" \in hw.ints)
  /\ status' = IF active /\ hw.ints \intersect {"xfer", "err"} # {} THEN Outcome ELSE status
  /\ Wake
  /\ UNCHANGED <<pc, late, seen, cardvars, active, blk, desc, dma, mem>>

sdhci_irq ==
  /\ Pending
  /\ hw' = [hw EXCEPT !.ints = {}]
  /\ int_err' = (int_err \/ "err" \in hw.ints)
  /\ IF active /\ hw.ints \intersect {"xfer", "err"} # {}
       THEN status' = Outcome /\ active' = FALSE
       ELSE UNCHANGED <<status, active>>
  /\ Wake
  /\ UNCHANGED <<pc, late, seen, cardvars, blk, desc, dma, mem>>

Tick ==
  /\ w = "asleep" /\ pc # "early_cmd1" /\ Wake
  /\ UNCHANGED <<pc, late, seen, cardvars, status, active, int_err, blk, desc, hw, dma, mem>>

Elapse ==
  /\ InWait /\ ~late /\ late' = TRUE
  /\ UNCHANGED <<pc, w, seen, cardvars, status, active, int_err, blk, desc, hw, dma, mem>>

-----------------------------------------------------------------------------
(* The controller and the card (external).                                 *)
Raise(ints, prs) == hw' = [hw EXCEPT !.ints = @ \union ints, !.prs = prs]

\* a command ends: CMD8 leaves its data in the FIFO, CMD6 the card busy; CMD0 and
\* CMD1 have no response that could fail
CommandEnd ==
  /\ hw.power /\ "cmd" \in hw.prs
  /\ \/ Raise({"cmd"}, (hw.prs \ {"cmd"}) \union (IF pc = "fifo" THEN {"read"} ELSE {}))
     \/ pc # "early_cmd1" /\ \E left \in SUBSET Inhibit : Raise({"err"}, hw.prs \intersect left)
  /\ UNCHANGED <<waitvars, cardvars, status, active, int_err, blk, desc, dma, mem>>

\* the card is no longer busy, the FIFO has been read
BusyEnd ==
  /\ hw.power /\ hw.prs \intersect {"cmd", "dat"} = {"dat"} /\ ~dma.on /\ pc # "fifo"
  /\ Raise({"xfer"}, {})
  /\ UNCHANGED <<waitvars, cardvars, status, active, int_err, blk, desc, dma, mem>>

\* ADMA2: the descriptors from the first while they are valid, up to the end mark
Walked == LET n == CHOOSE n \in 1..DescCap : (desc[n].end \/ n = DescCap) /\ \A i \in 1..(n - 1) : ~desc[i].end
          IN FlattenSeq([i \in 1..n |-> [j \in 1..desc[i].len |-> desc[i].addr + j - 1]])
Valid == \A i \in 1..DescCap : (\A j \in 1..(i - 1) : ~desc[j].end) => desc[i].valid

DataEnd ==
  /\ dma.on
  /\ \/ /\ Valid /\ Len(Walked) >= dma.count /\ dma.lba + dma.count <= NumBlocks
        /\ LET to == Walked IN
           mem' = [a \in DOMAIN mem |-> LET js == {j \in 1..dma.count : to[j] = a} IN
                                        IF js = {} THEN mem[a] ELSE dma.lba + Max(js) - 1]
        /\ Raise({"xfer"}, hw.prs \ {"dat"}) /\ dma' = NoDma
     \/ /\ Raise({"err"}, hw.prs) /\ dma' \in {dma, NoDma} /\ UNCHANGED mem
  /\ UNCHANGED <<waitvars, cardvars, status, active, int_err, blk, desc>>

-----------------------------------------------------------------------------
Consumes == {c \in {0, 1, blk.end - blk.consume} : c <= blk.end - blk.consume}
Wants == {0, blk.end - blk.consume + 1}
Client == \/ \E consume \in Consumes, min \in Wants : Pump(consume, min)
          \/ ReadOn \/ (\E lba \in PayloadLbas : ReadPayload(lba)) \/ BootDone
Driver == \/ Check \/ Sleep \/ sdhci_init_early \/ emmc_init \/ Ocr \/ sdhci_set_clock \/ ExtCsd
          \/ SwitchResult \/ execute_training \/ parse_cardinfo \/ Started \/ WaitXfer \/ XferDone
          \/ PumpTest \/ PumpRequest \/ XferStarted \/ Cue \/ sdhci_try_abort \/ Reset \/ ShutDown \/ Out
Ended == pc \in {"exit", "die"} /\ UNCHANGED vars

Next == \/ Driver \/ Client \/ sdhci_irq \/ Tick \/ Elapse \/ CommandEnd \/ BusyEnd \/ DataEnd
        \/ Ended

\* The thread runs, interrupts are taken, time passes.  The card may stay silent:
\* only CMD0, and a transfer (by the data timeout), come to an end for sure.
Fairness == /\ WF_vars(Driver) /\ WF_vars(sdhci_irq) /\ WF_vars(Tick) /\ WF_vars(Elapse)
            /\ WF_vars(DataEnd) /\ WF_vars(pc = "early_cmd1" /\ CommandEnd)
Spec == Init /\ [][Next]_vars /\ Fairness

-----------------------------------------------------------------------------
TypeOK ==
  /\ w \in {"check", "sleep", "asleep"} /\ late \in BOOLEAN /\ seen \subseteq {"cmd", "dat", "read"}
  /\ mode \in {"none", "default", "hs200", "bc", "hs", "ddr"} /\ polls \in 0..MaxPolls
  /\ ready \in BOOLEAN /\ info \in BOOLEAN /\ active \in BOOLEAN /\ int_err \in BOOLEAN
  /\ status \in {"OK", "GLOBAL", "submitted"}
  /\ hw.prs \subseteq {"cmd", "dat", "read"} /\ hw.ints \subseteq {"cmd", "xfer", "err"}
  /\ blk.consume <= blk.end /\ blk.end <= blk.next_end /\ blk.next_end <= BlobEnd
  /\ \A i \in 1..DescCap : desc[i].len \in 0..Seg
  /\ dma.on \in BOOLEAN /\ \A a \in DOMAIN mem : mem[a] \in Nat \union {Garbage}

(* Requests do not meet: when pump makes the next one, the last has been   *)
(* ended by the interrupt handler, so that the assertions of               *)
(* sdhci_reset_xfer (sdhci.c:310) hold and active_xfer is free.            *)
RequestFree == pc # "die" /\ (pc = "request" /\ blk.stop # blk.end => status # "submitted" /\ ~active)

(* What pump hands out are the blocks that start() was asked for, in       *)
(* order: through segments, prefetched and abandoned requests and errors   *)
(* that come with or after the end of a transfer.                          *)
DataInOrder ==
  pc \in {"client", "pump", "xfer", "request", "cmd18", "started"} =>
    \A a \in blk.buf..(blk.end - 1) : mem[a] = blk.lba + (a - blk.buf)

(* A card that has not reported the end of its initialization, or whose    *)
(* EXT_CSD is unknown, is never read from, although sdhci_init_late        *)
(* returns IOST_OK when it times out (sdhci.c:249).                        *)
OnlyReadyCards == pc \in {"cue", "start", "client", "cmd18"} => ready /\ info

(* When boot_emmc has returned, the controller writes to memory no more:   *)
(* the transfer has ended, was aborted, or the controller is off.          *)
QuietAtExit == pc = "exit" => ~dma.on

(* Thread, interrupt handler and controller agree about what is            *)
(* outstanding, from the first request to the exit.                        *)
RequestsSound == TypeOK /\ RequestFree /\ OnlyReadyCards /\ QuietAtExit

(* The driver comes back from all it does, to boot_blockdev or to the      *)
(* exit, with a card that never answers and when an error comes between a  *)
(* check and the sleep: the tick wakes it for its timeout.                 *)
Idle == pc \in {"cue", "client", "exit"}
DriverReturns == ~Idle ~> Idle
=============================================================================
