--------------------------------- MODULE Sd ---------------------------------
(* The SD card: what sramstage starts (sramstage/sd_init.c,                *)
(* lib/dwmmc_early.c), boot_sd with its block device (dramstage/blk_sd.c)  *)
(* and the DWMMC driver under them (lib/dwmmc.c, dwmmc_common.c,           *)
(* dwmmc_xfer.c).  The thread, the interrupt handler, the tick and the     *)
(* controller interleave.                                                  *)
(*                                                                         *)
(* Addresses and LBAs count blocks.  While the controller moves data the   *)
(* target holds garbage.  What a card answers is chosen where the driver   *)
(* looks at it.                                                            *)
EXTENDS Integers, Sequences, FiniteSetsExt, SequencesExt

CONSTANTS
  NumBlocks,       \* sectors of the card
  Page,            \* blocks of a DMA buffer: 4096 bytes
  RequestSize,     \* REQUEST_SIZE
  DescCap,         \* xfer.desc_cap: the descriptors of one page
  TableEnd,        \* partition_table_buffer is 0..TableEnd-1
  BlobEnd,         \* blob_buffer is TableEnd..BlobEnd-1
  PayloadLbas,     \* where a payload partition may start
  MaxPolls         \* ACMD41 polls before a second is over

ASSUME SdAssumption ==
  /\ Page \in Nat \ {0} /\ RequestSize \in Nat \ {0}
  /\ 2 * (DescCap - 1) * Page >= RequestSize       \* the self-linked descriptor is not reached
  /\ TableEnd < BlobEnd /\ MaxPolls \in Nat

Garbage == -1

VARIABLES
  pc, w,           \* the call the thread is in; where it is in that
  late,            \* its timeout has passed
  polls,
  status, active,  \* xfer.status; state->active_xfer is this xfer
  int_st, idmac_st,\* state->int_st; the interrupt bits of state->idmac_st
  blk,             \* the pointers of sd_blockdev
  desc,            \* the IDMAC descriptors
  hw,              \* the controller's registers
  dma,             \* the running transfer
  mem,             \* LBA of the block at an address
  odd,             \* the card was busy, failed or did not answer in time
  silent,          \* a read has timed out, or its IDMAC has stopped halfway
  overlap          \* a request was made while the last one's CMD12 was going

waitvars == <<pc, w, late>>
irqvars == <<int_st, idmac_st>>
history == <<silent, overlap>>
vars == <<waitvars, polls, status, active, irqvars, blk, desc, hw, dma, mem, odd, history>>

NoDma == [on |-> FALSE, lba |-> 0, count |-> 0]
EmptyDesc == [ptr1 |-> 0, size1 |-> 0, ptr2 |-> 0, size2 |-> 0, own |-> FALSE, last |-> FALSE]
Ready == {"done", "idle", "over"}    \* CMD_DONE, DATA_NO_BUSY, DATA_TRANSFER_OVER

Init ==
  /\ pc = "reset" /\ w = "submit" /\ late = FALSE /\ polls = 0
  /\ status = "OK" /\ active = FALSE /\ int_st = Ready /\ idmac_st = {}
  /\ blk = [consume |-> 0, end |-> 0, next_end |-> 0, stop |-> 0, next_lba |-> 0, want |-> 0,
            buf |-> 0, lba |-> 0, args |-> [lba |-> 0, buf |-> 0, end |-> 0], loaded |-> FALSE]
  /\ desc = [i \in 1..DescCap |-> EmptyDesc]
  /\ hw = [rint |-> {}, idmac |-> {}, enable |-> TRUE, start |-> FALSE, run |-> "none", sm |-> FALSE,
           fsm |-> FALSE, busy |-> FALSE, stop |-> FALSE]
  /\ dma = NoDma
  /\ mem = [a \in 0..(BlobEnd - 1) |-> Garbage]
  /\ odd = FALSE /\ silent = FALSE /\ overlap = FALSE

-----------------------------------------------------------------------------
(* The calls.  "clock" is set_clock_enable, "cmd" and "data" are           *)
(* dwmmc_wait_cmd_done (with wait_data_finished), "issue" is               *)
(* dwmmc_wait_cmd alone, "post" dwmmc_wait_cmd_done_postissue and "idle"   *)
(* dwmmc_wait_data_idle.                                                   *)
Call(kind, next, fail) == [kind |-> kind, next |-> next, fail |-> fail]
Early(kind, next) == Call(kind, next, "gate")
Late(kind, next) == Call(kind, next, "shut_down")

Prog ==
  [early_clock |-> Early("clock", "cmd0"), cmd0 |-> Early("cmd", "cmd8"), cmd8 |-> Early("cmd", "pattern"),
   early_cmd55 |-> Early("cmd", "early_idle"), early_idle |-> Call("idle", "early_acmd41", "early_acmd41"),
   early_acmd41 |-> Early("issue", "handoff"),
   first_acmd41 |-> Late("post", "ocr"), cmd55 |-> Late("cmd", "acmd41"), acmd41 |-> Late("cmd", "ocr"),
   cmd2 |-> Late("cmd", "cmd3"), cmd3 |-> Late("cmd", "rca_idle"), rca_idle |-> Late("idle", "clock_off"),
   clock_off |-> Late("clock", "clock_on"), clock_on |-> Late("clock", "cmd9"),
   cmd9 |-> Late("cmd", "cmd7"), cmd7 |-> Late("cmd", "cmd16"), cmd16 |-> Late("cmd", "width_cmd55"),
   width_cmd55 |-> Late("cmd", "acmd6"), acmd6 |-> Late("cmd", "cmd6"),
   cmd6 |-> Late("data", "switch3"), commit |-> Late("data", "hs_idle"), hs_idle |-> Late("idle", "hs_off"),
   hs_off |-> Late("clock", "hs_on"), hs_on |-> Late("clock", "ssr_cmd55"),
   ssr_cmd55 |-> Late("cmd", "acmd13"), acmd13 |-> Late("data", "capacity"),
   cmd18 |-> Call("issue", "started", "pump_fails")]
InCall == pc \in DOMAIN Prog
Kind == Prog[pc].kind
FirstStep(l) == IF l \notin DOMAIN Prog THEN "submit"
                ELSE CASE Prog[l].kind = "post" -> "done" [] Prog[l].kind = "idle" -> "idle" [] OTHER -> "submit"

Goto(l) == pc' = l /\ w' = FirstStep(l) /\ late' = FALSE
Step(s) == w' = s /\ UNCHANGED <<pc, late>>

\* boot_sd after boot_blockdev has returned st
AfterBoot(st) == Goto(CASE st = "OK" -> "last_wait" [] st = "GLOBAL" -> "shut_down" [] OTHER -> "out")

\* pump fails: boot_blockdev returns the status, of a payload read INVALID
PumpFails(st) == AfterBoot(IF blk.buf = 0 THEN st ELSE "INVALID")

\* Every error ends the initialization, but a CMD8 without an answer in time,
\* and the status register of the card may be unreadable.
Fails(st) ==
  /\ CASE pc = "cmd8" /\ st # "LOCAL" -> Goto("pattern")
       [] pc = "acmd13" /\ w = "over" -> Goto("capacity")
       [] pc = "cmd18" -> PumpFails(st)
       [] OTHER -> Goto(Prog[pc].fail)
  /\ odd' = TRUE
Returns == Goto(Prog[pc].next) /\ UNCHANGED odd

RequestEnd == IF blk.stop - blk.end > RequestSize THEN blk.end + RequestSize ELSE blk.stop

Cleared == int_st \ (IF Kind = "data" \/ pc = "cmd18" THEN Ready ELSE {"done", "idle"})

\* One CPU: an interrupt that is there is taken before the next command is logged
\* and written.  sramstage has them off during its ACMD41.
Pending == hw.enable /\ hw.rint \union hw.idmac # {} /\ pc \notin {"early_acmd41", "handoff", "gate"}

\* dwmmc_wait_cmd up to the command register.  All commands here wait for
\* the end of the last data (SYNC_DATA).
dwmmc_wait_cmd ==
  /\ InCall /\ w = "submit" /\ ~Pending
  /\ IF "err" \in int_st THEN Fails("LOCAL") /\ UNCHANGED <<int_st, hw, dma, mem>>
     ELSE IF ~(Ready \subseteq int_st) THEN Fails("TRANSIENT") /\ UNCHANGED <<int_st, hw, dma, mem>>
     ELSE /\ Step("ack") /\ UNCHANGED odd
          /\ int_st' = Cleared
          /\ hw' = [hw EXCEPT !.start = TRUE, !.run = IF pc = "cmd18" THEN "xfer" ELSE Kind]
          /\ dma' = IF pc = "cmd18" THEN [on |-> TRUE, lba |-> blk.next_lba, count |-> RequestEnd - blk.end] ELSE dma
          /\ mem' = IF pc = "cmd18" THEN [a \in DOMAIN mem |-> IF a \in blk.end..(RequestEnd - 1) THEN Garbage ELSE mem[a]]
                                    ELSE mem
  /\ UNCHANGED <<polls, history, status, active, idmac_st, blk, desc>>

\* mutant: set_clock_enable does not set what dwmmc_wait_cmd has cleared
Acknowledged_NoSet ==
  /\ InCall /\ w = "ack" /\ (late \/ ~hw.start)
  /\ IF hw.start THEN Fails("GLOBAL")
     ELSE IF Kind \in {"clock", "issue"} THEN Returns ELSE Step("done") /\ UNCHANGED odd
  /\ UNCHANGED <<polls, history, status, active, irqvars, blk, desc, hw, dma, mem>>

\* its second loop; a clock update has no further effect
Acknowledged ==
  /\ InCall /\ w = "ack" /\ (late \/ ~hw.start)
  /\ IF hw.start THEN Fails("GLOBAL") /\ UNCHANGED int_st
     ELSE CASE Kind = "clock" -> Returns /\ int_st' = int_st \union {"done", "idle"}
            [] Kind = "issue" -> Returns /\ UNCHANGED int_st
            [] OTHER -> Step("done") /\ UNCHANGED <<odd, int_st>>
  /\ UNCHANGED <<polls, history, status, active, idmac_st, blk, desc, hw, dma, mem>>

\* mutant: without a timeout
postissue_Forever ==
  /\ InCall /\ w = "done"
  /\ IF "err" \in int_st THEN Fails("LOCAL")
     ELSE IF "done" \in int_st THEN (IF Kind = "post" THEN Returns ELSE Step("idle") /\ UNCHANGED odd)
     ELSE int_st = {} /\ Step("done_asleep") /\ UNCHANGED odd
  /\ UNCHANGED <<polls, history, status, active, irqvars, blk, desc, hw, dma, mem>>

\* it sleeps only when there is nothing at all in int_st
dwmmc_wait_cmd_done_postissue ==
  /\ InCall /\ w = "done"
  /\ IF "err" \in int_st THEN Fails("LOCAL")
     ELSE IF "done" \in int_st THEN (IF Kind = "post" THEN Returns ELSE Step("idle") /\ UNCHANGED odd)
     ELSE IF late THEN Fails("GLOBAL")
     ELSE int_st = {} /\ Step("done_asleep") /\ UNCHANGED odd
  /\ UNCHANGED <<polls, history, status, active, irqvars, blk, desc, hw, dma, mem>>

dwmmc_wait_data_idle ==
  /\ InCall /\ w = "idle"
  /\ IF "idle" \in int_st
       THEN (IF Kind = "data" THEN w' = "over" /\ late' = FALSE /\ UNCHANGED <<pc, odd>> ELSE Returns)
     ELSE IF late THEN Fails("GLOBAL")
     ELSE Step("idle_asleep") /\ UNCHANGED odd
  /\ UNCHANGED <<polls, history, status, active, irqvars, blk, desc, hw, dma, mem>>

\* polls without sleeping
wait_data_finished ==
  /\ InCall /\ w = "over"
  /\ IF "over" \in int_st THEN Returns ELSE ("err" \in int_st \/ late) /\ Fails("LOCAL")
  /\ UNCHANGED <<polls, history, status, active, irqvars, blk, desc, hw, dma, mem>>

-----------------------------------------------------------------------------
(* Between the calls.                                                      *)
Keep == UNCHANGED <<polls, history, status, active, irqvars, blk, desc, hw, dma, mem, odd>>

\* rk3399_init_sdmmc and dwmmc_init_early up to the clock
dwmmc_init_early == pc = "reset" /\ (Goto("gate") \/ Goto("early_clock")) /\ Keep

\* the response to CMD8: the check pattern or not
CheckPattern == pc = "pattern" /\ (Goto("gate") \/ Goto("early_cmd55")) /\ Keep

\* sramstage gates the clock if it has failed; dramstage has a state of its own
\* and turns the interrupts on again
Handoff ==
  /\ pc \in {"gate", "handoff"}
  /\ Goto(IF pc = "gate" THEN "out" ELSE "first_acmd41")
  /\ int_st' = {"over"} /\ idmac_st' = {}
  /\ hw' = [hw EXCEPT !.enable = (pc = "handoff")]
  /\ UNCHANGED <<polls, history, status, active, blk, desc, dma, mem, odd>>

Ocr ==
  /\ pc = "ocr"
  /\ \/ Goto("cmd2") /\ UNCHANGED polls
     \/ polls = MaxPolls /\ Goto("shut_down") /\ UNCHANGED polls
     \/ polls < MaxPolls /\ Goto("cmd55") /\ polls' = polls + 1
  /\ UNCHANGED <<history, status, active, irqvars, blk, desc, hw, dma, mem, odd>>

\* try_high_speed: the card may not have it
Switch3 == pc = "switch3" /\ (Goto("commit") \/ Goto("ssr_cmd55")) /\ Keep

\* a card without high capacity is refused; parse_cardinfo may not know the CSD
Capacity == /\ pc = "capacity" /\ (Goto("shut_down") \/ Goto("out") \/ Goto("cue"))
            /\ polls' = 0
            /\ UNCHANGED <<history, status, active, irqvars, blk, desc, hw, dma, mem, odd>>

-----------------------------------------------------------------------------
(* boot_sd and its block device.                                           *)

\* start: it waits for what is still being read, at first for the zeroed status
start(lba, buf, end) ==
  /\ IF lba >= NumBlocks
       THEN AfterBoot("INVALID") /\ UNCHANGED blk
       ELSE Goto("start") /\ blk' = [blk EXCEPT !.args = [lba |-> lba, buf |-> buf, end |-> end]]
  /\ UNCHANGED <<polls, history, status, active, irqvars, desc, hw, dma, mem, odd>>

Started ==
  /\ pc = "start" /\ status # "submitted"
  /\ IF status # "OK" THEN AfterBoot(status) /\ UNCHANGED blk
     ELSE /\ Goto("client")
          /\ blk' = [blk EXCEPT !.consume = blk.args.buf, !.end = blk.args.buf, !.next_end = blk.args.buf,
                                !.stop = blk.args.end, !.next_lba = blk.args.lba,
                                !.buf = blk.args.buf, !.lba = blk.args.lba]
  /\ UNCHANGED <<polls, history, status, active, irqvars, desc, hw, dma, mem, odd>>

\* dwmmc_wait_xfer sleeps while the status is SUBMITTED
WaitXfer == pc \in {"start", "xfer", "last_wait"} /\ w = "submit" /\ status = "submitted" /\ Step("asleep") /\ Keep

XferDone ==
  /\ pc = "xfer" /\ status # "submitted"
  /\ IF status = "OK" THEN Goto("request") /\ blk' = [blk EXCEPT !.end = blk.next_end]
                      ELSE PumpFails(status) /\ UNCHANGED blk
  /\ UNCHANGED <<polls, history, status, active, irqvars, desc, hw, dma, mem, odd>>

Pump(consume, min) ==
  /\ pc = "client" /\ consume <= blk.end - blk.consume
  /\ Goto("pump")
  /\ blk' = [blk EXCEPT !.consume = @ + consume, !.want = min]
  /\ UNCHANGED <<polls, history, status, active, irqvars, desc, hw, dma, mem, odd>>

\* the condition of pump's loop
PumpTest ==
  /\ pc = "pump"
  /\ Goto(IF blk.end - blk.consume >= blk.want THEN "client"
          ELSE IF blk.end # blk.next_end THEN "xfer" ELSE "request")
  /\ Keep

\* dwmmc_add_phys_buffer: two pages per descriptor; the last descriptor of the
\* page takes one and links to itself
dwmmc_add_phys_buffer(from, to) ==
  LET Pages == (to - from + Page - 1) \div Page
      Size(k) == IF k >= Pages THEN 0 ELSE Min({Page, to - (from + k * Page)})
  IN [i \in 1..DescCap |->
        IF 2 * (i - 1) >= Pages THEN desc[i]
        ELSE [ptr1 |-> from + 2 * (i - 1) * Page, size1 |-> Size(2 * (i - 1)),
              ptr2 |-> from + (2 * i - 1) * Page, size2 |-> IF i = DescCap THEN 0 ELSE Size(2 * i - 1),
              own |-> i # 1, last |-> FALSE]]

\* dwmmc_start_xfer marks the last descriptor and hands over the first
Arm(d, from, to) == [d EXCEPT ![(to - from + 2 * Page - 1) \div (2 * Page)].last = TRUE, ![1].own = TRUE]

(* dwmmc_start_request repeats while its weak compare-exchange succeeds:   *)
(* the second attempt fails, as the first has stored CREATING.  If the     *)
(* first fails spuriously, the old status stays.                           *)
dwmmc_start_request == {"creating", status}

NextLba == blk.next_lba + RequestSize

\* the rest of the loop: the end of the buffer, or the next request up to its
\* command, with the reset of the IDMAC; the assertions on status and active_xfer.
\* Nothing keeps the end of the last request's CMD12 from coming after this.
PumpRequest ==
  /\ pc = "request" /\ ~Pending
  /\ IF blk.stop = blk.end THEN Goto("client") /\ UNCHANGED <<status, active, desc, hw, dma, overlap>>
     ELSE IF status = "submitted" THEN PumpFails("TRANSIENT") /\ UNCHANGED <<status, active, desc, hw, dma, overlap>>
     ELSE \E st \in dwmmc_start_request :
            IF st # "creating" \/ active THEN Goto("die") /\ UNCHANGED <<status, active, desc, hw, dma, overlap>>
            ELSE /\ desc' = Arm(dwmmc_add_phys_buffer(blk.end, RequestEnd), blk.end, RequestEnd)
                 /\ status' = "submitted" /\ active' = TRUE /\ Goto("cmd18")
                 /\ hw' = [hw EXCEPT !.fsm = FALSE] /\ dma' = NoDma
                 /\ overlap' = (overlap \/ hw.stop)
  /\ UNCHANGED <<polls, irqvars, blk, mem, odd, silent>>

XferStarted ==
  /\ pc = "started"
  /\ Goto("pump") /\ blk' = [blk EXCEPT !.next_lba = NextLba, !.next_end = RequestEnd]
  /\ UNCHANGED <<polls, history, status, active, irqvars, desc, hw, dma, mem, odd>>

\* The cue comes, or the exit cue.  boot_blockdev reads the table, again from a
\* later block when the buffer is used up, and then the payload.
Cue == pc = "cue" /\ (start(0, 0, TableEnd) \/ (Goto("out") /\ Keep))

ReadOn == /\ pc = "client" /\ blk.buf = 0 /\ blk.consume = blk.stop
          /\ start(blk.lba + TableEnd, 0, TableEnd)

ReadPayload(lba) == /\ pc = "client" /\ blk.buf = 0 /\ blk.consume # blk.buf
                    /\ start(lba, TableEnd, BlobEnd)

\* boot_blockdev is content with the payload, or finds nothing of use
BootDone(st) ==
  /\ pc = "client" /\ (st = "OK" => blk.buf # 0)
  /\ AfterBoot(st) /\ blk' = [blk EXCEPT !.loaded = (st = "OK")]
  /\ UNCHANGED <<polls, history, status, active, irqvars, desc, hw, dma, mem, odd>>

\* after the report of the payload: dwmmc_wait_xfer once more
LastWait == pc = "last_wait" /\ status # "submitted" /\ Goto("out") /\ Keep

Leave ==
  \/ pc = "shut_down" /\ Goto("out") /\ hw' = [hw EXCEPT !.enable = FALSE, !.run = "none", !.start = FALSE, !.fsm = FALSE, !.stop = FALSE]
     /\ dma' = NoDma /\ UNCHANGED <<polls, history, status, active, irqvars, blk, desc, mem, odd>>
  \/ pc = "out" /\ Goto("exit") /\ Keep

-----------------------------------------------------------------------------
(* The interrupt handler and the tick.                                     *)
Asleep == w \in {"asleep", "done_asleep", "idle_asleep"}
Wake == w' = CASE w = "asleep" -> "submit" [] w = "done_asleep" -> "done"
                    [] w = "idle_asleep" -> "idle" [] OTHER -> w

\* mutant: the data path alone
TransferDone_NoFsm == ~hw.sm

\* the IDMAC is idle or suspended, and so is the data path
TransferDone == ~hw.fsm /\ ~hw.sm

dwmmc_irq ==
  LET now == int_st \union hw.rint \union (IF hw.busy \/ hw.sm THEN {} ELSE {"idle"})
      acc == idmac_st \union hw.idmac
  IN
  /\ Pending
  /\ hw' = [hw EXCEPT !.rint = {}, !.idmac = {}]
  /\ int_st' = now /\ idmac_st' = acc
  /\ IF active /\ (TransferDone \/ "err" \in now)
       THEN status' = (IF "err" \in now \/ "abnormal" \in acc THEN "GLOBAL" ELSE "OK") /\ active' = FALSE
       ELSE UNCHANGED <<status, active>>
  /\ Wake
  /\ UNCHANGED <<pc, late, polls, history, blk, desc, dma, mem, odd>>

Tick == Asleep /\ Wake /\ UNCHANGED <<pc, late>> /\ Keep

Elapse == InCall /\ w # "submit" /\ ~late /\ late' = TRUE /\ UNCHANGED <<pc, w>> /\ Keep

-----------------------------------------------------------------------------
(* The controller and the card (external).                                 *)
InRead == blk.stop # 0               \* from start() on all commands are reads
Environment == UNCHANGED <<waitvars, polls, status, active, irqvars, blk, desc, overlap>>

\* the command is taken over, after a CMD12 that is going; the data path and, for
\* a read, the IDMAC start with it
Accept ==
  /\ hw.start /\ ~hw.stop
  /\ hw' = [hw EXCEPT !.start = FALSE, !.sm = @ \/ hw.run \in {"data", "xfer"}, !.fsm = @ \/ hw.run = "xfer",
                      !.run = IF @ = "clock" THEN "none" ELSE IF @ \in {"data", "xfer"} THEN "both" ELSE "cmd"]
  /\ UNCHANGED <<dma, mem, odd, silent>> /\ Environment

(* Response and read timeouts are not in DWMMC_ERROR_INT_MASK.  Of a read  *)
(* they end the command or the data path, and the IDMAC waits for data     *)
(* that does not come, or is suspended.  Of another command they are like  *)
(* an answer that the driver makes nothing of.                             *)
Outcome == {"good", "error"} \union (IF dma.on THEN {"timeout"} ELSE {})
Rint(bit, how) == {bit} \union (IF how = "error" THEN {"err"} ELSE {})
Broken(how, idmac) == /\ dma' = IF how = "good" THEN dma ELSE NoDma
                      /\ how = "timeout" \/ ~idmac
                      /\ silent' = (silent \/ how = "timeout")

\* CMD_DONE, with the card busy for a while
CommandEnd ==
  /\ ~hw.start /\ hw.run \in {"cmd", "both"}
  /\ \E how \in Outcome, busy, idmac \in BOOLEAN :
       /\ hw' = [hw EXCEPT !.rint = @ \union Rint("done", how), !.busy = busy,
                           !.run = IF @ = "both" /\ how = "good" THEN "data" ELSE "none",
                           !.sm = @ /\ how = "good", !.fsm = @ /\ (how = "good" \/ idmac)]
       /\ odd' = (odd \/ busy \/ how # "good")
       /\ Broken(how, idmac)
  /\ UNCHANGED mem /\ Environment

BusyEnd == hw.busy /\ hw' = [hw EXCEPT !.busy = FALSE] /\ UNCHANGED <<dma, mem, odd, silent>> /\ Environment

\* DATA_TRANSFER_OVER: the data path is idle.  The automatic CMD12 follows.
DataEnd ==
  /\ ~hw.start /\ hw.run = "data"
  /\ \E how \in Outcome, idmac \in BOOLEAN :
       /\ how = "good" /\ dma.on => dma.lba + dma.count <= NumBlocks
       /\ hw' = [hw EXCEPT !.rint = @ \union Rint("over", how), !.sm = FALSE, !.run = "none",
                           !.stop = InRead /\ how = "good", !.fsm = @ /\ (how = "good" \/ idmac)]
       /\ odd' = (odd \/ how # "good")
       /\ Broken(how, idmac)
  /\ UNCHANGED mem /\ Environment

\* the pages of the descriptors up to the last
Walked == LET n == CHOOSE n \in 1..DescCap : (desc[n].last \/ n = DescCap) /\ \A i \in 1..(n - 1) : ~desc[i].last
          IN FlattenSeq([i \in 1..n |-> [j \in 1..desc[i].size1 |-> desc[i].ptr1 + j - 1]
                                        \o [j \in 1..desc[i].size2 |-> desc[i].ptr2 + j - 1]])

(* The IDMAC has written all to memory, before or after the data path is   *)
(* idle, or stops with an abnormal interrupt: then the data path gets no   *)
(* room, and if it is not idle yet it stays so.                            *)
DmaEnd ==
  /\ dma.on /\ hw.fsm /\ (hw.run = "data" \/ ~hw.sm)
  /\ \/ /\ dma.lba + dma.count <= NumBlocks /\ Len(Walked) >= dma.count
        /\ hw' = [hw EXCEPT !.fsm = FALSE, !.idmac = {"end"}]
        /\ mem' = LET to == Walked IN
                  [a \in DOMAIN mem |-> LET js == {j \in 1..dma.count : to[j] = a} IN
                                        IF js = {} THEN mem[a] ELSE dma.lba + Max(js) - 1]
        /\ UNCHANGED <<odd, silent>>
     \/ /\ hw' = [hw EXCEPT !.fsm = FALSE, !.idmac = {"abnormal"}]
        /\ odd' = TRUE /\ silent' = (silent \/ hw.sm)
        /\ UNCHANGED mem
  /\ dma' = NoDma /\ Environment

StopDone ==
  /\ hw.stop
  /\ hw' = [hw EXCEPT !.rint = @ \union {"done"}, !.stop = FALSE]
  /\ UNCHANGED <<dma, mem, odd, silent>> /\ Environment

-----------------------------------------------------------------------------
Consumes == {0, blk.end - blk.consume}
Wants == {0, blk.end - blk.consume + 1}
Client == \/ \E consume \in Consumes, min \in Wants : Pump(consume, min)
          \/ ReadOn \/ (\E lba \in PayloadLbas : ReadPayload(lba)) \/ (\E st \in {"OK", "INVALID"} : BootDone(st))
Driver == \/ dwmmc_wait_cmd \/ Acknowledged \/ dwmmc_wait_cmd_done_postissue \/ dwmmc_wait_data_idle
          \/ wait_data_finished \/ dwmmc_init_early \/ CheckPattern \/ Handoff \/ Ocr \/ Switch3 \/ Capacity
          \/ Started \/ WaitXfer \/ XferDone \/ PumpTest \/ PumpRequest \/ XferStarted \/ Cue \/ LastWait \/ Leave
Transfer == CommandEnd \/ DataEnd \/ DmaEnd \/ StopDone
Ended == pc \in {"exit", "die"} /\ UNCHANGED vars

Next == Driver \/ Client \/ dwmmc_irq \/ Tick \/ Elapse \/ Accept \/ Transfer \/ BusyEnd \/ Ended

\* The thread runs, interrupts are taken, time passes.  The card may stay silent,
\* but the controller's timeouts end a read, and the IDMAC writes what it has.
Fairness == /\ WF_vars(Driver) /\ WF_vars(dwmmc_irq) /\ WF_vars(Tick) /\ WF_vars(Elapse)
            /\ WF_vars(InRead /\ Accept) /\ WF_vars(InRead /\ (CommandEnd \/ DataEnd))
            /\ WF_vars(DmaEnd) /\ WF_vars(StopDone)
Spec == Init /\ [][Next]_vars /\ Fairness

-----------------------------------------------------------------------------
TypeOK ==
  /\ w \in {"submit", "ack", "done", "idle", "over", "asleep", "done_asleep", "idle_asleep"}
  /\ late \in BOOLEAN /\ polls \in 0..MaxPolls /\ active \in BOOLEAN /\ odd \in BOOLEAN
  /\ status \in {"OK", "GLOBAL", "submitted"} /\ int_st \subseteq Ready \union {"err"}
  /\ idmac_st \subseteq {"end", "abnormal"} /\ silent \in BOOLEAN /\ overlap \in BOOLEAN
  /\ hw.rint \subseteq {"done", "over", "err"} /\ hw.run \in {"none", "clock", "issue", "cmd", "both", "data", "xfer"}
  /\ blk.consume <= blk.end /\ blk.end <= blk.next_end /\ blk.next_end <= BlobEnd
  /\ \A i \in 1..DescCap : desc[i].size1 \in 0..Page /\ desc[i].size2 \in 0..Page
  /\ dma.on \in BOOLEAN /\ \A a \in DOMAIN mem : mem[a] \in Nat \union {Garbage}

(* A command is never refused for its state (dwmmc_common.c:61) unless     *)
(* the card was busy, failed or was late, or a request was made before the *)
(* last one's CMD12 had ended: what one command clears of int_st, its      *)
(* interrupts have set again before the next one.                          *)
NeverRefused == InCall /\ w = "submit" /\ ~odd /\ ~overlap /\ ~Pending => Ready \subseteq int_st

(* Requests do not meet: when pump makes the next one, the last has been   *)
(* ended by the interrupt handler, so active_xfer is free                  *)
(* (dwmmc_xfer.c:80) and the status is not SUBMITTED.                      *)
RequestFree == pc = "request" /\ blk.stop # blk.end => status # "submitted" /\ ~active

(* What pump hands out are the blocks that start() was asked for, in       *)
(* order: neither the end of the data path nor that of the IDMAC alone,    *)
(* nor an interrupt of the command, ends a transfer early, and a transfer  *)
(* that failed is not handed out.  Two cases are not covered, because the  *)
(* handler ends a transfer whenever both are idle (dwmmc_common.c:36).     *)
(* When a request is made before the last one's CMD12 has ended, the       *)
(* interrupt of that ends it at once.  (Between them is only the time it   *)
(* takes to invalidate the cache, blk_sd.c:92.)  And a read that has timed *)
(* out counts as done if the IDMAC is suspended.                           *)
DataInOrder ==
  ~overlap /\ ~silent /\ pc \in {"client", "pump", "xfer", "request", "cmd18", "started"} =>
    \A a \in blk.buf..(blk.end - 1) : mem[a] = blk.lba + (a - blk.buf)

(* After boot_sd has reported a payload, it returns only when the          *)
(* controller writes to memory no more (in the same cases).                *)
QuietWhenLoaded == ~overlap /\ ~silent /\ pc = "exit" /\ blk.loaded => ~dma.on

(* Thread, interrupt handler and controller agree about what is            *)
(* outstanding, from the first command to the exit.                        *)
RequestsSound == TypeOK /\ NeverRefused /\ RequestFree /\ QuietWhenLoaded

(* The driver comes back from all it does: from every command, with a card *)
(* that does not answer, and from every read that ends with success or     *)
(* error, and it never waits for a transfer whose command was refused      *)
(* (dwmmc_xfer.c:103 leaves it SUBMITTED).  Two things keep it from coming *)
(* back.  A read that times out is no error to the interrupt handler, and  *)
(* dwmmc_wait_xfer has no timeout of its own (dwmmc_xfer.c:109).  And the  *)
(* assertion of dwmmc_xfer.c:27 fails when the weak compare-exchange of    *)
(* dwmmc_start_request does so spuriously.                                 *)
DriverIdle == pc \in {"cue", "client", "exit"}
DriverReturns == ~DriverIdle ~> (DriverIdle \/ silent \/ pc = "die")
=============================================================================
