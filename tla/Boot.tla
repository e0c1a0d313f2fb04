-------------------------------- MODULE Boot --------------------------------
(***************************************************************************)
(* How dramstage finds a payload: the threads of dramstage/main.c          *)
(* (boot_monitor, board probe, one thread per configured boot medium),     *)
(* which agree by the bits of boot_state and by current_boot_cue on who    *)
(* may use the payload buffers, and main(), which commits when they have   *)
(* all returned.                                                           *)
(*                                                                         *)
(* Threads are preempted between any two steps.  Going to sleep and        *)
(* testing the condition is one step, and a wake reaches every sleeper of  *)
(* a list: the scheduler provides that (Sched, property ImplementsWaits).  *)
(* Drivers, partition table and decompression are reduced to the iost      *)
(* they return.                                                            *)
(***************************************************************************)
EXTENDS Integers, Sequences, FiniteSets

CONSTANTS Configs,      \* sets of media that dramstage is configured with
          NumParts,     \* compression frames of a payload
          MaxNs         \* bound on the namespaces of an NVMe controller

ASSUME PartsAssumption == NumParts \in Nat \ {0}
ASSUME NsAssumption == MaxNs \in Nat \ {0}

Medium == {"SD", "EMMC", "NVME", "SPI"}

ASSUME ConfigsAssumption == Configs \subseteq SUBSET Medium

\* DEFINE_BOOT_MEDIUM
Order == <<"SD", "EMMC", "NVME", "SPI">>

Part == 1..NumParts
Failure == {"TRANSIENT", "INVALID", "LOCAL", "GLOBAL"}
Monitor == "monitor"

\* contents of a payload buffer
None == "none"
Partial == "partial"    \* decompression stopped in the middle
Usb == "usb"            \* put there before dramstage started
Mixed == "mixed"        \* read by one medium, partly overwritten by another

VARIABLES
  avail,                \* the configured media; never changes
  boot_state,           \* [Medium -> set of "exit", "ready", "loaded"]
  current_boot_cue,     \* a medium, "none" or "exit"
  asleep,               \* the monitor on boot_monitors, media on boot_cue_waiters
  mon, medium, state,   \* boot_monitor: where it is and its two locals
  pc, curr,             \* of the media threads: where it is, wait_for_boot_cue's curr
  part,                 \* decompress_payload: the next part
  ns,                   \* boot_nvme: namespaces left to try
  blob,                 \* whose data is in blob_buffer
  buffer, desc,         \* [Part -> whose data]: payload memory, payload_descriptor
  reading,              \* media whose driver has a read into blob_buffer going
  broken,               \* devices with a global fault, until they are shut down
  chosen,               \* the medium whose payload the monitor accepted
  overridden,           \* media whose payload the user refused
  board, main           \* the board probe thread; main()

monvars == <<mon, medium, state, chosen, overridden>>
datavars == <<buffer, desc, part, blob>>
devvars == <<reading, broken, ns>>
vars == <<avail, boot_state, current_boot_cue, asleep, monvars, pc, curr,
          datavars, devvars, board, main>>

\* available_boot_media ^ all_exit_mask
InitialBits(m) == IF m \in avail THEN {} ELSE {"exit"}

Init ==
  /\ avail \in Configs
  /\ boot_state = [m \in Medium |-> InitialBits(m)]
  /\ current_boot_cue = "none"
  /\ asleep = {}
  /\ mon = "start" /\ medium = 1 /\ state = [m \in Medium |-> {}]
  /\ chosen = None /\ overridden = {}
  /\ pc = [m \in Medium |-> IF m \notin avail THEN "dead" ELSE IF m = "SPI" THEN "ready" ELSE "init"]
  /\ curr = [m \in Medium |-> "none"]
  /\ part = [m \in Medium |-> 1] /\ ns = 0
  /\ blob = None /\ buffer = [p \in Part |-> None] /\ desc = [p \in Part |-> None]
  /\ reading = {} /\ broken = {}
  /\ board \in {"unknown", "known"}     \* init_board
  /\ main = "run"

-----------------------------------------------------------------------------
(* boot_monitor.                                                           *)

Cur == Order[medium]

MonitorStart ==
  /\ mon = "start" /\ avail # {}
  /\ state' = boot_state
  /\ mon' = "next"
  /\ UNCHANGED <<avail, boot_state, current_boot_cue, asleep, medium, chosen, overridden,
                 pc, curr, datavars, devvars, board, main>>

\* without boot media the payload is in memory already
UseEmbedded ==
  /\ mon = "start" /\ avail = {}
  /\ \/ /\ mon' = "board"
        /\ chosen' = Usb
        /\ buffer' = [p \in Part |-> Usb] /\ desc' = [p \in Part |-> Usb]
     \/ mon' = "die" /\ UNCHANGED <<chosen, buffer, desc>>
  /\ UNCHANGED <<avail, boot_state, current_boot_cue, asleep, medium, state, overridden,
                 pc, curr, part, blob, devvars, board, main>>

\* the head of the loop over the media
MonitorNext ==
  /\ mon = "next"
  /\ \/ medium > Len(Order) /\ mon' = "die" /\ UNCHANGED medium
     \/ medium <= Len(Order) /\ Cur \notin avail /\ medium' = medium + 1 /\ UNCHANGED mon
     \/ medium <= Len(Order) /\ Cur \in avail /\ mon' = "await_ready" /\ UNCHANGED medium
  /\ UNCHANGED <<avail, boot_state, current_boot_cue, asleep, state, chosen, overridden,
                 pc, curr, datavars, devvars, board, main>>

\* monitor_boot_state: sleep while none of the bits is set, then look again
Awaited == [await_ready |-> {"ready", "exit"}, await_loaded |-> {"loaded", "exit"}]
Reload == [await_ready |-> "reload_ready", await_loaded |-> "reload_loaded"]

MonitorSleep ==
  /\ mon \in DOMAIN Awaited /\ state[Cur] \cap Awaited[mon] = {}
  /\ mon' = Reload[mon]
  /\ asleep' = IF boot_state[Cur] \cap Awaited[mon] = {} THEN asleep \union {Monitor} ELSE asleep
  /\ UNCHANGED <<avail, boot_state, current_boot_cue, medium, state, chosen, overridden,
                 pc, curr, datavars, devvars, board, main>>

MonitorReload ==
  /\ mon \in {"reload_ready", "reload_loaded"} /\ Monitor \notin asleep
  /\ mon' = IF mon = "reload_ready" THEN "await_ready" ELSE "await_loaded"
  /\ state' = boot_state
  /\ UNCHANGED <<avail, boot_state, current_boot_cue, asleep, medium, chosen, overridden,
                 pc, curr, datavars, devvars, board, main>>

\* mutant: the exit bit is looked at first
Failed_ExitFirst == mon \in DOMAIN Awaited /\ "exit" \in state[Cur]

\* the medium gave up, before or after its cue: go on to the next
Failed == \/ mon = "await_ready" /\ "exit" \in state[Cur]
          \/ mon = "await_loaded" /\ "exit" \in state[Cur] /\ "loaded" \notin state[Cur]

MonitorFailed ==
  /\ Failed
  /\ mon' = "next" /\ medium' = medium + 1
  /\ UNCHANGED <<avail, boot_state, current_boot_cue, asleep, state, chosen, overridden,
                 pc, curr, datavars, devvars, board, main>>

MonitorCue ==
  /\ mon = "await_ready" /\ "ready" \in state[Cur] /\ "exit" \notin state[Cur]
  /\ current_boot_cue' = Cur
  /\ mon' = "cue_wake"
  /\ UNCHANGED <<avail, boot_state, asleep, medium, state, chosen, overridden,
                 pc, curr, datavars, devvars, board, main>>

\* sched_queue_list of boot_cue_waiters, after either store to current_boot_cue
MonitorWake ==
  /\ mon \in {"cue_wake", "exit_wake"}
  /\ asleep' = asleep \ Medium
  /\ mon' = IF mon = "cue_wake" THEN "await_loaded" ELSE "board"
  /\ UNCHANGED <<avail, boot_state, current_boot_cue, medium, state, chosen, overridden,
                 pc, curr, datavars, devvars, board, main>>

\* available_boot_media >> 1 >> boot_medium # 0: bit 4*(i-1) is medium i's, and
\* the shift is by medium, not by four times as much
Overridable == \E i \in DOMAIN Order : Order[i] \in avail /\ 4 * (i - 1) >= 1 + (medium - 1)

\* the payload is there: 500 ms later the power button decides
MonitorLoaded(pressed) ==
  /\ mon = "await_loaded" /\ "loaded" \in state[Cur]
  /\ IF pressed /\ Overridable
       THEN /\ mon' = "next" /\ medium' = medium + 1
            /\ overridden' = overridden \union {Cur}
            /\ UNCHANGED chosen
       ELSE /\ mon' = "commit_cue" /\ chosen' = Cur
            /\ UNCHANGED <<medium, overridden>>
  /\ UNCHANGED <<avail, boot_state, current_boot_cue, asleep, state,
                 pc, curr, datavars, devvars, board, main>>

MonitorExitCue ==
  /\ mon = "commit_cue"
  /\ current_boot_cue' = "exit"
  /\ mon' = "exit_wake"
  /\ UNCHANGED <<avail, boot_state, asleep, medium, state, chosen, overridden,
                 pc, curr, datavars, devvars, board, main>>

\* the loop at out: it waits for the board on boot_state and boot_monitors
MonitorBoard ==
  /\ mon = "board" /\ Monitor \notin asleep
  /\ IF board = "unknown"
       THEN /\ asleep' = IF \A m \in Medium : boot_state[m] = {} THEN asleep \union {Monitor} ELSE asleep
            /\ UNCHANGED mon
       ELSE mon' = "dead" /\ UNCHANGED asleep
  /\ UNCHANGED <<avail, boot_state, current_boot_cue, medium, state, chosen, overridden,
                 pc, curr, datavars, devvars, board, main>>

MonitorStep == \/ MonitorStart \/ UseEmbedded \/ MonitorNext \/ MonitorSleep \/ MonitorReload
               \/ MonitorFailed \/ MonitorCue \/ MonitorWake \/ MonitorExitCue \/ MonitorBoard
               \/ \E pressed \in BOOLEAN : MonitorLoaded(pressed)

-----------------------------------------------------------------------------
(* The media threads.                                                      *)

Goto(m, l) == pc' = [pc EXCEPT ![m] = l]
monitorvars == <<avail, current_boot_cue, monvars, board, main>>

\* boot_sd, boot_emmc, boot_nvme up to wait_for_boot_cue: the device works, is
\* given up, or is shut down after a failure
InitDevice(m) ==
  /\ pc[m] = "init"
  /\ \/ m # "NVME" /\ Goto(m, "ready") /\ UNCHANGED ns
     \/ m = "NVME" /\ Goto(m, "identify") /\ ns' \in 1..MaxNs
     \/ Goto(m, "exit") /\ UNCHANGED ns
     \/ Goto(m, "shutdown") /\ UNCHANGED ns
  /\ UNCHANGED <<monitorvars, boot_state, asleep, curr, datavars, reading, broken>>

IdentifyNamespace ==
  /\ pc["NVME"] = "identify"
  /\ Goto("NVME", "ready") \/ Goto("NVME", "shutdown")
  /\ UNCHANGED <<monitorvars, boot_state, asleep, curr, datavars, devvars>>

\* atomic_fetch_or of a bit of boot_state, and the wake of the monitor after it
SetBit(m, bit, from, to) ==
  /\ pc[m] = from
  /\ boot_state' = [boot_state EXCEPT ![m] = @ \union {bit}]
  /\ Goto(m, to)
  /\ UNCHANGED <<monitorvars, asleep, curr, datavars, devvars>>

WakeMonitor(m, from, to) ==
  /\ pc[m] = from
  /\ asleep' = asleep \ {Monitor}
  /\ Goto(m, to)
  /\ UNCHANGED <<monitorvars, boot_state, curr, datavars, devvars>>

\* mutant: any cue is taken for one's own
CueSeen_Any(m) ==
  /\ pc[m] = "cue" /\ m \notin asleep /\ current_boot_cue \notin {"none", "exit"}
  /\ Goto(m, IF m = "SPI" THEN "flash" ELSE "table")
  /\ UNCHANGED <<monitorvars, boot_state, asleep, curr, datavars, devvars>>

\* wait_for_boot_cue: the loop
CueSeen(m) ==
  /\ pc[m] = "cue" /\ m \notin asleep /\ current_boot_cue = m
  /\ Goto(m, IF m = "SPI" THEN "flash" ELSE "table")
  /\ UNCHANGED <<monitorvars, boot_state, asleep, curr, datavars, devvars>>

CueExit(m) ==
  /\ pc[m] = "cue" /\ m \notin asleep /\ current_boot_cue = "exit"
  /\ Goto(m, IF m = "NVME" THEN "shutdown" ELSE "exit")
  /\ UNCHANGED <<monitorvars, boot_state, asleep, curr, datavars, devvars>>

CueOther(m) ==
  /\ pc[m] = "cue" /\ m \notin asleep /\ current_boot_cue \notin {m, "exit"}
  /\ curr' = [curr EXCEPT ![m] = current_boot_cue]
  /\ Goto(m, "cue_sleep")
  /\ UNCHANGED <<monitorvars, boot_state, asleep, datavars, devvars>>

CueSleep(m) ==
  /\ pc[m] = "cue_sleep"
  /\ asleep' = IF current_boot_cue = curr[m] THEN asleep \union {m} ELSE asleep
  /\ curr' = [curr EXCEPT ![m] = "none"]
  /\ Goto(m, "cue")
  /\ UNCHANGED <<monitorvars, boot_state, datavars, devvars>>

\* what boot_sd, boot_emmc and boot_nvme do with the status of boot_blockdev, and
\* boot_spi with that of decompress_payload
AfterFailure(m, st) == IF m = "SPI" THEN "end_read"
                       ELSE IF st = "GLOBAL" THEN "shutdown"
                       ELSE IF m = "SD" THEN "exit" ELSE IF m = "EMMC" THEN "abort" ELSE "next_ns"
AfterLoaded(m) == IF m \in {"SD", "SPI"} THEN "end_read" ELSE IF m = "EMMC" THEN "abort" ELSE "shutdown"
FaultOf(m, st) == IF st = "GLOBAL" THEN {m} ELSE {}

\* boot_blockdev up to decompress_payload fails
TableFails(m, st) ==
  /\ pc[m] = "table"
  /\ broken' = broken \union FaultOf(m, st)
  /\ Goto(m, AfterFailure(m, st))
  /\ UNCHANGED <<monitorvars, boot_state, asleep, curr, datavars, reading, ns>>

\* start of the read into blob_buffer; decompress_payload resets the descriptor.
\* A request left over from the previous namespace makes every pump fail.
StartPayload(m) ==
  /\ pc[m] \in {"table", "flash"} /\ m \notin reading
  /\ reading' = reading \union {m} /\ blob' = m
  /\ desc' = [p \in Part |-> None]
  /\ Goto(m, "payload")
  /\ UNCHANGED <<monitorvars, boot_state, asleep, curr, buffer, part, broken, ns>>

\* A request or the flash read ends by itself.  pump starts the next request
\* before it returns, so one may be left when the payload is complete or bad.
ReadEnds(m) ==
  /\ m \in reading /\ pc[m] # "payload"
  /\ reading' = reading \ {m}
  /\ UNCHANGED <<monitorvars, boot_state, asleep, pc, curr, datavars, broken, ns>>

\* such a request writes where the next medium has put its data: boot_sd leaves
\* it behind when the payload is bad (blk_sd.c:169), and every medium ends its
\* own only after the loaded bit, when a refusal may have let the next one start
StrayWrite(w) ==
  /\ w \in reading
  /\ \E m \in Medium \ {w} : pc[m] = "payload"
  /\ blob' = Mixed
  /\ UNCHANGED <<monitorvars, boot_state, asleep, pc, curr, buffer, desc, part, devvars>>

\* mutant: the end of the last part is not recorded
Decompress_NoEnd(m) ==
  /\ pc[m] = "payload"
  /\ \E from \in {m, blob} : buffer' = [buffer EXCEPT ![part[m]] = from]
  /\ IF part[m] < NumParts
       THEN /\ part' = [part EXCEPT ![m] = @ + 1]
            /\ desc' = [desc EXCEPT ![part[m]] = m]
            /\ UNCHANGED pc
       ELSE Goto(m, "loaded") /\ part' = [part EXCEPT ![m] = 1] /\ UNCHANGED desc
  /\ UNCHANGED <<monitorvars, boot_state, asleep, curr, blob, devvars>>

\* overwritten bytes of blob_buffer may lie outside the frame or change the
\* data without making the frame bad
Decompress(m) ==
  /\ pc[m] = "payload"
  /\ \E from \in {m, blob} : buffer' = [buffer EXCEPT ![part[m]] = from]
  /\ desc' = [desc EXCEPT ![part[m]] = m]
  /\ IF part[m] < NumParts
       THEN part' = [part EXCEPT ![m] = @ + 1] /\ UNCHANGED pc
       ELSE Goto(m, "loaded") /\ part' = [part EXCEPT ![m] = 1]
  /\ UNCHANGED <<monitorvars, boot_state, asleep, curr, blob, devvars>>

\* decompress fails on bad data or on the status of a read; boot_blockdev
\* returns IOST_INVALID for either
DecompressFails(m, st) ==
  /\ pc[m] = "payload"
  /\ m = "SPI" => st = "INVALID"
  /\ buffer' \in {buffer, [buffer EXCEPT ![part[m]] = Partial]}
  /\ part' = [part EXCEPT ![m] = 1]
  /\ reading' \in {reading, reading \ {m}}
  /\ broken' = broken \union FaultOf(m, st)
  /\ Goto(m, AfterFailure(m, "INVALID"))
  /\ UNCHANGED <<monitorvars, boot_state, asleep, curr, desc, blob, ns>>

\* mutant: the same namespace is tried again
NextNamespace_Same ==
  /\ pc["NVME"] = "next_ns"
  /\ Goto("NVME", "identify")
  /\ UNCHANGED <<monitorvars, boot_state, asleep, curr, datavars, devvars>>

NextNamespace ==
  /\ pc["NVME"] = "next_ns"
  /\ IF ns > 1 THEN ns' = ns - 1 /\ Goto("NVME", "identify")
               ELSE Goto("NVME", "shutdown") /\ UNCHANGED ns
  /\ UNCHANGED <<monitorvars, boot_state, asleep, curr, datavars, reading, broken>>

\* mutant: the abort does not look at the error bits of int_st
AbortEmmc_IgnoresErrors ==
  /\ pc["EMMC"] = "abort"
  /\ reading' = reading \ {"EMMC"}
  /\ Goto("EMMC", "exit") \/ Goto("EMMC", "shutdown")
  /\ UNCHANGED <<monitorvars, boot_state, asleep, curr, datavars, broken, ns>>

\* sdhci_try_abort; the error bits of int_st are sticky, and it fails on them
AbortEmmc ==
  /\ pc["EMMC"] = "abort"
  /\ \/ "EMMC" \notin broken /\ Goto("EMMC", "exit") /\ reading' = reading \ {"EMMC"}
     \/ Goto("EMMC", "shutdown") /\ UNCHANGED reading
  /\ UNCHANGED <<monitorvars, boot_state, asleep, curr, datavars, broken, ns>>

\* boot_sd after a success: dwmmc_wait_xfer for the request that is left
AwaitSd ==
  /\ pc["SD"] = "end_read" /\ "SD" \notin reading
  /\ Goto("SD", "exit")
  /\ UNCHANGED <<monitorvars, boot_state, asleep, curr, datavars, devvars>>

\* rkspi_end_irq_flash_read
EndFlashRead ==
  /\ pc["SPI"] = "end_read"
  /\ reading' = reading \ {"SPI"}
  /\ Goto("SPI", "exit")
  /\ UNCHANGED <<monitorvars, boot_state, asleep, curr, datavars, broken, ns>>

\* the clocks are gated, the PHY is stopped or the controller is reset
ShutDown(m) ==
  /\ pc[m] = "shutdown"
  /\ broken' = broken \ {m} /\ reading' = reading \ {m}
  /\ Goto(m, "exit")
  /\ ns' = IF m = "NVME" THEN 0 ELSE ns
  /\ UNCHANGED <<monitorvars, boot_state, asleep, curr, datavars>>

MediumStep(m) ==
  \/ InitDevice(m)
  \/ SetBit(m, "ready", "ready", "ready_wake") \/ WakeMonitor(m, "ready_wake", "cue")
  \/ CueSeen(m) \/ CueExit(m) \/ CueOther(m) \/ CueSleep(m)
  \/ StartPayload(m) \/ Decompress(m)
  \/ \E st \in Failure : TableFails(m, st) \/ DecompressFails(m, st)
  \/ SetBit(m, "loaded", "loaded", "loaded_wake") \/ WakeMonitor(m, "loaded_wake", AfterLoaded(m))
  \/ ShutDown(m)
  \/ SetBit(m, "exit", "exit", "exit_wake") \/ WakeMonitor(m, "exit_wake", "dead")
  \/ m = "NVME" /\ (IdentifyNamespace \/ NextNamespace)
  \/ m = "SD" /\ AwaitSd
  \/ m = "EMMC" /\ AbortEmmc
  \/ m = "SPI" /\ EndFlashRead

-----------------------------------------------------------------------------
(* The board probe thread, and main() after the last thread has returned.  *)

ProbeBoard ==
  /\ board \in {"unknown", "known"}
  /\ board' = IF board = "unknown" THEN "known" ELSE "dead"
  /\ UNCHANGED <<avail, boot_state, current_boot_cue, asleep, monvars, pc, curr,
                 datavars, devvars, main>>

AllDead == mon = "dead" /\ board = "dead" /\ \A m \in Medium : pc[m] = "dead"

Commit ==
  /\ main = "run" /\ AllDead
  /\ main' = "commit"
  /\ UNCHANGED <<avail, boot_state, current_boot_cue, asleep, monvars, pc, curr,
                 datavars, devvars, board>>

\* commit() starts BL31; after die() the monitor spins and the rest sleeps
Ended == main = "commit" \/ mon = "die"

Next == \/ MonitorStep \/ ProbeBoard \/ Commit
        \/ \E m \in Medium : MediumStep(m) \/ ReadEnds(m) \/ StrayWrite(m)
        \/ Ended /\ UNCHANGED vars

Spec == Init /\ [][Next]_vars

(* Every runnable thread gets the CPU (Sched, property NoStarvation), and  *)
(* every device operation ends, with a status if not with data.            *)
Fairness == /\ WF_vars(MonitorStep) /\ WF_vars(ProbeBoard) /\ WF_vars(Commit)
            /\ \A m \in Medium : WF_vars(MediumStep(m)) /\ WF_vars(ReadEnds(m))

FairSpec == Spec /\ Fairness

-----------------------------------------------------------------------------
Bit == {"exit", "ready", "loaded"}
Cue == Medium \union {"none", "exit"}
Owner == Medium \union {None, Partial, Usb, Mixed}

(* Types.                                                                  *)
TypeOK ==
  /\ avail \in SUBSET Medium
  /\ boot_state \in [Medium -> SUBSET Bit] /\ state \in [Medium -> SUBSET Bit]
  /\ current_boot_cue \in Cue /\ curr \in [Medium -> Cue]
  /\ asleep \in SUBSET (Medium \union {Monitor})
  /\ mon \in {"start", "next", "await_ready", "reload_ready", "cue_wake", "await_loaded",
              "reload_loaded", "commit_cue", "exit_wake", "board", "die", "dead"}
  /\ medium \in 1..(Len(Order) + 1)
  /\ mon \notin {"start", "next", "die", "board", "dead"} => medium <= Len(Order) /\ Cur \in avail
  /\ chosen \in Medium \union {None, Usb} /\ overridden \in SUBSET Medium
  /\ pc \in [Medium -> {"init", "identify", "ready", "ready_wake", "cue", "cue_sleep", "table",
                        "flash", "payload", "loaded", "loaded_wake", "next_ns", "abort",
                        "end_read", "shutdown", "exit", "exit_wake", "dead"}]
  /\ part \in [Medium -> Part] /\ ns \in 0..MaxNs
  /\ blob \in Owner /\ buffer \in [Part -> Owner] /\ desc \in [Part -> Owner]
  /\ reading \in SUBSET Medium /\ broken \in SUBSET Medium
  /\ board \in {"unknown", "known", "dead"} /\ main \in {"run", "commit"}

(* The partition table buffer, blob_buffer, the decompressor's state and   *)
(* the payload buffers are used by one thread at a time, the one that is   *)
(* cued (the rule of dramstage.h:28): no medium goes on using them after   *)
(* the monitor has cued another one or has told everybody to exit.         *)
InUse(m) == pc[m] \in {"table", "flash", "payload"}
CuedOnly == \A m \in Medium : InUse(m) => current_boot_cue = m

(* From the moment the monitor accepts a payload, all its parts and their  *)
(* ends in payload_descriptor come from the one accepted medium: nothing   *)
(* is left of a payload that was refused or failed halfway, and no thread  *)
(* that is still winding down touches it (main.c:248, 344).  One thing can *)
(* spoil a part: a request that an earlier medium has left behind writes   *)
(* into blob_buffer while the accepted one decompresses.  That takes an    *)
(* SD card that was tried before, or a payload that the user refused: the  *)
(* request of an eMMC or NVMe device whose payload was bad is stopped      *)
(* before the next medium is cued.                                         *)
PassedOver == {Order[i] : i \in {j \in DOMAIN Order : j < medium}} \cap avail
LeftBehind == {m \in PassedOver : m = "SD" \/ m \in overridden}
PayloadIntact ==
  chosen # None =>
    \A p \in Part : desc[p] = chosen /\ (buffer[p] = chosen \/ (buffer[p] = Mixed /\ LeftBehind # {}))

(* When commit() runs no driver writes memory any more, whatever became of *)
(* the attempts before (main.c:344): each thread stops its device before   *)
(* it returns.  Only boot_sd does not, when the payload was bad: pump has  *)
(* started the next request (blk_sd.c:101) and nobody waits for it.        *)
CommitQuiet == main = "commit" => reading \subseteq {"SD"}

(* The buffers have one owner: the cued thread while media are tried, and  *)
(* commit() in the end, with the exception above.                          *)
BuffersOwned == TypeOK /\ CuedOnly /\ CommitQuiet

(* Without user intervention the first payload in the boot order that can  *)
(* be loaded is taken (README.rst:183): a medium is only passed over when  *)
(* it gave up without a payload or when the user refused its payload with  *)
(* the power button.                                                       *)
FirstPayloadWins ==
  \A m \in PassedOver : m \in overridden \/ ("exit" \in boot_state[m] /\ "loaded" \notin boot_state[m])

(* "This can be prevented for all except the last configured boot medium   *)
(* by holding the power button" (README.rst:184): when a payload is        *)
(* refused there is a configured medium after it.  The code shifts         *)
(* available_boot_media, which has four bits for each medium, by one for   *)
(* each (main.c:244), and any medium but SD can be refused as the last.    *)
LastIsKept ==
  \A i \in DOMAIN Order : Order[i] \in overridden => \E j \in DOMAIN Order : j > i /\ Order[j] \in avail

(* A device with a global fault ("may be in a completely broken state",    *)
(* iost.h:9) is shut down before its thread reports that it has finished.  *)
FaultShutDown(m) == m \in broken => "exit" \notin boot_state[m]

(* It holds of eMMC, whose abort fails on the sticky error bits            *)
(* (sdhci_common.c:46), and of NVMe, which always ends in nvme_reset,      *)
(* although boot_blockdev.c:154 hides the fault from both.                 *)
FaultsContained == FaultShutDown("EMMC") /\ FaultShutDown("NVME")

(* dramstage comes to an end: a payload is committed or the monitor says   *)
(* that there is none.  No thread sleeps through its cue or the exit cue,  *)
(* and the monitor's wait for the board, which is on boot_state and not on *)
(* the variable it is about (main.c:261), does not put it to sleep.        *)
Decides == <>Ended
=============================================================================
