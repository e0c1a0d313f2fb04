----------------------------- MODULE BootProofs -----------------------------
(* The boot protocol for any set of configurations, any number of parts of *)
(* a payload and any number of namespaces.                                 *)
(*                                                                         *)
(* None of the properties is inductive by itself.  What makes them hold is *)
(* an order of events: a medium uses the buffers only between its cue and  *)
(* its loaded or exit bit, and the monitor moves the cue only after it has *)
(* seen one of these bits.  First come the invariant and the steps of the  *)
(* media's threads, then the monitor's and the theorems.                   *)
EXTENDS Boot, TLAPS

\* time limits of the provers
USE SMTT(30), ZenonT(40)

Over == {"loaded", "exit"}          \* the bits after which a medium is done
Awaiting == {"cue_wake", "await_loaded", "reload_loaded"}
Committed == {"commit_cue", "exit_wake", "board", "dead"}

\* The bits of boot_state follow the place of the thread, and the monitor's
\* copy follows them.
Bits ==
  /\ \A m \in Medium \ avail : pc[m] = "dead"
  /\ \A m \in Medium : state[m] \subseteq boot_state[m]
  /\ \A m \in Medium : "exit" \in boot_state[m] => pc[m] \in {"exit_wake", "dead"}
  /\ \A m \in Medium : "loaded" \in boot_state[m] =>
       pc[m] \in {"loaded_wake", "abort", "shutdown", "end_read", "exit", "exit_wake", "dead"}
  /\ \A m \in Medium : "exit" \in state[m] /\ "loaded" \notin state[m] => "loaded" \notin boot_state[m]

\* A medium that is not done yet is only given up by the monitor when it is done.
Cues ==
  /\ \A m \in Medium : InUse(m) \/ pc[m] = "loaded" =>
       current_boot_cue = m /\ boot_state[m] \cap Over = {}
  /\ current_boot_cue \in Medium /\ boot_state[current_boot_cue] \cap Over = {} => mon \in Awaiting
  /\ mon \in Awaiting => current_boot_cue = Cur

\* Whose data is in memory.
\* (perhaps spoilt, when a request can have been left behind)
Left == LeftBehind # {}
Has(p, m) == desc[p] = m /\ (buffer[p] = m \/ (buffer[p] = Mixed /\ Left))
Holds(m) == \A p \in Part : Has(p, m)
Data ==
  /\ blob = Mixed => Left
  /\ \A m \in Medium : pc[m] = "payload" => blob \in {m, Mixed}
  /\ \A m \in Medium : pc[m] = "payload" => \A p \in 1..(part[m] - 1) : Has(p, m)
  /\ \A m \in Medium : pc[m] # "payload" => part[m] = 1
  /\ \A m \in Medium : pc[m] = "loaded" => Holds(m)
  /\ \A m \in Medium : "loaded" \in boot_state[m] /\ current_boot_cue = m => Holds(m)
  /\ chosen \in Medium => /\ Holds(chosen) /\ "loaded" \in boot_state[chosen]
                          /\ current_boot_cue \in {chosen, "exit"}
  /\ chosen = Usb => Holds(Usb) /\ avail = {}
  /\ chosen # None => mon \in Committed

\* Media that the monitor has not come to, or has not cued, have loaded nothing
\* and read nothing.
NotYet(j) == j > medium \/ (j = medium /\ mon \in {"start", "next", "await_ready", "reload_ready"})
InOrder ==
  /\ \A j \in DOMAIN Order : NotYet(j) => /\ "loaded" \notin boot_state[Order[j]] /\ current_boot_cue # Order[j]
                                          /\ Order[j] \notin reading
  /\ mon = "start" => medium = 1
  /\ FirstPayloadWins

\* Which threads can have a transfer going or a broken device.
Devices ==
  /\ reading \subseteq avail
  /\ "EMMC" \in reading => pc["EMMC"] \in {"payload", "loaded", "loaded_wake", "abort", "shutdown"}
  /\ "SPI" \in reading => pc["SPI"] \in {"payload", "loaded", "loaded_wake", "end_read"}
  /\ "NVME" \in reading \union broken => pc["NVME"] \notin {"init", "exit", "exit_wake", "dead"}
  /\ "EMMC" \in broken => pc["EMMC"] \in {"abort", "shutdown"}
  /\ main = "commit" => AllDead

IInv == TypeOK /\ Bits /\ Cues /\ Data /\ InOrder /\ Devices

-----------------------------------------------------------------------------
\* The boot order.
LEMMA OrderFacts ==
  /\ Len(Order) = 4 /\ DOMAIN Order = 1..4
  /\ Order[1] = "SD" /\ Order[2] = "EMMC" /\ Order[3] = "NVME" /\ Order[4] = "SPI"
  /\ \A j \in 1..4 : Order[j] \in Medium
  BY DEF Order, Medium

\* What a medium's thread never touches.
LEMMA MediumFrame ==
  ASSUME NEW m \in Medium, MediumStep(m)
  PROVE  UNCHANGED monitorvars
  BY ZenonT(40) DEF MediumStep, InitDevice, SetBit, WakeMonitor, CueSeen, CueExit, CueOther, CueSleep,
         StartPayload, Decompress, TableFails, DecompressFails, ShutDown, IdentifyNamespace,
         NextNamespace, AwaitSd, AbortEmmc, EndFlashRead

Pcs == {"init", "identify", "ready", "ready_wake", "cue", "cue_sleep", "table",
        "flash", "payload", "loaded", "loaded_wake", "next_ns", "abort",
        "end_read", "shutdown", "exit", "exit_wake", "dead"}

\* Which steps of a medium's thread touch the payload.
LEMMA DataSteps ==
  ASSUME NEW m \in Medium, MediumStep(m)
  PROVE  \/ UNCHANGED <<buffer, desc, part, blob>>
         \/ StartPayload(m) \/ Decompress(m) \/ \E st \in Failure : DecompressFails(m, st)
  BY ZenonT(40) DEF MediumStep, InitDevice, SetBit, WakeMonitor, CueSeen, CueExit, CueOther, CueSleep,
         TableFails, ShutDown, IdentifyNamespace, NextNamespace, AwaitSd, AbortEmmc, EndFlashRead,
         datavars

\* What becomes of the namespaces in a step of a medium's thread.
LEMMA NsSteps ==
  ASSUME NEW m \in Medium, MediumStep(m)
  PROVE  \/ ns' \in {0, ns} \/ ns' \in 1..MaxNs \/ (ns > 1 /\ ns' = ns - 1)
  BY ZenonT(40) DEF MediumStep, InitDevice, SetBit, WakeMonitor, CueSeen, CueExit, CueOther, CueSleep,
         StartPayload, Decompress, TableFails, DecompressFails, ShutDown, IdentifyNamespace,
         NextNamespace, AwaitSd, AbortEmmc, EndFlashRead, devvars

Ending == {"loaded_wake", "abort", "shutdown", "end_read", "exit", "exit_wake", "dead"}

\* The way of a thread through its boot_* function: from where to where it goes,
\* with which bit set and with what becoming of its device.
Still(m) == boot_state'[m] = boot_state[m] /\ reading' = reading /\ broken' = broken
Sets(m, bit) == boot_state'[m] = boot_state[m] \union {bit} /\ reading' = reading /\ broken' = broken

Edge(m) ==
  \/ pc[m] = "init" /\ pc'[m] \in {"ready", "identify", "exit", "shutdown"} /\ Still(m)
  \/ pc[m] = "ready" /\ pc'[m] = "ready_wake" /\ Sets(m, "ready")
  \/ pc[m] = "ready_wake" /\ pc'[m] = "cue" /\ Still(m)
  \/ pc[m] = "cue" /\ pc'[m] \in {"table", "flash"} /\ current_boot_cue = m /\ Still(m)
  \/ pc[m] = "cue" /\ pc'[m] = (IF m = "NVME" THEN "shutdown" ELSE "exit") /\ Still(m)
  \/ pc[m] = "cue" /\ pc'[m] = "cue_sleep" /\ Still(m)
  \/ pc[m] = "cue_sleep" /\ pc'[m] = "cue" /\ Still(m)
  \/ /\ pc[m] \in {"table", "flash"} /\ StartPayload(m) /\ pc'[m] = "payload" /\ boot_state'[m] = boot_state[m]
     /\ reading' = reading \union {m} /\ broken' = broken
  \/ pc[m] = "payload" /\ Decompress(m) /\ pc'[m] \in {"payload", "loaded"} /\ Still(m)
  \/ /\ pc[m] = "table" /\ boot_state'[m] = boot_state[m] /\ reading' = reading
     /\ \E st \in Failure : pc'[m] = AfterFailure(m, st) /\ broken' = broken \union FaultOf(m, st)
  \/ /\ pc[m] = "payload" /\ pc'[m] = AfterFailure(m, "INVALID") /\ boot_state'[m] = boot_state[m]
     /\ reading' \in {reading, reading \ {m}} /\ broken' \in {broken, broken \union {m}}
  \/ pc[m] = "loaded" /\ pc'[m] = "loaded_wake" /\ Sets(m, "loaded")
  \/ pc[m] = "loaded_wake" /\ pc'[m] = AfterLoaded(m) /\ Still(m)
  \/ /\ pc[m] = "shutdown" /\ pc'[m] = "exit" /\ boot_state'[m] = boot_state[m]
     /\ reading' = reading \ {m} /\ broken' = broken \ {m}
  \/ pc[m] = "exit" /\ pc'[m] = "exit_wake" /\ Sets(m, "exit")
  \/ pc[m] = "exit_wake" /\ pc'[m] = "dead" /\ Still(m)
  \/ pc[m] = "identify" /\ pc'[m] \in {"ready", "shutdown"} /\ Still(m)
  \/ pc[m] = "next_ns" /\ pc'[m] \in {"identify", "shutdown"} /\ Still(m)
  \/ pc[m] = "end_read" /\ pc'[m] = "exit" /\ m = "SD" /\ Still(m)
  \/ /\ pc[m] = "abort" /\ m = "EMMC" /\ boot_state'[m] = boot_state[m] /\ broken' = broken
     /\ \/ m \notin broken /\ pc'[m] = "exit" /\ reading' = reading \ {m}
        \/ pc'[m] = "shutdown" /\ reading' = reading
  \/ /\ pc[m] = "end_read" /\ pc'[m] = "exit" /\ m = "SPI" /\ boot_state'[m] = boot_state[m]
     /\ reading' = reading \ {m} /\ broken' = broken

\* Every step of a thread is an edge of its way.
LEMMA MediumEdge ==
  ASSUME TypeOK, NEW m \in Medium, MediumStep(m)
  PROVE  Edge(m)
<1>0. pc \in [Medium -> Pcs] /\ boot_state \in [Medium -> SUBSET Bit]
  BY DEF TypeOK, Pcs
<1>. USE <1>0
<1>1. CASE InitDevice(m)
  BY <1>1, ZenonT(40) DEF InitDevice, Goto, devvars, Edge, Still, Sets
<1>2. CASE SetBit(m, "ready", "ready", "ready_wake")
  BY <1>2, ZenonT(40) DEF SetBit, Goto, devvars, Edge, Still, Sets
<1>3. CASE WakeMonitor(m, "ready_wake", "cue")
  BY <1>3, ZenonT(40) DEF WakeMonitor, Goto, devvars, Edge, Still, Sets
<1>4. CASE CueSeen(m)
  BY <1>4, ZenonT(40) DEF CueSeen, Goto, devvars, Edge, Still, Sets
<1>5. CASE CueExit(m)
  BY <1>5, ZenonT(40) DEF CueExit, Goto, devvars, Edge, Still, Sets
<1>6. CASE CueOther(m)
  BY <1>6, ZenonT(40) DEF CueOther, Goto, devvars, Edge, Still, Sets
<1>7. CASE CueSleep(m)
  BY <1>7, ZenonT(40) DEF CueSleep, Goto, devvars, Edge, Still, Sets
<1>8. CASE StartPayload(m)
  BY <1>8, ZenonT(40) DEF StartPayload, Goto, devvars, Edge, Still, Sets
<1>9. CASE Decompress(m)
  BY <1>9, ZenonT(40) DEF Decompress, Goto, devvars, Edge, Still, Sets
<1>10. CASE \E st \in Failure : TableFails(m, st)
  BY <1>10, ZenonT(40) DEF TableFails, Failure, AfterFailure, FaultOf, Goto, devvars, Edge, Still, Sets
<1>11. CASE \E st \in Failure : DecompressFails(m, st)
  <2>1. PICK st \in Failure : DecompressFails(m, st) BY <1>11
  <2>2. /\ pc[m] = "payload" /\ pc' = [pc EXCEPT ![m] = AfterFailure(m, "INVALID")] /\ boot_state' = boot_state
        /\ reading' \in {reading, reading \ {m}} /\ broken' = broken \union FaultOf(m, st)
    BY <2>1, ZenonT(40) DEF DecompressFails, Goto
  <2>3. pc'[m] = AfterFailure(m, "INVALID") /\ boot_state'[m] = boot_state[m] BY <2>2
  <2>4. broken' \in {broken, broken \union {m}} BY <2>2 DEF FaultOf
  <2>. QED BY <2>2, <2>3, <2>4, ZenonT(40) DEF Edge
<1>12. CASE SetBit(m, "loaded", "loaded", "loaded_wake")
  BY <1>12, ZenonT(40) DEF SetBit, Goto, devvars, Edge, Still, Sets
<1>13. CASE WakeMonitor(m, "loaded_wake", AfterLoaded(m))
  BY <1>13, ZenonT(40) DEF WakeMonitor, AfterLoaded, Goto, devvars, Edge, Still, Sets
<1>14. CASE ShutDown(m)
  BY <1>14, ZenonT(40) DEF ShutDown, Goto, devvars, Edge, Still, Sets
<1>15. CASE SetBit(m, "exit", "exit", "exit_wake")
  BY <1>15, ZenonT(40) DEF SetBit, Goto, devvars, Edge, Still, Sets
<1>16. CASE WakeMonitor(m, "exit_wake", "dead")
  BY <1>16, ZenonT(40) DEF WakeMonitor, Goto, devvars, Edge, Still, Sets
<1>17. CASE m = "NVME" /\ IdentifyNamespace
  BY <1>17, ZenonT(40) DEF IdentifyNamespace, Goto, devvars, Edge, Still, Sets
<1>18. CASE m = "NVME" /\ NextNamespace
  BY <1>18, ZenonT(40) DEF NextNamespace, Goto, devvars, Edge, Still, Sets
<1>19. CASE m = "SD" /\ AwaitSd
  BY <1>19, ZenonT(40) DEF AwaitSd, Goto, devvars, Edge, Still, Sets
<1>20. CASE m = "EMMC" /\ AbortEmmc
  BY <1>20, ZenonT(40) DEF AbortEmmc, Goto, devvars, Edge, Still, Sets
<1>21. CASE m = "SPI" /\ EndFlashRead
  BY <1>21, ZenonT(40) DEF EndFlashRead, Goto, devvars, Edge, Still, Sets
<1>. QED BY <1>1, <1>2, <1>3, <1>4, <1>5, <1>6, <1>7, <1>8, <1>9, <1>10, <1>11, <1>12, <1>13, <1>14, <1>15, <1>16, <1>17, <1>18, <1>19, <1>20, <1>21 DEF MediumStep

\* A step of a thread moves this thread only.
LEMMA MediumMaps ==
  ASSUME TypeOK, NEW m \in Medium, MediumStep(m)
  PROVE  /\ pc' \in [Medium -> Pcs] /\ boot_state' \in [Medium -> SUBSET Bit]
         /\ \A n \in Medium \ {m} : pc'[n] = pc[n] /\ boot_state'[n] = boot_state[n]
<1>0. pc \in [Medium -> Pcs] /\ boot_state \in [Medium -> SUBSET Bit]
  BY DEF TypeOK, Pcs
<1>. USE <1>0
<1>1. CASE InitDevice(m)
  BY <1>1 DEF InitDevice, Goto, Pcs, Bit
<1>2. CASE SetBit(m, "ready", "ready", "ready_wake")
  BY <1>2 DEF SetBit, Goto, Pcs, Bit
<1>3. CASE WakeMonitor(m, "ready_wake", "cue")
  BY <1>3 DEF WakeMonitor, Goto, Pcs, Bit
<1>4. CASE CueSeen(m)
  BY <1>4 DEF CueSeen, Goto, Pcs, Bit
<1>5. CASE CueExit(m)
  BY <1>5 DEF CueExit, Goto, Pcs, Bit
<1>6. CASE CueOther(m)
  BY <1>6 DEF CueOther, Goto, Pcs, Bit
<1>7. CASE CueSleep(m)
  BY <1>7 DEF CueSleep, Goto, Pcs, Bit
<1>8. CASE StartPayload(m)
  BY <1>8 DEF StartPayload, Goto, Pcs, Bit
<1>9. CASE Decompress(m)
  BY <1>9 DEF Decompress, Goto, Pcs, Bit
<1>10. CASE \E st \in Failure : TableFails(m, st)
  BY <1>10 DEF TableFails, Failure, AfterFailure, Goto, Pcs, Bit
<1>11. CASE \E st \in Failure : DecompressFails(m, st)
  BY <1>11 DEF DecompressFails, AfterFailure, Goto, Pcs, Bit
<1>12. CASE SetBit(m, "loaded", "loaded", "loaded_wake")
  BY <1>12 DEF SetBit, Goto, Pcs, Bit
<1>13. CASE WakeMonitor(m, "loaded_wake", AfterLoaded(m))
  BY <1>13 DEF WakeMonitor, AfterLoaded, Goto, Pcs, Bit
<1>14. CASE ShutDown(m)
  BY <1>14 DEF ShutDown, Goto, Pcs, Bit
<1>15. CASE SetBit(m, "exit", "exit", "exit_wake")
  BY <1>15 DEF SetBit, Goto, Pcs, Bit
<1>16. CASE WakeMonitor(m, "exit_wake", "dead")
  BY <1>16 DEF WakeMonitor, Goto, Pcs, Bit
<1>17. CASE m = "NVME" /\ IdentifyNamespace
  BY <1>17 DEF IdentifyNamespace, Goto, Pcs, Bit
<1>18. CASE m = "NVME" /\ NextNamespace
  BY <1>18 DEF NextNamespace, Goto, Pcs, Bit
<1>19. CASE m = "SD" /\ AwaitSd
  BY <1>19 DEF AwaitSd, Goto, Pcs, Bit
<1>20. CASE m = "EMMC" /\ AbortEmmc
  BY <1>20 DEF AbortEmmc, Goto, Pcs, Bit
<1>21. CASE m = "SPI" /\ EndFlashRead
  BY <1>21 DEF EndFlashRead, Goto, Pcs, Bit
<1>. QED BY <1>1, <1>2, <1>3, <1>4, <1>5, <1>6, <1>7, <1>8, <1>9, <1>10, <1>11, <1>12, <1>13, <1>14, <1>15, <1>16, <1>17, <1>18, <1>19, <1>20, <1>21, ZenonT(40) DEF MediumStep

\* The threads of the media keep the types.
LEMMA MediumType ==
  ASSUME TypeOK, NEW m \in Medium, MediumStep(m)
  PROVE  TypeOK'
<1>1. /\ UNCHANGED <<avail, current_boot_cue, mon, medium, state, chosen, overridden, board, main>>
      /\ Cur' = Cur
  BY MediumFrame DEF monitorvars, monvars, Cur
<1>2. asleep' \in SUBSET (Medium \union {Monitor}) /\ curr' \in [Medium -> Cue]
  <2>1. /\ asleep' \in {asleep, asleep \ {Monitor}, asleep \union {m}}
        /\ \/ curr' = curr \/ curr' = [curr EXCEPT ![m] = "none"]
           \/ curr' = [curr EXCEPT ![m] = current_boot_cue]
    BY ZenonT(40) DEF MediumStep, InitDevice, SetBit, WakeMonitor, CueSeen, CueExit, CueOther, CueSleep,
         StartPayload, Decompress, TableFails, DecompressFails, ShutDown, IdentifyNamespace,
         NextNamespace, AwaitSd, AbortEmmc, EndFlashRead
  <2>. QED BY <2>1 DEF TypeOK, Cue
<1>3. pc' \in [Medium -> Pcs] /\ boot_state' \in [Medium -> SUBSET Bit]
  BY MediumMaps
<1>4. /\ buffer' \in [Part -> Owner] /\ desc' \in [Part -> Owner] /\ part' \in [Medium -> Part]
      /\ blob' \in Owner
  <2>1. /\ buffer \in [Part -> Owner] /\ desc \in [Part -> Owner] /\ part \in [Medium -> Part]
        /\ blob \in Owner
    BY DEF TypeOK
  <2>2. m \in Owner /\ None \in Owner /\ Partial \in Owner /\ 1 \in Part /\ part[m] \in Part
    BY <2>1, PartsAssumption DEF Owner, Part
  <2>3. CASE StartPayload(m)
    BY <2>1, <2>2, <2>3 DEF StartPayload
  <2>4. CASE Decompress(m)
    <3>1. part[m] < NumParts => part[m] + 1 \in Part
      BY <2>2, PartsAssumption DEF Part
    <3>. QED BY <2>1, <2>2, <2>4, <3>1 DEF Decompress
  <2>5. CASE \E st \in Failure : DecompressFails(m, st)
    BY <2>1, <2>2, <2>5 DEF DecompressFails
  <2>. QED BY <2>1, <2>3, <2>4, <2>5, DataSteps
<1>5. reading' \in SUBSET Medium /\ broken' \in SUBSET Medium
  BY MediumEdge, ZenonT(40) DEF Edge, Still, Sets, FaultOf, TypeOK
<1>6. ns' \in 0..MaxNs
  BY NsSteps, NsAssumption DEF TypeOK
<1>. QED BY <1>1, <1>2, <1>3, <1>4, <1>5, <1>6, ZenonT(40) DEF TypeOK, Pcs

-----------------------------------------------------------------------------
\* A step of a medium's thread moves this thread only.
LEMMA OthersStay ==
  ASSUME TypeOK, NEW m \in Medium, MediumStep(m), NEW n \in Medium, n # m
  PROVE  pc'[n] = pc[n] /\ boot_state'[n] = boot_state[n] /\ part'[n] = part[n]
<1>1. part'[n] = part[n]
  BY DataSteps DEF TypeOK, StartPayload, Decompress, DecompressFails
<1>. QED BY <1>1, MediumMaps

\* How a thread gets to the places that the invariant speaks of.
LEMMA Moves ==
  ASSUME TypeOK, NEW m \in Medium, MediumStep(m)
  PROVE  /\ pc'[m] = "loaded" => pc[m] = "payload" /\ Decompress(m)
         /\ pc'[m] = "payload" => InUse(m) /\ (StartPayload(m) \/ Decompress(m))
         /\ m \in reading' \ reading => InUse(m)
         /\ InUse(m)' => InUse(m) \/ (pc[m] = "cue" /\ current_boot_cue = m)
         /\ pc[m] \in Ending => pc'[m] \in Ending
         /\ pc[m] \in {"exit_wake", "dead"} => pc'[m] = "dead"
         /\ pc[m] # "dead"
<1>1. Edge(m) BY MediumEdge
<1>2. pc'[m] = "loaded" => pc[m] = "payload" /\ Decompress(m)
  BY <1>1, ZenonT(40) DEF Edge, AfterFailure, AfterLoaded
<1>3. InUse(m)' => InUse(m) \/ (pc[m] = "cue" /\ current_boot_cue = m)
  BY <1>1, ZenonT(40) DEF Edge, AfterFailure, AfterLoaded, InUse
<1>4. pc[m] \in Ending => pc'[m] \in Ending
  BY <1>1, ZenonT(40) DEF Edge, AfterLoaded, Ending
<1>5. pc[m] # "dead" /\ (pc[m] = "exit_wake" => pc'[m] = "dead")
  BY <1>1, ZenonT(40) DEF Edge
<1>6. pc'[m] = "payload" => InUse(m) /\ (StartPayload(m) \/ Decompress(m))
  BY <1>1, ZenonT(40) DEF Edge, AfterFailure, AfterLoaded, InUse
<1>7. m \in reading' \ reading => InUse(m)
  BY <1>1, ZenonT(40) DEF Edge, Still, Sets, InUse
<1>. QED BY <1>2, <1>3, <1>4, <1>5, <1>6, <1>7, ZenonT(40)

\* Which bits a thread sets, and where it is then.
LEMMA BitSteps ==
  ASSUME TypeOK, NEW m \in Medium, MediumStep(m)
  PROVE  /\ boot_state[m] \subseteq boot_state'[m]
         /\ "loaded" \in boot_state'[m] \ boot_state[m] => pc[m] = "loaded" /\ pc'[m] = "loaded_wake"
         /\ "exit" \in boot_state'[m] \ boot_state[m] => pc[m] = "exit" /\ pc'[m] = "exit_wake"
         /\ pc[m] = "loaded" => "loaded" \in boot_state'[m]
<1>1. Edge(m) BY MediumEdge
<1>2. \/ boot_state'[m] = boot_state[m] /\ pc[m] # "loaded"
      \/ boot_state'[m] = boot_state[m] \union {"ready"} /\ pc[m] = "ready"
      \/ boot_state'[m] = boot_state[m] \union {"loaded"} /\ pc[m] = "loaded" /\ pc'[m] = "loaded_wake"
      \/ boot_state'[m] = boot_state[m] \union {"exit"} /\ pc[m] = "exit" /\ pc'[m] = "exit_wake"
  BY <1>1, ZenonT(40) DEF Edge, Still, Sets
<1>. QED BY <1>2

-----------------------------------------------------------------------------
\* A thread sets its bits in order, and the monitor's copy lags behind.
LEMMA MediumBits ==
  ASSUME IInv, NEW m \in Medium, MediumStep(m)
  PROVE  Bits'
<1>1. avail' = avail /\ state' = state
  BY MediumFrame DEF monitorvars, monvars
<1>2. \A n \in Medium \ {m} : pc'[n] = pc[n] /\ boot_state'[n] = boot_state[n]
  BY OthersStay DEF IInv
<1>3. m \in avail
  BY Moves DEF IInv, Bits
<1>4. state[m] \subseteq boot_state'[m]
  BY BitSteps DEF IInv, Bits
<1>5. "exit" \in boot_state'[m] => pc'[m] \in {"exit_wake", "dead"}
  BY BitSteps, Moves, ZenonT(40) DEF IInv, Bits
<1>6. "loaded" \in boot_state'[m] => pc'[m] \in Ending
  BY BitSteps, Moves DEF IInv, Bits, Ending
<1>7. "exit" \in state[m] /\ "loaded" \notin state[m] => "loaded" \notin boot_state'[m]
  BY BitSteps DEF IInv, Bits
<1>. QED BY <1>1, <1>2, <1>3, <1>4, <1>5, <1>6, <1>7, ZenonT(40) DEF IInv, Bits, Ending

\* A thread only uses the buffers between its cue and its next bit.
LEMMA MediumCues ==
  ASSUME IInv, NEW m \in Medium, MediumStep(m)
  PROVE  Cues'
<1>1. mon' = mon /\ current_boot_cue' = current_boot_cue /\ Cur' = Cur
  BY MediumFrame DEF monitorvars, monvars, Cur
<1>2. \A n \in Medium \ {m} : pc'[n] = pc[n] /\ boot_state'[n] = boot_state[n]
  BY OthersStay DEF IInv
<1>3. InUse(m)' \/ pc'[m] = "loaded" => current_boot_cue = m /\ boot_state'[m] \cap Over = {}
  <2>. SUFFICES ASSUME InUse(m)' \/ pc'[m] = "loaded"
                PROVE  current_boot_cue = m /\ boot_state'[m] \cap Over = {}
    OBVIOUS
  <2>1. InUse(m) \/ (pc[m] = "cue" /\ current_boot_cue = m)
    BY Moves DEF IInv, InUse
  <2>2. current_boot_cue = m /\ boot_state[m] \cap Over = {}
    BY <2>1, ZenonT(40) DEF IInv, Cues, Bits, Over
  <2>3. "loaded" \notin boot_state'[m] /\ "exit" \notin boot_state'[m]
    BY <2>1, <2>2, BitSteps DEF IInv, InUse, Over
  <2>. QED BY <2>2, <2>3 DEF Over
<1>4. \A n \in Medium : boot_state'[n] \cap Over = {} => boot_state[n] \cap Over = {}
  BY <1>2, BitSteps DEF IInv
<1>. QED BY <1>1, <1>2, <1>3, <1>4 DEF IInv, Cues, InUse

\* A thread only changes the payload while it is cued and not done.
LEMMA MediumData ==
  ASSUME IInv, NEW m \in Medium, MediumStep(m)
  PROVE  Data'
<1>1. UNCHANGED <<avail, current_boot_cue, chosen, mon>> /\ Left' = Left
  BY MediumFrame, ZenonT(40) DEF monitorvars, monvars, Left, LeftBehind, PassedOver
<1>2. \A n \in Medium \ {m} : pc'[n] = pc[n] /\ boot_state'[n] = boot_state[n] /\ part'[n] = part[n]
  BY OthersStay DEF IInv
<1>3. "loaded" \in boot_state[m] => "loaded" \in boot_state'[m]
  BY BitSteps DEF IInv
<1>4. CASE UNCHANGED <<buffer, desc, part, blob>> /\ pc[m] # "payload" /\ pc'[m] # "payload"
  <2>1. pc'[m] # "loaded"
    BY <1>4, Moves, ZenonT(40) DEF IInv
  <2>2. part[m] = 1
    BY <1>4, ZenonT(40) DEF IInv, Data
  <2>3. "loaded" \in boot_state'[m] /\ current_boot_cue = m => Holds(m)
    BY BitSteps, ZenonT(40) DEF IInv, Data
  <2>4. /\ \A p, o : Has(p, o)' = Has(p, o)
        /\ \A o : Holds(o)' = Holds(o)
    BY <1>1, <1>4, ZenonT(40) DEF Holds, Has
  <2>5. Data BY DEF IInv
  <2>6. \A n \in Medium : pc'[n] = "payload" => \A p \in 1..(part'[n] - 1) : Has(p, n)'
    BY <1>2, <1>4, <2>4, <2>5, ZenonT(40) DEF Data
  <2>11. /\ blob' = Mixed => Left'
         /\ \A n \in Medium : pc'[n] = "payload" => blob' \in {n, Mixed}
    BY <1>1, <1>2, <1>4, <2>5, ZenonT(40) DEF Data
  <2>7. \A n \in Medium : pc'[n] # "payload" => part'[n] = 1
    BY <1>2, <1>4, <2>2, <2>5, ZenonT(40) DEF Data
  <2>8. \A n \in Medium : pc'[n] = "loaded" => Holds(n)'
    BY <1>2, <2>1, <2>4, <2>5 DEF Data
  <2>9. \A n \in Medium : "loaded" \in boot_state'[n] /\ current_boot_cue' = n => Holds(n)'
    BY <1>1, <1>2, <2>3, <2>4, <2>5, ZenonT(40) DEF Data
  <2>10. chosen' \in Medium => /\ Holds(chosen)' /\ "loaded" \in boot_state'[chosen']
                               /\ current_boot_cue' \in {chosen', "exit"}
    BY <1>1, <1>2, <1>3, <2>4, <2>5 DEF Data
  <2>. QED BY <1>1, <2>4, <2>5, <2>6, <2>7, <2>8, <2>9, <2>10, <2>11, ZenonT(40) DEF Data
<1>5. CASE InUse(m)
  <2>1. /\ current_boot_cue = m /\ "loaded" \notin boot_state[m] /\ chosen = None
        /\ "loaded" \notin boot_state'[m]
    <3>1. current_boot_cue = m /\ "loaded" \notin boot_state[m]
      BY <1>5 DEF IInv, Cues, Over
    <3>2. chosen \notin Medium
      BY <3>1 DEF IInv, Data, Medium
    <3>3. m \in avail
      BY <1>5 DEF IInv, Bits, InUse
    <3>4. chosen # Usb
      BY <3>3 DEF IInv, Data
    <3>5. "loaded" \notin boot_state'[m]
      BY <1>5, <3>1, BitSteps DEF IInv, InUse
    <3>. QED BY <3>1, <3>2, <3>4, <3>5, ZenonT(40) DEF IInv, TypeOK
  <2>2. \A n \in Medium \ {m} : pc'[n] \notin {"payload", "loaded"}
    BY <1>2, <2>1 DEF IInv, Cues, InUse
  <2>3. /\ pc'[m] = "payload" => \A p \in 1..(part'[m] - 1) : Has(p, m)'
        /\ pc'[m] # "payload" => part'[m] = 1
        /\ pc'[m] = "loaded" => Holds(m)'
        /\ blob' = Mixed => Left'
        /\ pc'[m] = "payload" => blob' \in {m, Mixed}
    <3>1. CASE StartPayload(m)
      BY <3>1 DEF StartPayload, Goto, IInv, TypeOK, Data, Mixed, Medium
    <3>2. CASE Decompress(m)
      <4>1. pc[m] = "payload" /\ part[m] \in 1..NumParts /\ blob \in {m, Mixed} /\ (blob = Mixed => Left)
        BY <3>2, ZenonT(40) DEF Decompress, IInv, TypeOK, Data, Part
      <4>2. /\ desc' = [desc EXCEPT ![part[m]] = m] /\ blob' = blob
            /\ \E from \in {m, blob} : buffer' = [buffer EXCEPT ![part[m]] = from]
        BY <3>2, ZenonT(40) DEF Decompress
      <4>3. \A p \in 1..(part[m] - 1) : Has(p, m)
        BY <4>1, ZenonT(40) DEF IInv, Data
      <4>4. \A p \in 1..part[m] : Has(p, m)'
        <5>1. PICK from \in {m, blob} : buffer' = [buffer EXCEPT ![part[m]] = from]
          BY <4>2, ZenonT(40)
        <5>2. part[m] \in Part /\ buffer \in [Part -> Owner] /\ desc \in [Part -> Owner]
          BY <4>1, ZenonT(40) DEF IInv, TypeOK, Part
        <5>3. desc'[part[m]] = m /\ buffer'[part[m]] = from
          BY <4>2, <5>1, <5>2
        <5>4. \A p \in Part \ {part[m]} : desc'[p] = desc[p] /\ buffer'[p] = buffer[p]
          BY <4>2, <5>1, <5>2
        <5>5. \A p \in 1..(part[m] - 1) : Has(p, m)'
          <6>1. 1..(part[m] - 1) \subseteq Part \ {part[m]}
            BY <4>1, PartsAssumption DEF Part
          <6>. QED BY <1>1, <4>3, <5>4, <6>1, ZenonT(40) DEF Has
        <5>6. ASSUME NEW p, p = part[m] PROVE Has(p, m)'
          BY <1>1, <4>1, <5>1, <5>3, <5>6, ZenonT(40) DEF Has
        <5>. QED BY <4>1, <5>5, <5>6, PartsAssumption
      <4>5. \/ /\ part[m] < NumParts /\ part'[m] = part[m] + 1 /\ pc'[m] = "payload"
            \/ /\ part[m] = NumParts /\ part'[m] = 1 /\ pc'[m] = "loaded"
        BY <3>2, <4>1, PartsAssumption DEF Decompress, Goto, IInv, TypeOK
      <4>. QED BY <1>1, <4>1, <4>2, <4>4, <4>5, PartsAssumption DEF Holds, Part
    <3>3. CASE \E st \in Failure : DecompressFails(m, st)
      <4>1. blob' = blob /\ part'[m] = 1 /\ pc'[m] \notin {"payload", "loaded"}
        BY <3>3, ZenonT(40) DEF DecompressFails, Goto, AfterFailure, IInv, TypeOK
      <4>. QED BY <1>1, <4>1, ZenonT(40) DEF IInv, Data
    <3>4. CASE UNCHANGED <<buffer, desc, part, blob>> /\ pc[m] # "payload"
      <4>1. StartPayload(m) \/ pc'[m] # "payload"
        BY <3>4, Moves, ZenonT(40) DEF IInv, Decompress
      <4>2. pc'[m] # "loaded" /\ part[m] = 1
        BY <3>4, Moves, ZenonT(40) DEF IInv, Data
      <4>. QED BY <1>1, <3>1, <3>4, <4>1, <4>2, ZenonT(40) DEF IInv, Data
    <3>5. pc[m] = "payload" => Decompress(m) \/ \E st \in Failure : DecompressFails(m, st)
      BY ZenonT(40) DEF MediumStep, InitDevice, SetBit, WakeMonitor, CueSeen, CueExit, CueOther, CueSleep,
         StartPayload, TableFails, ShutDown, IdentifyNamespace, NextNamespace, AwaitSd, AbortEmmc,
         EndFlashRead
    <3>. QED BY <3>1, <3>2, <3>3, <3>4, <3>5, DataSteps, ZenonT(40)
  <2>. QED BY <1>1, <1>2, <2>1, <2>2, <2>3 DEF IInv, Data, Usb, None, Medium
<1>6. ~InUse(m) => pc'[m] # "payload"
  BY Moves, ZenonT(40) DEF IInv
<1>. QED BY <1>4, <1>5, <1>6, DataSteps DEF InUse, StartPayload, Decompress, DecompressFails

\* Media that are not cued load nothing, and media that gave up stay so.
LEMMA MediumInOrder ==
  ASSUME IInv, NEW m \in Medium, MediumStep(m)
  PROVE  InOrder'
<1>1. UNCHANGED <<avail, current_boot_cue, medium, mon, overridden>>
  BY MediumFrame DEF monitorvars, monvars
<1>2. \A n \in Medium \ {m} : boot_state'[n] = boot_state[n]
  BY OthersStay DEF IInv
<1>3. "loaded" \in boot_state'[m] \ boot_state[m] => current_boot_cue = m
  BY BitSteps DEF IInv, Cues
<1>4. "exit" \in boot_state[m] => "exit" \in boot_state'[m] /\ ("loaded" \in boot_state'[m] => "loaded" \in boot_state[m])
  BY BitSteps DEF IInv, Bits
<1>7. \A n \in Medium : n \in reading' \ reading => current_boot_cue = n
  <2>1. reading' \in {reading, reading \union {m}, reading \ {m}}
    BY MediumEdge, ZenonT(40) DEF Edge, Still, Sets, IInv
  <2>2. m \in reading' \ reading => current_boot_cue = m
    BY Moves, ZenonT(40) DEF IInv, Cues
  <2>. QED BY <2>1, <2>2
<1>5. \A j \in DOMAIN Order : NotYet(j)' => /\ "loaded" \notin boot_state'[Order[j]] /\ current_boot_cue # Order[j]
                                           /\ Order[j] \notin reading'
  BY <1>1, <1>2, <1>3, <1>7, OrderFacts DEF IInv, InOrder, NotYet
<1>6. FirstPayloadWins'
  <2>1. PassedOver' = PassedOver /\ PassedOver \subseteq Medium
    BY <1>1, OrderFacts, ZenonT(40) DEF PassedOver, IInv, TypeOK
  <2>. QED BY <1>1, <1>2, <1>4, <2>1 DEF IInv, InOrder, FirstPayloadWins
<1>. QED BY <1>1, <1>5, <1>6, ZenonT(40) DEF IInv, InOrder

\* Each thread stops its device on every way to its end.
LEMMA MediumDevices ==
  ASSUME IInv, NEW m \in Medium, MediumStep(m)
  PROVE  Devices'
<1>1. main' = main /\ main # "commit"
  BY MediumFrame, Moves DEF monitorvars, IInv, Devices, AllDead
<1>2. \A n \in Medium \ {m} : pc'[n] = pc[n]
  BY OthersStay DEF IInv
<1>e. Edge(m)
  BY MediumEdge, ZenonT(40) DEF IInv
<1>3. \A n \in Medium \ {m} : (n \in reading' => n \in reading) /\ (n \in broken' => n \in broken)
  <2>1. reading' \in {reading, reading \union {m}, reading \ {m}}
    BY <1>e, ZenonT(40) DEF Edge, Still, Sets
  <2>2. broken' \in {broken, broken \union {m}, broken \ {m}}
    BY <1>e, ZenonT(40) DEF Edge, Still, Sets, FaultOf
  <2>. QED BY <2>1, <2>2
<1>7. reading' \subseteq avail'
  <2>1. reading' \in {reading, reading \union {m}, reading \ {m}}
    BY <1>e, ZenonT(40) DEF Edge, Still, Sets
  <2>2. m \in avail /\ avail' = avail
    BY Moves, MediumFrame, ZenonT(40) DEF IInv, Bits, monitorvars
  <2>. QED BY <2>1, <2>2, ZenonT(40) DEF IInv, Devices
<1>4. ASSUME m = "EMMC"
      PROVE  /\ m \in reading' => pc'[m] \in {"payload", "loaded", "loaded_wake", "abort", "shutdown"}
             /\ m \in broken' => pc'[m] \in {"abort", "shutdown"}
  <2>1. /\ m \in reading => pc[m] \in {"payload", "loaded", "loaded_wake", "abort", "shutdown"}
        /\ m \in broken => pc[m] \in {"abort", "shutdown"}
    BY <1>4 DEF IInv, Devices
  <2>. QED BY <1>4, <1>e, <2>1, ZenonT(40) DEF Edge, Still, Sets, AfterFailure, AfterLoaded, FaultOf
<1>5. ASSUME m = "SPI", m \in reading'
      PROVE  pc'[m] \in {"payload", "loaded", "loaded_wake", "end_read"}
  <2>1. m \in reading => pc[m] \in {"payload", "loaded", "loaded_wake", "end_read"}
    BY <1>5 DEF IInv, Devices
  <2>. QED BY <1>5, <1>e, <2>1, ZenonT(40) DEF Edge, Still, Sets, AfterFailure, AfterLoaded
<1>6. ASSUME m = "NVME", m \in reading' \union broken'
      PROVE  pc'[m] \notin {"init", "exit", "exit_wake", "dead"}
  <2>1. m \in reading \union broken => pc[m] \notin {"init", "exit", "exit_wake", "dead"}
    BY <1>6 DEF IInv, Devices
  <2>. QED BY <1>6, <1>e, <2>1, ZenonT(40) DEF Edge, Still, Sets, AfterFailure, AfterLoaded, FaultOf
<1>. QED BY <1>1, <1>2, <1>3, <1>4, <1>5, <1>6, <1>7 DEF IInv, Devices, Medium

-----------------------------------------------------------------------------
(* The steps of the monitor, and the theorems.                             *)

\* What the monitor never touches.
LEMMA MonitorFrame ==
  ASSUME MonitorStep
  PROVE  UNCHANGED <<avail, boot_state, pc, curr, part, blob, devvars, board, main>>
  BY ZenonT(40) DEF MonitorStep, MonitorStart, UseEmbedded, MonitorNext, MonitorSleep, MonitorReload,
         MonitorFailed, MonitorCue, MonitorWake, MonitorExitCue, MonitorBoard, MonitorLoaded,
         datavars, devvars

\* The monitor goes on from one medium to the next and never takes back a
\* refusal: what was left behind stays left behind.
LEMMA MonitorLeft ==
  ASSUME IInv, MonitorStep
  PROVE  Left => Left'
<1>1. avail' = avail
  BY MonitorFrame
<1>2. (medium' = medium \/ medium' = medium + 1) /\ overridden \subseteq overridden'
  BY ZenonT(40) DEF MonitorStep, MonitorStart, UseEmbedded, MonitorNext, MonitorSleep, MonitorReload,
         MonitorFailed, MonitorCue, MonitorWake, MonitorExitCue, MonitorBoard, MonitorLoaded
<1>3. medium \in 1..5
  BY OrderFacts DEF IInv, TypeOK
<1>4. PassedOver \subseteq PassedOver'
  BY <1>1, <1>2, <1>3, OrderFacts DEF PassedOver
<1>. QED BY <1>2, <1>4, ZenonT(40) DEF Left, LeftBehind

\* The monitor's steps keep the types.
LEMMA MonitorType ==
  ASSUME TypeOK, mon = "start" => medium = 1, MonitorStep
  PROVE  TypeOK'
<1>. USE OrderFacts
<1>1. CASE MonitorStart
  BY <1>1, ZenonT(40) DEF MonitorStart, TypeOK, datavars, devvars, Cur
<1>2. CASE UseEmbedded
  BY <1>2, ZenonT(40) DEF UseEmbedded, TypeOK, devvars, Cur, Owner
<1>3. CASE MonitorNext
  BY <1>3 DEF MonitorNext, TypeOK, datavars, devvars, Cur
<1>4. CASE MonitorSleep
  BY <1>4 DEF MonitorSleep, TypeOK, datavars, devvars, Cur, Awaited, Reload
<1>5. CASE MonitorReload
  BY <1>5, ZenonT(40) DEF MonitorReload, TypeOK, datavars, devvars, Cur
<1>6. CASE MonitorFailed
  BY <1>6 DEF MonitorFailed, Failed, TypeOK, datavars, devvars, Cur
<1>7. CASE MonitorCue
  BY <1>7, ZenonT(40) DEF MonitorCue, TypeOK, datavars, devvars, Cur, Cue
<1>8. CASE MonitorWake
  BY <1>8, ZenonT(40) DEF MonitorWake, TypeOK, datavars, devvars, Cur
<1>9. CASE MonitorExitCue
  BY <1>9, ZenonT(40) DEF MonitorExitCue, TypeOK, datavars, devvars, Cur, Cue
<1>10. CASE MonitorBoard
  BY <1>10, ZenonT(40) DEF MonitorBoard, TypeOK, datavars, devvars, Cur
<1>11. ASSUME NEW pressed \in BOOLEAN, MonitorLoaded(pressed) PROVE TypeOK'
  BY <1>11 DEF MonitorLoaded, TypeOK, datavars, devvars, Cur
<1>. QED BY <1>1, <1>2, <1>3, <1>4, <1>5, <1>6, <1>7, <1>8, <1>9, <1>10, <1>11 DEF MonitorStep
-----------------------------------------------------------------------------
\* The monitor's copy of boot_state is always one that boot_state had.
LEMMA MonitorBits ==
  ASSUME IInv, MonitorStep
  PROVE  Bits'
<1>1. UNCHANGED <<avail, boot_state, pc>>
  BY MonitorFrame
<1>2. state' = state \/ state' = boot_state
  BY ZenonT(40) DEF MonitorStep, MonitorStart, UseEmbedded, MonitorNext, MonitorSleep, MonitorReload,
         MonitorFailed, MonitorCue, MonitorWake, MonitorExitCue, MonitorBoard, MonitorLoaded
<1>. QED BY <1>1, <1>2, ZenonT(40) DEF IInv, Bits

\* The monitor moves the cue only after the cued medium is done.
LEMMA MonitorCues ==
  ASSUME IInv, MonitorStep
  PROVE  Cues'
<1>. USE OrderFacts
<1>1. UNCHANGED <<avail, boot_state, pc>>
  BY MonitorFrame
<1>2. \A m \in Medium : InUse(m)' = InUse(m)
  BY <1>1 DEF InUse
<1>3. CASE MonitorCue \/ MonitorExitCue
  <2>1. mon \notin Awaiting
    BY <1>3, ZenonT(40) DEF MonitorCue, MonitorExitCue, Awaiting
  <2>2. \A m \in Medium : ~InUse(m) /\ pc[m] # "loaded"
    BY <2>1, ZenonT(40) DEF IInv, Cues
  <2>3. CASE MonitorCue
    BY <1>1, <1>2, <2>2, <2>3, ZenonT(40) DEF MonitorCue, Cues, Awaiting, Cur
  <2>4. CASE MonitorExitCue
    BY <1>1, <1>2, <2>2, <2>4, ZenonT(40) DEF MonitorExitCue, Cues, Awaiting, Medium
  <2>. QED BY <1>3, <2>3, <2>4
<1>4. CASE MonitorFailed \/ \E pressed \in BOOLEAN : MonitorLoaded(pressed)
  <2>1. current_boot_cue' = current_boot_cue /\ mon' \notin Awaiting
    BY <1>4, ZenonT(40) DEF MonitorFailed, MonitorLoaded, Awaiting
  <2>2. mon \in Awaiting => boot_state[Cur] \cap Over # {}
    <3>1. mon \in Awaiting => medium \in 1..4 /\ Cur \in Medium
      BY DEF IInv, TypeOK, Awaiting, Cur
    <3>2. mon \in Awaiting => state[Cur] \cap Over # {}
      BY <1>4, ZenonT(40) DEF MonitorFailed, Failed, MonitorLoaded, Awaiting, Over
    <3>. QED BY <3>1, <3>2, ZenonT(40) DEF IInv, Bits
  <2>. QED BY <1>1, <1>2, <2>1, <2>2, ZenonT(40) DEF IInv, Cues
<1>5. CASE MonitorSleep
  BY <1>1, <1>2, <1>5, SMTT(40) DEF MonitorSleep, Awaited, Reload, IInv, Cues, Awaiting, Cur
<1>6. CASE MonitorReload
  BY <1>1, <1>2, <1>6, ZenonT(40) DEF MonitorReload, IInv, Cues, Awaiting, Cur
<1>7. CASE MonitorWake
  BY <1>1, <1>2, <1>7, ZenonT(40) DEF MonitorWake, IInv, Cues, Awaiting, Cur
<1>8. CASE MonitorStart \/ UseEmbedded \/ MonitorNext \/ MonitorBoard
  <2>1. current_boot_cue' = current_boot_cue /\ mon \notin Awaiting /\ mon' \notin Awaiting
    BY <1>8, ZenonT(40) DEF MonitorStart, UseEmbedded, MonitorNext, MonitorBoard, Awaiting
  <2>. QED BY <1>1, <1>2, <2>1, ZenonT(40) DEF IInv, Cues
<1>. QED BY <1>3, <1>4, <1>5, <1>6, <1>7, <1>8 DEF MonitorStep

\* The monitor accepts the payload of the cued medium.
LEMMA MonitorData ==
  ASSUME IInv, MonitorStep
  PROVE  Data'
<1>. USE OrderFacts
<1>1. UNCHANGED <<avail, boot_state, pc, part, blob>>
  BY MonitorFrame
<1>7. /\ blob' = Mixed => Left'
      /\ \A m \in Medium : pc'[m] = "payload" => blob' \in {m, Mixed}
  BY <1>1, MonitorLeft, ZenonT(40) DEF IInv, Data
<1>8. ASSUME UNCHANGED <<buffer, desc>>
      PROVE  /\ \A p, o : Has(p, o) => Has(p, o)'
             /\ \A o : Holds(o) => Holds(o)'
             /\ \A m \in Medium : pc'[m] = "payload" => \A p \in 1..(part'[m] - 1) : Has(p, m)'
  <2>1. \A p, o : Has(p, o) => Has(p, o)'
    BY <1>8, MonitorLeft, ZenonT(40) DEF Has
  <2>. QED BY <1>1, <1>7, <2>1, ZenonT(40) DEF Holds, IInv, Data
<1>2. CASE UseEmbedded
  <2>1. \A m \in Medium : pc[m] = "dead" /\ current_boot_cue' = current_boot_cue
    BY <1>2, ZenonT(40) DEF UseEmbedded, IInv, Bits
  <2>2. chosen = None
    BY <1>2, ZenonT(40) DEF UseEmbedded, IInv, Data, Committed
  <2>3. \A m \in Medium : current_boot_cue # m
    BY <1>2 DEF UseEmbedded, IInv, InOrder, NotYet, TypeOK, Medium
  <2>4. chosen' = Usb => Holds(Usb)' /\ avail = {} /\ mon' = "board"
    BY <1>2, <2>2 DEF UseEmbedded, Holds, Has, Usb, None
  <2>. QED BY <1>1, <1>7, <1>2, <2>1, <2>2, <2>3, <2>4, SMTT(40) DEF UseEmbedded, IInv, Data, Usb, None, Medium, Committed
<1>3. ASSUME NEW pressed \in BOOLEAN, MonitorLoaded(pressed) PROVE Data'
  <2>1. UNCHANGED <<buffer, desc, current_boot_cue>>
    BY <1>3, ZenonT(40) DEF MonitorLoaded, datavars
  <2>2. current_boot_cue = Cur /\ Cur \in Medium /\ "loaded" \in boot_state[Cur]
    BY <1>3, ZenonT(40) DEF MonitorLoaded, IInv, TypeOK, Cues, Awaiting, Bits, Cur
  <2>3. Holds(Cur)
    BY <2>2, ZenonT(40) DEF IInv, Data
  <2>4. chosen = None /\ (chosen' = None \/ (chosen' = Cur /\ mon' = "commit_cue"))
    BY <1>3, ZenonT(40) DEF MonitorLoaded, IInv, Data, Committed
  <2>5. /\ \A o : Holds(o) => Holds(o)'
        /\ \A m \in Medium : pc'[m] = "payload" => \A p \in 1..(part'[m] - 1) : Has(p, m)'
    BY <1>8, <2>1, ZenonT(40)
  <2>. QED BY <1>1, <1>7, <2>1, <2>2, <2>3, <2>4, <2>5 DEF IInv, Data, Committed, None, Usb, Medium
<1>4. CASE MonitorCue
  <2>1. UNCHANGED <<buffer, desc>> /\ chosen' = chosen /\ chosen = None
    BY <1>4, ZenonT(40) DEF MonitorCue, datavars, IInv, Data, Committed
  <2>2. current_boot_cue' = Cur /\ "loaded" \notin boot_state[Cur]
    BY <1>4 DEF MonitorCue, IInv, InOrder, NotYet, TypeOK, Cur
  <2>3. /\ \A o : Holds(o) => Holds(o)'
        /\ \A m \in Medium : pc'[m] = "payload" => \A p \in 1..(part'[m] - 1) : Has(p, m)'
    BY <1>8, <2>1, ZenonT(40)
  <2>. QED BY <1>1, <1>7, <2>1, <2>2, <2>3 DEF IInv, Data, None, Usb, Medium
<1>5. CASE MonitorExitCue
  <2>1. UNCHANGED <<buffer, desc, chosen>> /\ current_boot_cue' = "exit" /\ mon' \in Committed
    BY <1>5 DEF MonitorExitCue, datavars, Committed
  <2>2. /\ \A o : Holds(o) => Holds(o)'
        /\ \A m \in Medium : pc'[m] = "payload" => \A p \in 1..(part'[m] - 1) : Has(p, m)'
    BY <1>8, <2>1, ZenonT(40)
  <2>. QED BY <1>1, <1>7, <2>1, <2>2 DEF IInv, Data, Medium
<1>6. CASE MonitorStart \/ MonitorNext \/ MonitorSleep \/ MonitorReload \/ MonitorFailed \/ MonitorWake \/ MonitorBoard
  <2>1. UNCHANGED <<buffer, desc, chosen, current_boot_cue>> /\ (mon \in Committed => mon' \in Committed)
    BY <1>6, ZenonT(40) DEF MonitorStart, MonitorNext, MonitorSleep, MonitorReload, MonitorFailed, Failed, MonitorWake,
         MonitorBoard, datavars, Committed, Awaited
  <2>2. /\ \A o : Holds(o) => Holds(o)'
        /\ \A m \in Medium : pc'[m] = "payload" => \A p \in 1..(part'[m] - 1) : Has(p, m)'
    BY <1>8, <2>1, ZenonT(40)
  <2>. QED BY <1>1, <1>7, <2>1, <2>2, ZenonT(40) DEF IInv, Data
<1>. QED BY <1>2, <1>3, <1>4, <1>5, <1>6 DEF MonitorStep

\* The monitor passes over a medium only when it is refused or has given up.
LEMMA MonitorInOrder ==
  ASSUME IInv, MonitorStep
  PROVE  InOrder'
<1>. USE OrderFacts
<1>1. UNCHANGED <<avail, boot_state, reading>> /\ medium \in 1..5
  BY MonitorFrame DEF IInv, TypeOK, devvars
<1>2. \A j \in 1..4 : NotYet(j) => /\ "loaded" \notin boot_state[Order[j]] /\ current_boot_cue # Order[j]
                                  /\ Order[j] \notin reading
  BY ZenonT(40) DEF IInv, InOrder
<1>3. CASE MonitorFailed \/ \E pressed \in BOOLEAN : MonitorLoaded(pressed)
  <2>1. /\ current_boot_cue' = current_boot_cue /\ overridden \subseteq overridden' /\ mon' \in {"next", "commit_cue"}
        /\ mon \in {"await_ready", "await_loaded"} /\ medium \in 1..4 /\ Cur \in Medium
    BY <1>3, SMTT(40) DEF MonitorFailed, Failed, MonitorLoaded, IInv, TypeOK, Cur
  <2>2. \/ medium' = medium /\ mon' = "commit_cue"
        \/ medium' = medium + 1 /\ Cur \in overridden'
        \/ medium' = medium + 1 /\ Failed
    BY <1>3, ZenonT(40) DEF MonitorFailed, MonitorLoaded
  <2>3. Failed => "exit" \in boot_state[Cur] /\ "loaded" \notin boot_state[Cur]
    <3>1. CASE mon = "await_ready" /\ "exit" \in state[Cur]
      BY <2>1, <3>1, <1>2, ZenonT(40) DEF IInv, Bits, NotYet, Cur
    <3>2. CASE mon = "await_loaded" /\ "exit" \in state[Cur] /\ "loaded" \notin state[Cur]
      BY <2>1, <3>2, ZenonT(40) DEF IInv, Bits
    <3>. QED BY <3>1, <3>2, ZenonT(40) DEF Failed
  <2>4. \A j \in 1..4 : NotYet(j)' => NotYet(j)
    BY <2>1, <2>2 DEF NotYet
  <2>5. PassedOver' \subseteq PassedOver \union {Cur}
    BY <1>1, <2>1, <2>2 DEF PassedOver, Cur
  <2>6. medium' = medium => PassedOver' = PassedOver
    BY <1>1, ZenonT(40) DEF PassedOver
  <2>7. FirstPayloadWins'
    BY <1>1, <2>1, <2>2, <2>3, <2>5, <2>6, ZenonT(40) DEF IInv, InOrder, FirstPayloadWins
  <2>. QED BY <1>1, <1>2, <2>1, <2>4, <2>7, ZenonT(40) DEF InOrder
<1>4. CASE MonitorNext
  <2>1. UNCHANGED <<current_boot_cue, overridden>> /\ mon' # "start" /\ mon = "next"
    BY <1>4, ZenonT(40) DEF MonitorNext
  <2>2. \/ medium' = medium
        \/ medium' = medium + 1 /\ medium \in 1..4 /\ Cur \notin avail
    BY <1>1, <1>4 DEF MonitorNext
  <2>3. \A j \in 1..4 : NotYet(j)' => NotYet(j)
    BY <1>1, <2>1, <2>2 DEF NotYet
  <2>4. PassedOver' = PassedOver
    BY <1>1, <2>2 DEF PassedOver, Cur
  <2>. QED BY <1>1, <1>2, <2>1, <2>3, <2>4, ZenonT(40) DEF IInv, InOrder, FirstPayloadWins
<1>5. CASE MonitorCue
  <2>1. /\ medium' = medium /\ overridden' = overridden /\ mon' = "cue_wake" /\ mon = "await_ready"
        /\ current_boot_cue' = Cur /\ medium \in 1..4
    BY <1>5 DEF MonitorCue, IInv, TypeOK
  <2>2. \A j \in 1..4 : NotYet(j)' => NotYet(j) /\ Order[j] # Cur
    BY <2>1 DEF NotYet, Cur
  <2>3. PassedOver' = PassedOver
    BY <1>1, <2>1, ZenonT(40) DEF PassedOver
  <2>. QED BY <1>1, <1>2, <2>1, <2>2, <2>3, ZenonT(40) DEF IInv, InOrder, FirstPayloadWins
<1>6. CASE MonitorExitCue
  <2>1. medium' = medium /\ overridden' = overridden /\ mon' = "exit_wake" /\ current_boot_cue' = "exit"
    BY <1>6 DEF MonitorExitCue
  <2>2. \A j \in 1..4 : NotYet(j)' => NotYet(j)
    BY <2>1 DEF NotYet
  <2>3. PassedOver' = PassedOver
    BY <1>1, <2>1 DEF PassedOver
  <2>. QED BY <1>1, <1>2, <2>1, <2>2, <2>3, SMTT(40) DEF IInv, InOrder, FirstPayloadWins
<1>7. CASE MonitorStart \/ UseEmbedded \/ MonitorSleep \/ MonitorReload \/ MonitorWake \/ MonitorBoard
  <2>. DEFINE Early == {"start", "next", "await_ready", "reload_ready"}
              Same == UNCHANGED <<medium, overridden, current_boot_cue>>
  <2>0. Same /\ mon' # "start" /\ (mon' \in Early => mon \in Early)
    <3>1. CASE MonitorStart
      BY <3>1 DEF MonitorStart
    <3>2. CASE UseEmbedded
      BY <3>2 DEF UseEmbedded
    <3>3. CASE MonitorSleep
      <4>1. \/ mon = "await_ready" /\ mon' = "reload_ready"
            \/ mon = "await_loaded" /\ mon' = "reload_loaded"
        BY <3>3 DEF MonitorSleep, Awaited, Reload
      <4>. QED BY <3>3, <4>1, ZenonT(40) DEF MonitorSleep
    <3>4. CASE MonitorReload
      BY <3>4 DEF MonitorReload
    <3>5. CASE MonitorWake
      BY <3>5 DEF MonitorWake
    <3>6. CASE MonitorBoard
      BY <3>6, ZenonT(40) DEF MonitorBoard
    <3>. QED BY <1>7, <3>1, <3>2, <3>3, <3>4, <3>5, <3>6, ZenonT(40)
  <2>1. UNCHANGED <<medium, overridden, current_boot_cue>> /\ mon' # "start"
    BY <2>0
  <2>2. mon' \in {"start", "next", "await_ready", "reload_ready"} =>
          mon \in {"start", "next", "await_ready", "reload_ready"}
    BY <2>0
  <2>3. \A j \in 1..4 : NotYet(j)' => NotYet(j)
    BY <2>1, <2>2 DEF NotYet
  <2>4. PassedOver' = PassedOver
    BY <1>1, <2>1, ZenonT(40) DEF PassedOver
  <2>. QED BY <1>1, <1>2, <2>1, <2>3, <2>4, ZenonT(40) DEF IInv, InOrder, FirstPayloadWins
<1>. QED BY <1>3, <1>4, <1>5, <1>6, <1>7 DEF MonitorStep

\* After the commit the monitor does nothing.
LEMMA MonitorDevices ==
  ASSUME IInv, MonitorStep
  PROVE  Devices'
<1>1. UNCHANGED <<avail, pc, reading, broken, board, main>>
  BY MonitorFrame DEF devvars
<1>2. mon # "dead"
  BY ZenonT(40) DEF MonitorStep, MonitorStart, UseEmbedded, MonitorNext, MonitorSleep, MonitorReload,
         MonitorFailed, Failed, MonitorCue, MonitorWake, MonitorExitCue, MonitorBoard, MonitorLoaded, Awaited
<1>. QED BY <1>1, <1>2, ZenonT(40) DEF IInv, Devices, AllDead

\* The end of a read, the board probe and the commit.
LEMMA OtherSteps ==
  ASSUME IInv, (\E m \in Medium : ReadEnds(m)) \/ ProbeBoard \/ Commit \/ UNCHANGED vars
  PROVE  IInv'
<1>1. /\ UNCHANGED <<avail, boot_state, current_boot_cue, asleep, mon, medium, state, chosen, overridden,
                     pc, curr, part, ns, blob, buffer, desc, broken>>
      /\ reading' \subseteq reading
  BY ZenonT(40) DEF ReadEnds, ProbeBoard, Commit, vars, monitorvars, monvars, datavars, devvars
<1>2. board' \in {"unknown", "known", "dead"} /\ main' \in {"run", "commit"}
  BY ZenonT(40) DEF ReadEnds, ProbeBoard, Commit, vars, monitorvars, IInv, TypeOK
<1>3. main' = "commit" => AllDead'
  BY ZenonT(40) DEF ReadEnds, ProbeBoard, Commit, vars, monitorvars, monvars, AllDead, IInv, Devices
<1>4. TypeOK'
  BY <1>1, <1>2, ZenonT(40) DEF IInv, TypeOK, Cur
<1>5. Bits' /\ Cues'
  BY <1>1, ZenonT(40) DEF IInv, Bits, Cues, InUse, Cur
<1>6. Data'
  <2>1. Left' = Left
    BY <1>1, ZenonT(40) DEF Left, LeftBehind, PassedOver
  <2>. QED BY <1>1, <2>1, ZenonT(40) DEF IInv, Data, Holds, Has
<1>7. InOrder'
  BY <1>1, ZenonT(40) DEF IInv, InOrder, NotYet, FirstPayloadWins, PassedOver
<1>8. Devices'
  BY <1>1, <1>3, ZenonT(40) DEF IInv, Devices
<1>. QED BY <1>4, <1>5, <1>6, <1>7, <1>8 DEF IInv

\* A write of a request that was left behind: the medium that started it is
\* not the cued one, so the monitor has passed over it; it is not eMMC or NVMe
\* after a failure, because they have stopped their requests by then.
LEMMA StraySteps ==
  ASSUME IInv, NEW w \in Medium, StrayWrite(w)
  PROVE  IInv'
<1>. USE OrderFacts
<1>1. /\ UNCHANGED <<avail, boot_state, current_boot_cue, asleep, mon, medium, state, chosen, overridden,
                     pc, curr, part, ns, buffer, desc, reading, broken, board, main>>
      /\ blob' = Mixed /\ w \in reading
  BY ZenonT(40) DEF StrayWrite, monitorvars, monvars, devvars
<1>2. PICK m \in Medium \ {w} : pc[m] = "payload"
  BY ZenonT(40) DEF StrayWrite
<1>3. current_boot_cue = m /\ mon \in Awaiting /\ m = Cur /\ medium \in 1..4
  <2>1. current_boot_cue = m /\ boot_state[m] \cap Over = {}
    BY <1>2, ZenonT(40) DEF IInv, Cues, InUse
  <2>2. mon \in Awaiting /\ m = Cur
    BY <2>1, ZenonT(40) DEF IInv, Cues
  <2>. QED BY <2>1, <2>2 DEF IInv, TypeOK, Awaiting
<1>4. PICK j \in 1..4 : Order[j] = w
  BY DEF Medium
<1>5. j < medium
  <2>1. ~NotYet(j)
    BY <1>1, <1>4, ZenonT(40) DEF IInv, InOrder
  <2>2. j # medium
    BY <1>2, <1>3, <1>4, ZenonT(40) DEF Cur
  <2>. QED BY <1>3, <2>1, <2>2 DEF NotYet
<1>6. w \in PassedOver
  BY <1>1, <1>4, <1>5 DEF PassedOver, IInv, Devices
<1>7. w \in overridden \/ w = "SD"
  <2>1. w \in overridden \/ "exit" \in boot_state[w]
    BY <1>6, ZenonT(40) DEF IInv, InOrder, FirstPayloadWins
  <2>2. "exit" \in boot_state[w] => pc[w] \in {"exit_wake", "dead"}
    BY ZenonT(40) DEF IInv, Bits
  <2>3. pc[w] \in {"exit_wake", "dead"} => w = "SD"
    BY <1>1 DEF IInv, Devices, Medium
  <2>. QED BY <2>1, <2>2, <2>3
<1>8. Left /\ Left' = Left
  BY <1>1, <1>6, <1>7, ZenonT(40) DEF Left, LeftBehind, PassedOver
<1>9. TypeOK'
  BY <1>1, ZenonT(40) DEF IInv, TypeOK, Cur, Owner
<1>10. Bits' /\ Cues'
  BY <1>1, ZenonT(40) DEF IInv, Bits, Cues, InUse, Cur
<1>11. Data'
  BY <1>1, <1>8, ZenonT(40) DEF IInv, Data, Holds, Has
<1>12. InOrder' /\ Devices'
  BY <1>1, ZenonT(40) DEF IInv, InOrder, NotYet, FirstPayloadWins, PassedOver, Devices, AllDead
<1>. QED BY <1>9, <1>10, <1>11, <1>12 DEF IInv

\* The invariant holds when the threads start.
LEMMA InitIInv == Init => IInv
<1>. SUFFICES ASSUME Init PROVE IInv
  OBVIOUS
<1>. USE OrderFacts
<1>1. avail \in SUBSET Medium
  BY ConfigsAssumption, ZenonT(40) DEF Init
<1>2. TypeOK
  BY <1>1, PartsAssumption, NsAssumption
     DEF Init, TypeOK, InitialBits, Bit, Cue, Owner, Part, Cur, None
<1>3. Bits
  BY <1>1, ZenonT(40) DEF Init, Bits, InitialBits
<1>4. Cues
  BY <1>1, ZenonT(40) DEF Init, Cues, InUse, Awaiting, Medium
<1>5. Data
  BY <1>1, ZenonT(40) DEF Init, Data, InitialBits, None, Usb, Mixed, Medium
<1>6. InOrder
  BY <1>1 DEF Init, InOrder, NotYet, InitialBits, FirstPayloadWins, PassedOver, Medium
<1>7. Devices
  BY ZenonT(40) DEF Init, Devices
<1>. QED BY <1>2, <1>3, <1>4, <1>5, <1>6, <1>7 DEF IInv

\* Every step keeps the invariant.
LEMMA NextIInv == IInv /\ [Next]_vars => IInv'
<1>. SUFFICES ASSUME IInv, [Next]_vars PROVE IInv'
  OBVIOUS
<1>1. CASE MonitorStep
  BY <1>1, MonitorType, MonitorBits, MonitorCues, MonitorData, MonitorInOrder, MonitorDevices, ZenonT(40) DEF IInv, InOrder
<1>2. ASSUME NEW m \in Medium, MediumStep(m) PROVE IInv'
  BY <1>2, MediumType, MediumBits, MediumCues, MediumData, MediumInOrder, MediumDevices DEF IInv
<1>. QED BY <1>1, <1>2, OtherSteps, StraySteps DEF Next

\* The variables of the boot protocol keep their types.
THEOREM TypeCorrect == Spec => []TypeOK
<1>1. IInv => TypeOK
  BY DEF IInv
<1>. QED BY InitIInv, NextIInv, <1>1, PTL DEF Spec

\* Only the thread that is cued uses the shared buffers.
THEOREM BuffersAreCued == Spec => []CuedOnly
<1>1. IInv => CuedOnly
  BY ZenonT(40) DEF IInv, Cues, CuedOnly
<1>. QED BY InitIInv, NextIInv, <1>1, PTL DEF Spec

\* The payload that main() commits to is whole and from the accepted medium; a
\* part of it can only be spoilt by the request of an SD card that was tried
\* before or of a medium whose payload was refused.
THEOREM PayloadStaysIntact == Spec => []PayloadIntact
<1>1. IInv => PayloadIntact
  BY ZenonT(40) DEF IInv, TypeOK, Data, Holds, Has, Left, PayloadIntact
<1>. QED BY InitIInv, NextIInv, <1>1, PTL DEF Spec

\* The first payload in the boot order that can be loaded is taken.
THEOREM FirstIsTaken == Spec => []FirstPayloadWins
<1>1. IInv => FirstPayloadWins
  BY ZenonT(40) DEF IInv, InOrder
<1>. QED BY InitIInv, NextIInv, <1>1, PTL DEF Spec

\* When main() commits, no driver but that of SD has a transfer going.
THEOREM QuietAtCommit == Spec => []CommitQuiet
<1>1. IInv => CommitQuiet
  BY ZenonT(40) DEF IInv, TypeOK, Devices, AllDead, CommitQuiet, Medium
<1>. QED BY InitIInv, NextIInv, <1>1, PTL DEF Spec

\* eMMC and NVMe are shut down after a global fault.
THEOREM FaultsAreContained == Spec => []FaultsContained
<1>1. IInv => FaultsContained
  BY ZenonT(40) DEF IInv, Bits, Devices, FaultsContained, FaultShutDown, Medium
<1>. QED BY InitIInv, NextIInv, <1>1, PTL DEF Spec

\* The buffers have one owner, from the first cue to commit().
THEOREM BuffersHaveOneOwner == Spec => []BuffersOwned
BY TypeCorrect, BuffersAreCued, QuietAtCommit, PTL DEF BuffersOwned
=============================================================================
