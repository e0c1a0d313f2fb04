-------------------------------- MODULE Usb --------------------------------
(* Booting via USB: usbtool --bulk on the host (tools/usbtool.c), the USB  *)
(* controller, and sramstage-usb: the interrupt handler of lib/dwc3.c with *)
(* the operations of sramstage/usb_loader.c, and the main program that     *)
(* waits for the order to start the next stage.                            *)
(*                                                                         *)
(* The host first enumerates the device (or keeps the connection it had    *)
(* with the mask ROM), then usbtool sends headers and data.  A byte is a   *)
(* pair of a command (its place on the command line) and an offset in its  *)
(* file.                                                                   *)
EXTENDS FlashSpi

CONSTANTS
  Cases,           \* pairs of a command line, of [k, addr, size] for load, flash, call, start,
                   \* and the erase table of the flash
  evt_slots,       \* 64
  Sector,          \* 512: size of a header, unit of data
  buf_size,        \* 1 MiB: what usbtool sends at a time
  MemTop, Stage,   \* memory; where data for the flash is put (0x100000)
  MaxBus           \* bound: resets, disconnects, link changes and requests of an enumeration

ASSUME UsbAssumption == buf_size % Sector = 0 /\ evt_slots > 0 /\ Stage + buf_size <= MemTop

Zero == <<0, 0>>     \* padding, and memory before anything is loaded
NoReq == [req |-> "none", stage |-> "none"]
NoTrb == [to |-> "none", addr |-> 0, size |-> 0]
NoBulk == [k |-> "none", addr |-> 0, size |-> 0, data |-> <<>>]

VARIABLES
  cmds, chip,                        \* the command line, the chip
  hpc, arg, pos, load_addr, bulk,    \* bulk_mode: where it is, command, offset in the file, address; its transfer
  link, ctl, budget, haddr, hmps, hconf,  \* the host: link, control transfer, address, packet size, configured
  ring, wpos, count,                 \* event buffer: contents, next place to write, event_count / 4
  trb0, trb4, ep4, devaddr, linkspeed,   \* transfers of the endpoints, configuration of EP4, DCFG, DSTS
  evt_pos, ep0phase, phase, speed,   \* dwc3_state, usbstage_state
  ep0mem, desc, header,              \* the union of ep0_trb and setup_packet; packet size in bufs->desc; bufs->header
  taken, todo,                       \* dwc3_irq: evtcount, events left
  main, mem, flash, calls            \* sramstage_late; memory; flash; what was called

toolvars == <<hpc, arg, pos, load_addr, bulk>>
hostvars == <<link, ctl, budget, haddr, hmps, hconf>>
ringvars == <<ring, wpos, count>>
epvars == <<trb0, trb4, ep4, devaddr, linkspeed>>
devvars == <<evt_pos, ep0phase, phase, speed, ep0mem, desc, header, taken, todo>>
vars == <<cmds, chip, toolvars, hostvars, ringvars, epvars, devvars, main, mem, flash, calls>>
fixed == <<cmds, chip>>

usb_max_packet_size == [low |-> 8, full |-> 64, high |-> 512]
dead == main = "dead"

-----------------------------------------------------------------------------
(* The controller: events go into the buffer while there is room.          *)
Post(e) == /\ count < evt_slots
           /\ ring' = [ring EXCEPT ![wpos] = e] /\ wpos' = (wpos + 1) % evt_slots /\ count' = count + 1

Running == main \notin {"boot", "gone"}

\* the setup packet of a request for this address
SetupStage ==
  /\ Running /\ ctl.stage = "setup" /\ trb0 = "setup" /\ haddr = devaddr
  /\ Post("ep0") /\ trb0' = "none" /\ ep0mem' = ctl.req
  /\ ctl' = [ctl EXCEPT !.stage = IF ctl.req \in {"device", "config", "qualifier"} THEN "data" ELSE "status"]
  /\ UNCHANGED <<fixed, toolvars, link, budget, haddr, hmps, hconf, trb4, ep4, devaddr, linkspeed,
                 evt_pos, ep0phase, phase, speed, desc, header, taken, todo, main, mem, flash, calls>>

DataStage ==
  /\ Running /\ ctl.stage = "data" /\ trb0 = "data"
  /\ Post("ep1") /\ trb0' = "none"
  /\ ctl' = [ctl EXCEPT !.stage = "status"]
  /\ hmps' = IF ctl.req = "config" THEN desc ELSE hmps
  /\ UNCHANGED <<fixed, toolvars, link, budget, haddr, hconf, trb4, ep4, devaddr, linkspeed, devvars, main, mem, flash, calls>>

StatusStage ==
  /\ Running /\ ctl.stage = "status" /\ trb0 \in {"status2", "status3"}
  /\ Post(IF trb0 = "status2" THEN "ep1" ELSE "ep0") /\ trb0' = "none"
  /\ ctl' = NoReq
  /\ haddr' = IF ctl.req = "address" THEN 1 ELSE haddr
  /\ hconf' = (hconf \/ ctl.req = "configuration")
  /\ UNCHANGED <<fixed, toolvars, link, budget, hmps, trb4, ep4, devaddr, linkspeed, devvars, main, mem, flash, calls>>

\* a bulk transfer meets the transfer of EP4
BulkDone ==
  /\ Running /\ bulk # NoBulk /\ trb4 # NoTrb /\ ep4.on
  /\ Post("ep4") /\ trb4' = NoTrb /\ bulk' = NoBulk
  /\ IF trb4.to = "header" THEN header' = [k |-> bulk.k, addr |-> bulk.addr, size |-> bulk.size] /\ UNCHANGED mem
     ELSE /\ mem' = [a \in DOMAIN mem |-> IF a \in trb4.addr..(trb4.addr + bulk.size - 1) THEN bulk.data[a - trb4.addr] ELSE mem[a]]
          /\ UNCHANGED header
  /\ UNCHANGED <<fixed, hpc, arg, pos, load_addr, hostvars, trb0, ep4, devaddr, linkspeed,
                 evt_pos, ep0phase, phase, speed, ep0mem, desc, taken, todo, main, flash, calls>>

-----------------------------------------------------------------------------
(* The host: enumeration.  A reset or disconnect only between two          *)
(* transfers, and before usbtool starts.                                   *)
Enumerating == Running /\ hpc = "enum" /\ ctl = NoReq

BusEvent(from, to, e) ==
  /\ Enumerating /\ link = from
  /\ link' = to /\ Post(e)
  /\ IF from = "off" THEN UNCHANGED budget ELSE budget > 0 /\ budget' = budget - 1
  /\ IF e = "link" THEN UNCHANGED <<haddr, hmps, hconf>> ELSE haddr' = 0 /\ hmps' = 0 /\ hconf' = FALSE
  /\ UNCHANGED <<fixed, toolvars, ctl, epvars, devvars, main, mem, flash, calls>>

Connected ==
  /\ Enumerating /\ link = "reset"
  /\ link' = "on" /\ Post("conn") /\ linkspeed' \in {"full", "high"}
  /\ UNCHANGED <<fixed, toolvars, ctl, budget, haddr, hmps, hconf, trb0, trb4, ep4, devaddr, devvars, main, mem, flash, calls>>

\* other: a request that the device does not know.  Configuration comes last.
HostRequest ==
  /\ Enumerating /\ link = "on" /\ ~hconf
  /\ \E r \in {"device", "config", "qualifier", "address", "other", "configuration"} :
       /\ ctl' = [req |-> r, stage |-> "setup"]
       /\ IF r = "configuration" THEN haddr = 1 /\ hmps # 0 /\ UNCHANGED budget
          ELSE IF r = "address" THEN haddr = 0 /\ UNCHANGED budget
          ELSE IF r = "config" THEN hmps = 0 /\ UNCHANGED budget
          ELSE budget > 0 /\ budget' = budget - 1
  /\ UNCHANGED <<fixed, toolvars, link, haddr, hmps, hconf, ringvars, epvars, devvars, main, mem, flash, calls>>

-----------------------------------------------------------------------------
(* usbtool: bulk_mode.                                                     *)
Command == cmds[arg]
Chunk == Min({buf_size, Command.size - pos})
Padded(n) == ((n + Sector - 1) \div Sector) * Sector
Header(k, addr, size) == [k |-> k, addr |-> addr, size |-> size, data |-> <<>>]

ClaimInterface ==
  /\ hpc = "enum" /\ hconf /\ ctl = NoReq /\ main # "boot"
  /\ hpc' = "next" /\ load_addr' = cmds[1].addr
  /\ UNCHANGED <<fixed, arg, pos, bulk, hostvars, ringvars, epvars, devvars, main, mem, flash, calls>>

NextArg ==
  IF arg = Len(cmds) THEN hpc' = "done" /\ UNCHANGED <<arg, pos, load_addr>>
  ELSE hpc' = "next" /\ arg' = arg + 1 /\ pos' = 0 /\ load_addr' = cmds[arg + 1].addr

ToolStays == UNCHANGED <<fixed, hostvars, ringvars, epvars, devvars, main, flash, calls>>

SendHeader ==
  /\ hpc = "next"
  /\ IF Command.k \in {"load", "flash"}
       THEN IF Chunk = 0 THEN NextArg /\ UNCHANGED bulk
            ELSE /\ hpc' = "header" /\ bulk' = Header(Command.k, load_addr, Padded(Chunk))
                 /\ UNCHANGED <<arg, pos, load_addr>>
       ELSE hpc' = "run" /\ bulk' = Header(Command.k, Command.addr, 0) /\ UNCHANGED <<arg, pos, load_addr>>
  /\ ToolStays /\ UNCHANGED mem

SendData ==
  /\ hpc = "header" /\ bulk = NoBulk
  /\ hpc' = "data"
  /\ bulk' = [k |-> "data", addr |-> 0, size |-> Padded(Chunk),
              data |-> [i \in 0..(Padded(Chunk) - 1) |-> IF i < Chunk THEN <<arg, pos + i>> ELSE Zero]]
  /\ UNCHANGED <<arg, pos, load_addr, mem>> /\ ToolStays

\* a chunk of less than buf_size is the last one
DataSent ==
  /\ hpc = "data" /\ bulk = NoBulk
  /\ IF Padded(Chunk) < buf_size THEN NextArg
     ELSE hpc' = "next" /\ pos' = pos + Chunk /\ load_addr' = load_addr + Padded(Chunk) /\ UNCHANGED arg
  /\ UNCHANGED <<bulk, mem>> /\ ToolStays

RunSent ==
  /\ hpc = "run" /\ bulk = NoBulk
  /\ IF Command.k = "call" THEN NextArg ELSE hpc' = "done" /\ UNCHANGED <<arg, pos, load_addr>>
  /\ UNCHANGED <<bulk, mem>> /\ ToolStays

\* libusb_bulk_transfer gives up; packets of the data may have arrived
Timeout ==
  /\ bulk # NoBulk /\ hpc' = "failed" /\ bulk' = NoBulk
  /\ \E n \in {m \in 0..(IF trb4.to = "data" THEN bulk.size - 1 ELSE 0) : m % Sector = 0} :
       mem' = [a \in DOMAIN mem |-> IF a \in trb4.addr..(trb4.addr + n - 1) THEN bulk.data[a - trb4.addr] ELSE mem[a]]
  /\ UNCHANGED <<arg, pos, load_addr>> /\ ToolStays

-----------------------------------------------------------------------------
(* lib/dwc3.c and sramstage/usb_loader.c.                                  *)
HeaderTrb == [to |-> "header", addr |-> 0, size |-> Sector]
submit_ep0(type) == trb0' = type /\ ep0mem' = "trb"
Ep0Next(type) == submit_ep0(type) /\ ep0phase' = type

\* mutant: no transfer is submitted for the first header
set_configuration_NoTrb == /\ phase' = "header" /\ ep4' = [ep4 EXCEPT !.mps = usb_max_packet_size[speed]]
                           /\ UNCHANGED trb4

set_configuration == /\ phase' = "header" /\ ep4' = [ep4 EXCEPT !.mps = usb_max_packet_size[speed]]
                     /\ trb4' = HeaderTrb

prepare_descriptor(req) == desc' = IF req = "config" THEN usb_max_packet_size[speed] ELSE desc

(* The last line: a request that is not known stalls EP0 and waits for a   *)
(* new one; then the assertion of ep0_xfer_complete, that ep0phase has     *)
(* changed, fails.                                                         *)
dwc3_dispatch_control_request(req) ==
  \/ /\ req \in {"device", "config", "qualifier"}
     /\ Ep0Next("data") /\ prepare_descriptor(req)
     /\ UNCHANGED <<devaddr, phase, ep4, trb4, ctl, main>>
  \/ /\ req = "address"
     /\ Ep0Next("status2") /\ devaddr' = 1
     /\ UNCHANGED <<desc, phase, ep4, trb4, ctl, main>>
  \/ /\ req = "configuration"
     /\ Ep0Next("status2") /\ set_configuration
     /\ UNCHANGED <<desc, devaddr, ctl, main>>
  \/ /\ req = "other"
     /\ Ep0Next("setup") /\ ctl' = NoReq /\ main' = "dead"
     /\ UNCHANGED <<desc, devaddr, phase, ep4, trb4>>

Ep0After == IF ep0phase = "data" THEN "status3" ELSE "setup"

ep0_xfer_complete(e) ==
  /\ \/ ep0phase = "setup" /\ dwc3_dispatch_control_request(ep0mem)
     \/ /\ ep0phase \in {"status2", "status3"} \/ (ep0phase = "data" /\ e = "ep1")
        /\ Ep0Next(Ep0After) /\ UNCHANGED <<desc, devaddr, phase, ep4, trb4, ctl, main>>
     \/ /\ ep0phase = "disconnected" \/ (ep0phase = "data" /\ e # "ep1")
        /\ main' = "dead" /\ UNCHANGED <<trb0, ep0mem, ep0phase, desc, devaddr, phase, ep4, trb4, ctl>>
  /\ UNCHANGED <<speed, header, mem, flash, calls>>

process_device_event(e) ==
  /\ ep0phase' = (IF e = "disc" THEN "disconnected" ELSE IF e = "reset" THEN "setup" ELSE ep0phase)
  /\ devaddr' = (IF e = "reset" THEN 0 ELSE devaddr)
  /\ speed' = (IF e = "conn" THEN linkspeed ELSE speed)
  /\ ep4' = (IF e = "conn" THEN [ep4 EXCEPT !.on = TRUE] ELSE ep4)
  /\ UNCHANGED <<trb0, trb4, ep0mem, desc, header, phase, ctl, main, mem, flash, calls>>

DataTrb == [to |-> "data", addr |-> IF header.k = "load" THEN header.addr ELSE Stage, size |-> header.size]

\* a header: data is to follow, the next stage is to be started, or code is called;
\* data: it is in place, or is written to the flash
xfer_complete ==
  /\ IF phase = "header" /\ header.k \in {"load", "flash"}
       THEN /\ IF header.size % Sector = 0 THEN trb4' = DataTrb /\ phase' = "data" /\ UNCHANGED main
               ELSE main' = "dead" /\ UNCHANGED <<trb4, phase>>
            /\ UNCHANGED <<flash, calls>>
     ELSE IF phase = "header" /\ header.k = "start" THEN phase' = "handoff" /\ UNCHANGED <<trb4, main, flash, calls>>
     ELSE \E ops \in {erase_ops(chip)} :
          \E r \in {IF phase # "header" /\ header.k = "flash"
                    THEN sramstage_usb_flash_spi(flash, ops, [i \in 0..(header.size - 1) |-> mem[Stage + i]], header.addr, header.size)
                    ELSE [ok |-> TRUE, image |-> flash]} :
          /\ flash' = r.image
          /\ calls' = IF phase = "header" THEN Append(calls, header.addr) ELSE calls
          /\ IF r.ok THEN trb4' = HeaderTrb /\ phase' = "header" /\ UNCHANGED main
             ELSE main' = "dead" /\ UNCHANGED <<trb4, phase>>
  /\ UNCHANGED <<trb0, ep0mem, desc, header, ep0phase, speed, ep4, devaddr, ctl, mem>>

InIrq == taken > 0
dwc3_irq ==
  /\ main \in {"poll", "halt"} /\ ~InIrq /\ count > 0
  /\ taken' = count /\ todo' = count
  /\ UNCHANGED <<fixed, toolvars, hostvars, ringvars, epvars, evt_pos, ep0phase, phase, speed, ep0mem, desc, header, main, mem, flash, calls>>

NextEvent(p) == (p + 1) % evt_slots

IrqEvent ==
  /\ main \in {"poll", "halt"} /\ todo > 0
  /\ todo' = todo - 1 /\ evt_pos' = NextEvent(evt_pos)
  /\ CASE ring[evt_pos] \in {"ep0", "ep1"} -> ep0_xfer_complete(ring[evt_pos])
       [] ring[evt_pos] = "ep4" -> xfer_complete
       [] OTHER -> process_device_event(ring[evt_pos])
  /\ UNCHANGED <<fixed, toolvars, link, budget, haddr, hmps, hconf, ringvars, linkspeed, taken>>

IrqEnd ==
  /\ main \in {"poll", "halt"} /\ InIrq /\ todo = 0
  /\ count' = count - taken /\ taken' = 0
  /\ UNCHANGED <<fixed, toolvars, hostvars, ring, wpos, epvars, evt_pos, ep0phase, phase, speed, ep0mem, desc, header, todo, main, mem, flash, calls>>

-----------------------------------------------------------------------------
(* sramstage_late.                                                         *)
\* the mask ROM's last event is that it waits for a status stage
BromWaits == count = 1 /\ ring[evt_pos] = "notready"

\* mutant: the event of the mask ROM is acknowledged and not skipped
reuse_NoSkip ==
  /\ main = "boot" /\ BromWaits
  /\ speed' = linkspeed /\ phase' = "header"
  /\ ep4' = [on |-> TRUE, mps |-> usb_max_packet_size[linkspeed]] /\ trb4' = HeaderTrb
  /\ count' = count - 1
  /\ Ep0Next("status3")
  /\ main' = "poll"
  /\ UNCHANGED <<fixed, toolvars, hostvars, ring, wpos, evt_pos, devaddr, linkspeed, desc, header, taken, todo, mem, flash, calls>>

reuse ==
  /\ main = "boot" /\ BromWaits
  /\ speed' = linkspeed /\ phase' = "header"
  /\ ep4' = [on |-> TRUE, mps |-> usb_max_packet_size[linkspeed]] /\ trb4' = HeaderTrb
  /\ count' = count - 1 /\ evt_pos' = NextEvent(evt_pos)
  /\ Ep0Next("status3")
  /\ main' = "poll"
  /\ UNCHANGED <<fixed, toolvars, hostvars, ring, wpos, devaddr, linkspeed, desc, header, taken, todo, mem, flash, calls>>

\* otherwise the controller is reset
reinit_dwc3 ==
  /\ main = "boot" /\ ~BromWaits
  /\ ring' = [i \in DOMAIN ring |-> "none"] /\ wpos' = 0 /\ count' = 0 /\ evt_pos' = 0
  /\ ep4' = [on |-> FALSE, mps |-> 0] /\ trb4' = NoTrb /\ devaddr' = 0
  /\ submit_ep0("setup") /\ ep0phase' = "disconnected"
  /\ main' = "poll"
  /\ UNCHANGED <<fixed, toolvars, hostvars, linkspeed, phase, speed, desc, header, taken, todo, mem, flash, calls>>

\* sees PHASE_HANDOFF; dwc3_halt and next_stage
SeeHandoff == main = "poll" /\ ~InIrq /\ phase = "handoff" /\ main' = "halt"
NextStage == main = "halt" /\ ~InIrq /\ main' = "gone"
Main == (SeeHandoff \/ NextStage)
        /\ UNCHANGED <<fixed, toolvars, hostvars, ringvars, epvars, devvars, mem, flash, calls>>

Init ==
  /\ \E c \in Cases : cmds = c[1] /\ chip = c[2]
  /\ hpc = "enum" /\ arg = 1 /\ pos = 0 /\ load_addr = 0 /\ bulk = NoBulk
  /\ budget = MaxBus
  /\ linkspeed \in {"full", "high"}
  /\ \E p \in 0..(evt_slots - 1), known \in BOOLEAN :
       /\ wpos = (p + 1) % evt_slots /\ evt_pos = p /\ count = 1
       /\ ring = [i \in 0..(evt_slots - 1) |-> IF i = p /\ known THEN "notready" ELSE "none"]
       /\ IF known THEN /\ link = "on" /\ ctl = [req |-> "brom", stage |-> "status"] /\ haddr = 1 /\ hconf = TRUE
                        /\ hmps = usb_max_packet_size[linkspeed]
          ELSE p = 0 /\ link = "off" /\ ctl = NoReq /\ haddr = 0 /\ hconf = FALSE /\ hmps = 0
       /\ devaddr = haddr
  /\ trb0 = "none" /\ trb4 = NoTrb /\ ep4 = [on |-> FALSE, mps |-> 0]
  /\ ep0phase = "disconnected" /\ phase = "header" /\ speed = "low"
  /\ ep0mem = "none" /\ desc = 0 /\ header = [k |-> "none", addr |-> 0, size |-> 0]
  /\ taken = 0 /\ todo = 0
  /\ main = "boot" /\ calls = <<>>
  /\ mem = [a \in 0..(MemTop - 1) |-> Zero] /\ flash = [a \in 0..(FlashTop - 1) |-> Old]

Controller == SetupStage \/ DataStage \/ StatusStage \/ BulkDone
Host == \/ BusEvent("off", "reset", "reset") \/ BusEvent("on", "reset", "reset")
        \/ BusEvent("on", "off", "disc") \/ BusEvent("on", "on", "link")
        \/ Connected \/ HostRequest
        \/ ClaimInterface \/ SendHeader \/ SendData \/ DataSent \/ RunSent
Device == reuse \/ reinit_dwc3 \/ dwc3_irq \/ IrqEvent \/ IrqEnd \/ Main
Stopped == (main \in {"dead", "gone"} \/ hpc \in {"failed", "done"}) /\ UNCHANGED vars
Next == Controller \/ Host \/ Timeout \/ Device \/ Stopped

\* the controller and the processor go on, and so does the host
Fairness == WF_vars(Controller) /\ WF_vars(Host) /\ WF_vars(Device)
Spec == Init /\ [][Next]_vars /\ Fairness

-----------------------------------------------------------------------------
(* Properties.                                                             *)
Unread == count - (taken - todo)
Pending == {ring[(evt_pos + i) % evt_slots] : i \in 0..(Unread - 1)}

TypeOK ==
  /\ hpc \in {"enum", "next", "header", "data", "run", "done", "failed"} /\ arg \in DOMAIN cmds /\ pos \in 0..Command.size
  /\ link \in {"off", "reset", "on"} /\ budget \in 0..MaxBus /\ haddr \in 0..1 /\ devaddr \in 0..1 /\ hconf \in BOOLEAN
  /\ {wpos, evt_pos} \subseteq 0..(evt_slots - 1) /\ count \in 0..evt_slots /\ taken \in 0..count /\ todo \in 0..taken
  /\ ep0phase \in {"setup", "data", "status2", "status3", "disconnected"} /\ phase \in {"header", "data", "handoff"}
  /\ trb4.to \in {"none", "header", "data"} /\ trb4.addr + trb4.size <= MemTop
  /\ main \in {"boot", "poll", "halt", "gone", "dead"}

(* The handler of dwc3.c reads the events that the controller has written  *)
(* and not yet had back, each once and in order, from the first one after  *)
(* those of the mask ROM on.                                               *)
EventsInStep == main # "boot" => (evt_pos + Unread) % evt_slots = wpos

(* When the handler has seen all there is about EP0, its ep0phase, the     *)
(* transfer it has submitted and the stage the host is in agree.  The      *)
(* setup packet, which shares its memory with the transfer, is read before *)
(* it is overwritten.                                                      *)
Ep0InStep ==
  main \notin {"boot", "dead"} =>
    /\ Pending \intersect {"ep0", "ep1", "reset", "disc"} = {} =>
         /\ trb0 = IF ep0phase = "disconnected" THEN "setup" ELSE ep0phase
         /\ CASE ctl.stage = "data" -> ep0phase = "data"
              [] ctl.stage = "status" -> ep0phase \in {"status2", "status3"}
              [] OTHER -> ep0phase \in {"setup", "disconnected"}
    /\ ep0phase = "setup" /\ "ep0" \in Pending => ep0mem # "trb"

(* What usbtool sends is what the loader waits for: a header meets the     *)
(* transfer for a header, data the one set up by its own header.           *)
BulkInStep ==
  bulk # NoBulk /\ trb4 # NoTrb =>
    IF bulk.k = "data" THEN trb4.to = "data" /\ trb4.size = bulk.size ELSE trb4.to = "header"

(* EP4 is enabled and has the packet size that the host was told, at the   *)
(* speed of the link, whenever usbtool runs: through enumeration or        *)
(* through the connection of the mask ROM.                                 *)
EndpointAgrees == hpc # "enum" => ep4.on /\ ep4.mps = hmps /\ hmps = usb_max_packet_size[linkspeed]

(* Host, controller and loader agree at every moment about the transfers   *)
(* on both endpoints and the events that report them.                      *)
TransfersAgree == TypeOK /\ EventsInStep /\ Ep0InStep /\ BulkInStep /\ EndpointAgrees

\* the command line is done with, on both sides
Finished == \/ main = "gone"
            \/ hpc = "done" /\ phase = "header" /\ Unread = 0 /\ trb4 # NoTrb /\ cmds[Len(cmds)].k # "start"
CallsOf(line) == LET only == SelectSeq(line, LAMBDA c : c.k = "call") IN [i \in DOMAIN only |-> only[i].addr]

(* The next stage is entered when, and only when, all that the command     *)
(* line says has been done: every file is in memory as a whole at its      *)
(* address, the calls were made in order, and the header in the buffer is  *)
(* still the one with the entry point.                                     *)
LoadedAsAsked ==
  Finished =>
    /\ \A i \in DOMAIN cmds : cmds[i].k = "load" => \A o \in 0..(cmds[i].size - 1) : mem[cmds[i].addr + o] = <<i, o>>
    /\ calls = CallsOf(cmds)
    /\ main = "gone" => header = [k |-> "start", addr |-> cmds[Len(cmds)].addr, size |-> 0]

(* A file is in the flash as a whole where it was asked for, and what is   *)
(* outside the smallest erase blocks that it touches is as before.         *)
FlashCorrect ==
  LET block == 2^Min(Range(usable(chip)))
      writes == {i \in DOMAIN cmds : cmds[i].k = "flash" /\ cmds[i].size > 0}
      Touched(i) == (cmds[i].addr \div block)..((cmds[i].addr + Padded(cmds[i].size) - 1) \div block)
  IN Finished => /\ \A i \in writes : \A o \in 0..(cmds[i].size - 1) : flash[cmds[i].addr + o] = <<i, o>>
                 /\ \A a \in DOMAIN flash : (\A i \in writes : a \div block \notin Touched(i)) => flash[a] = Old

(* The command line has had its effect, on the memory and on the flash.    *)
DoneAsAsked == LoadedAsAsked /\ FlashCorrect

(* Unless a transfer times out on the host, or an assertion fails, the     *)
(* command line is worked off, and the next stage is started if it says    *)
(* so.                                                                     *)
Finishes == <>(hpc = "failed" \/ dead \/ Finished)
=============================================================================
