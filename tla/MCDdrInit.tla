------------------------------ MODULE MCDdrInit ------------------------------
(* An initial state is DRAM initialization about to begin or, beside one   *)
(* that has ended, the page tables of a stage or the chips on two          *)
(* channels.                                                               *)
EXTENDS DdrInit, PageTables, Geometry

At4K(addr, attr, pa) == [addr |-> addr, desc |-> [pa |-> pa, attr |-> attr]]
To(addr) == [addr |-> addr, desc |-> None]
Multimap(map) == [fn |-> "multimap", map |-> map, first |-> 0, last |-> 0]
MapRange(from, to, attr, pa) == Multimap(<<At4K(from, attr, pa), To(to + 1)>>)
Unmap(from, to) == [fn |-> "unmap", map |-> <<>>, first |-> from, last |-> to]

\* the binary from b to e with read-only pages up to ro and a section that may be empty, and two registers at the top
Base(b, ro, u, e) == <<At4K(b, "ro", b), At4K(ro, "rw", ro), At4K(u, "wt", u), At4K(u, "uncached", u), To(e),
                       At4K(62, "dev", 70), At4K(63, "dev", 9), To(64)>>
Stack(va, to, pa) == <<At4K(va, "rw", pa), To(to)>>
End == <<To(0)>>

\* sramstage: above the DRAM, whose size is top, and then one of its late tasks
Sram(b, u, e, top) ==
  <<Multimap(Base(b, b + 1, u, e) \o Stack(60, 61, b + 1) \o End), MapRange(61, 61, "rw", b + 1),
    MapRange(0, top - 1, "dev", 0), Unmap(0, top - 1)>>
Late(top, ram) == {<<MapRange(56, 56, "uncached", 56), MapRange(0, top - 1, "uncached", 0)>>, <<MapRange(0, ram - 1, "rw", 0)>>}
SramPrograms ==
  UNION {{Sram(57, u, e, top) \o late : u \in {58, 59}, e \in {59, 60}, late \in Late(top, 32)} : top \in {36, 48, 52}}

\* dramstage: the binary is in the DRAM
Dram(b, u) ==
  <<Multimap(Base(b, b + 1, u, b + 3) \o <<At4K(0, "rw", 0), To(b), At4K(b + 4, "rw", b + 4), To(52), At4K(57, "rw", 57), To(59)>>
             \o Stack(60, 62, b + 1) \o End),
    MapRange(52, 56, "dev", 52)>>
DramPrograms == UNION {{Dram(b, b + 2), Dram(b, b + 3)} : b \in {16, 17, 24}}
MCPrograms == SramPrograms \union DramPrograms

\* DRAM initialization that found nothing to do
Over == /\ chan_st = [c \in Channel |-> "CONFIGURED"] /\ geo = [c \in Channel |-> {}]
        /\ int_status = [c \in Channel |-> {}] /\ busy = [c \in Channel |-> FALSE] /\ enabled = Channel
        /\ sync = 0 /\ asleep = {} /\ primary = "dead" /\ secondary = "dead" /\ expected = 0
        /\ phase = [c \in Channel |-> 0] /\ failed = [c \in Channel |-> FALSE]
        /\ clock = 0 /\ trained = [c \in Channel |-> 0] /\ flags = {} /\ died = "no"

MCInit == \/ Init /\ PtInit(<<>>) /\ sample = NoSample
          \/ Over /\ sample = NoSample /\ \E p \in Programs : PtInit(p)
          \/ Over /\ PtInit(<<>>) /\ sample \in GeometrySamples
MCNext == /\ \/ Next /\ UNCHANGED ptvars
             \/ PtStep /\ UNCHANGED vars
          /\ UNCHANGED sample
MCSpec == MCInit /\ [][MCNext]_<<vars, ptvars, sample>> /\ Fairness /\ WF_ptvars(PtStep)

(* DRAM initialization comes to its end, and so does every call that       *)
(* changes page tables.                                                    *)
AllEnds == Ends /\ CallsEnd
=============================================================================
