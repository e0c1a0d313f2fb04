----------------------------- MODULE PageTables -----------------------------
(***************************************************************************)
(* The page tables of a stage: mmu_multimap (aarch64/mmu_asm.S), the loop  *)
(* of rk3399/entry.S over initial_mappings, mmu_map_range and              *)
(* mmu_unmap_range (lib/mmu.c).  Addresses count pages.  A table has       *)
(* 2^Bits entries, and an entry of level l stands for Size(l) pages.       *)
(*                                                                         *)
(* What the calls ask for is in space; what the hardware finds in the      *)
(* tables is Translate.                                                    *)
(***************************************************************************)
EXTENDS Integers, Sequences
LOCAL INSTANCE FiniteSetsExt

CONSTANTS
  Bits,                 \* MAPPING_LEVEL_SHIFT
  num_pagetables,
  Programs              \* the calls that a stage may make, each a sequence of calls

ASSUME PageTablesAssumption == Bits \in Nat \ {0} /\ num_pagetables \in Nat \ {0}

VARIABLES
  pagetables, next_pagetable,
  calls,                \* the calls still to be made
  running,              \* "idle", "multimap", "unmap", or what stopped the stage
  mm,                   \* the registers of mmu_multimap
  first, last,          \* of mmu_unmap_range
  stale,                \* pages whose translation the TLB may hold, but not the tables
  space, before         \* the address space that has been asked for, and before the call

ptvars == <<pagetables, next_pagetable, calls, running, mm, first, last, stale, space, before>>

Level == 0..3
Size(l) == 2^(Bits * (3 - l))
VA == 0..2^(4 * Bits) - 1
Slot == 0..2^Bits - 1
Pos(l, a) == (a \div Size(l)) % 2^Bits

None == [pa |-> 0, attr |-> "none"]
Empty == [kind |-> "empty", n |-> 0, attr |-> "none"]
NoTable == [i \in Slot |-> Empty]
Registers == [level |-> 0, ptr |-> [l \in Level |-> 0], addr |-> 0, desc |-> None, next |-> 0, rest |-> <<>>]

\* the table of level 0 has been cleared
PtInit(program) ==
  /\ pagetables = [t \in 0..num_pagetables - 1 |-> NoTable] /\ next_pagetable = 1
  /\ calls = program /\ running = "idle" /\ mm = Registers /\ first = 0 /\ last = 0
  /\ stale = {} /\ space = [a \in VA |-> None] /\ before = [a \in VA |-> None]

-----------------------------------------------------------------------------
(* The hardware.                                                           *)
RECURSIVE Walk(_, _, _, _)
Walk(tables, l, t, a) ==
  LET e == tables[t][Pos(l, a)] IN
  CASE e.kind = "table" -> Walk(tables, l + 1, e.n, a)
    [] (e.kind = "block" /\ l \in {1, 2}) \/ (e.kind = "page" /\ l = 3) ->
         [pa |-> (e.n - (e.n % Size(l))) + (a % Size(l)), attr |-> e.attr]
    [] OTHER -> None
Translate(a) == Walk(pagetables, 0, 0, a)

-----------------------------------------------------------------------------
(* mmu_multimap; mm.rest begins with the record whose desc comes next.     *)

\* the first loads
Load(map) == [Registers EXCEPT !.addr = map[1].addr, !.desc = map[1].desc, !.next = map[2].addr, !.rest = Tail(map)]

\* next_mapping: empty ranges are passed over
NextMapping(m) ==
  LET i == Min({j \in DOMAIN m.rest : m.rest[j].desc = None \/ m.rest[j + 1].addr # m.addr}) IN
  [m EXCEPT !.desc = m.rest[i].desc, !.rest = SubSeq(m.rest, i + 1, Len(m.rest)),
            !.next = IF m.rest[i].desc = None THEN @ ELSE m.rest[i + 1].addr]

\* mutant: the end of the mapping is not looked at
Here_NoEnd(m) ==
  /\ m.level > 0
  /\ m.level < 3 => m.addr % Size(m.level) = 0 /\ (m.desc.pa - m.addr) % Size(m.level) = 0

\* an entry of this level is made; the last level takes every mapping
Here(m) ==
  /\ m.level > 0
  /\ m.level < 3 => /\ m.addr % Size(m.level) = 0 /\ (m.desc.pa - m.addr) % Size(m.level) = 0
                    /\ m.addr + Size(m.level) <= m.next

\* the return labels: the lowest level whose table has not come to its end; -1: wrapping_mapping
Back(m) == Max({-1} \union {l \in 0..m.level - 1 : Pos(l, m.addr) # 0})

\* the registers after an entry has been made
Advance(m) ==
  LET moved == [m EXCEPT !.addr = @ + Size(m.level), !.desc.pa = @ + Size(m.level)] IN
  IF moved.addr = m.next THEN NextMapping(moved)
  ELSE IF Pos(m.level, m.addr) = 2^Bits - 1 THEN [moved EXCEPT !.level = Back(moved)]
  ELSE moved

\* entry.S calls again while there are mappings; map_range has given just one
Continue(m) ==
  /\ running' = IF m.level < 0 THEN "wrapping"
                ELSE IF m.desc # None \/ (m.rest # <<>> /\ m.rest[1].desc # None) THEN "multimap" ELSE "idle"
  /\ mm' = IF running' # "multimap" THEN Registers ELSE IF m.desc = None THEN Load(m.rest) ELSE m

MapEntry ==
  /\ running = "multimap" /\ Here(mm)
  /\ LET t == mm.ptr[mm.level]
         i == Pos(mm.level, mm.addr) IN
     IF pagetables[t][i] # Empty THEN running' = "overlapping" /\ UNCHANGED <<pagetables, mm>>
     ELSE /\ pagetables' = [pagetables EXCEPT ![t][i] = [kind |-> IF mm.level = 3 THEN "page" ELSE "block",
                                                        n |-> mm.desc.pa, attr |-> mm.desc.attr]]
          /\ Continue(Advance(mm))
  /\ UNCHANGED <<next_pagetable, calls, first, last, stale, space, before>>

Down(m, t) == [m EXCEPT !.level = @ + 1, !.ptr[m.level + 1] = t]

\* the next table, cleared
alloc_page_table(tables) == [tables EXCEPT ![next_pagetable] = NoTable]

\* the subtable is there, or there is memory for it; a block is not told from a table
GoDeeper ==
  /\ running = "multimap" /\ ~Here(mm)
  /\ LET t == mm.ptr[mm.level]
         i == Pos(mm.level, mm.addr)
         e == pagetables[t][i] IN
     CASE e.kind = "table" ->
            /\ mm' = Down(mm, e.n)
            /\ UNCHANGED <<pagetables, next_pagetable, running>>
       [] e.kind = "empty" /\ next_pagetable < num_pagetables ->
            /\ mm' = Down(mm, next_pagetable)
            /\ pagetables' = [alloc_page_table(pagetables) EXCEPT ![t][i] =
                                [kind |-> "table", n |-> next_pagetable, attr |-> "none"]]
            /\ next_pagetable' = next_pagetable + 1 /\ UNCHANGED running
       [] OTHER -> /\ running' = IF e.kind = "empty" THEN "ran out of pagetables" ELSE "block taken for a table"
                   /\ UNCHANGED <<pagetables, next_pagetable, mm>>
  /\ UNCHANGED <<calls, first, last, stale, space, before>>

-----------------------------------------------------------------------------
(* The calls.                                                              *)

Covers(map, i, a) == map[i].desc # None /\ map[i].addr <= a /\ a < map[i + 1].addr
Asked(map, a) ==
  LET in == {i \in 1..Len(map) - 1 : Covers(map, i, a)} IN
  IF in = {} THEN space[a]
  ELSE LET m == map[Max(in)] IN [pa |-> m.desc.pa + a - m.addr, attr |-> m.desc.attr]

\* entry.S with initial_mappings, or map_range
CallMultimap ==
  /\ running = "idle" /\ calls # <<>> /\ Head(calls).fn = "multimap"
  /\ running' = "multimap" /\ mm' = Load(Head(calls).map)
  /\ calls' = Tail(calls) /\ before' = space
  /\ space' = [a \in VA |-> Asked(Head(calls).map, a)]
  /\ UNCHANGED <<pagetables, next_pagetable, first, last, stale>>

CallUnmap ==
  /\ running = "idle" /\ calls # <<>> /\ Head(calls).fn = "unmap"
  /\ running' = "unmap" /\ first' = Head(calls).first /\ last' = Head(calls).last
  /\ calls' = Tail(calls) /\ before' = space
  /\ space' = [a \in VA |-> IF a \in first'..last' THEN None ELSE space[a]]
  /\ UNCHANGED <<pagetables, next_pagetable, mm, stale>>

\* unmap_one, the descent: the table and the level whose entries are taken out, and their end;
\* at -1 an entry is not the table that it should be
RECURSIVE Descend(_, _, _, _)
Descend(l, t, from, to) ==
  LET aligned == (to + 1) % Size(l) = 0
      beyond == from \div Size(l) < to \div Size(l)
      e == pagetables[t][Pos(l, from)] IN
  CASE l > 0 /\ from % Size(l) = 0 /\ (aligned \/ beyond) ->
         [level |-> l, table |-> t, to |-> IF aligned THEN to ELSE to - (to % Size(l)) - 1]
    [] OTHER -> IF e.kind # "table" THEN [level |-> -1, table |-> t, to |-> to]
                ELSE Descend(l + 1, e.n, from, IF beyond THEN (from - (from % Size(l))) + Size(l) - 1 ELSE to)

\* tlbi vae3is for every entry: the pages it had stood for
Invalidated(l, from, to) ==
  UNION {from + i * Size(l)..from + (i + 1) * Size(l) - 1 : i \in 0..Pos(l, to) - Pos(l, from)}

\* mmu_unmap_range: first += 1
Rest(to) == to + 1

UnmapOne ==
  /\ running = "unmap"
  /\ LET d == Descend(0, 0, first, last)
         slots == Pos(d.level, first)..Pos(d.level, d.to) IN
     IF d.level < 0 \/ \E i \in slots : pagetables[d.table][i].kind # (IF d.level = 3 THEN "page" ELSE "block")
       THEN running' = "not mapped so" /\ UNCHANGED <<pagetables, first, stale>>
       ELSE /\ pagetables' = [pagetables EXCEPT ![d.table] = [i \in Slot |-> IF i \in slots THEN Empty ELSE @[i]]]
            /\ stale' = (stale \union first..d.to) \ Invalidated(d.level, first, d.to)
            /\ IF d.to < last THEN first' = Rest(d.to) /\ UNCHANGED running
               ELSE running' = "idle" /\ first' = 0
  /\ last' = IF running' = "unmap" THEN last ELSE 0
  /\ UNCHANGED <<next_pagetable, calls, mm, space, before>>

PtStep == MapEntry \/ GoDeeper \/ CallMultimap \/ CallUnmap \/ UnmapOne
PtDone == running = "idle" /\ calls = <<>>

-----------------------------------------------------------------------------
(* When no call runs, the hardware finds at every address what the calls   *)
(* have asked for, with the TLB too: mappings of every level were made as  *)
(* large as they may be and no larger (mmu_asm.S:73), none is missing at   *)
(* the end of a table, no call failed, and none was left behind by         *)
(* unmap_one (mmu.c:179), which undoes in other pieces what was made.      *)
SpaceAsAsked ==
  running \in {"idle", "multimap", "unmap"}
    /\ (running = "idle" => stale = {} /\ \A a \in VA : Translate(a) = space[a])

(* While tables are changed, with the MMU on and the code and the stack    *)
(* mapped by them, an address has the translation from before the call or  *)
(* the one that is being made: a table that is put in the place of nothing *)
(* is empty first, and one that is in use stays (mmu_asm.S:152).           *)
InUseUndisturbed == \A a \in VA : Translate(a) \in {before[a], space[a]}

(* The address space is right after every call and never wrong during one. *)
SpaceSound == SpaceAsAsked /\ InUseUndisturbed

(* Every call comes to its end: mmu_multimap goes on to deeper levels and  *)
(* back without going round, and mmu_unmap_range gets past every part      *)
(* (mmu.c:219).                                                            *)
CallsEnd == <>(PtDone \/ running \notin {"idle", "multimap", "unmap"})
=============================================================================
