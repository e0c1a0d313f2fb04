---------------------------- MODULE PayloadProofs ----------------------------
(* How a payload is found and replaced: the scan of the partition table,   *)
(* for tables and buffers of any size and any medium with 512-byte blocks, *)
(* and the update scheme, for any number of updates.                       *)
EXTENDS Gpt, PayloadUpdate, TLAPS

\* time limits of the provers
USE SMTT(30), ZenonT(40)

-----------------------------------------------------------------------------
(* The scan of the partition table.                                        *)

Block512 == BlockSize = 4 /\ MbrSize = 4

\* Where the buffer is on the medium while the table is read.
Window ==
  /\ base \in Nat /\ base % 4 = 0
  /\ filled \in 0..BufSize /\ consumed \in 0..filled
  /\ pc = "mbr" => base = 0 /\ consumed = 0
  /\ pc = "header" => base = 0 /\ consumed = 0 /\ filled >= 4
  /\ pc = "table" => base = 0 /\ consumed = 4 /\ filled >= 8
  /\ pc = "entry" =>
       /\ i < NumEntries
       /\ base + consumed = 8 + i
       /\ filled = consumed => filled = BufSize

\* An entry of type t that line 130 does not reject.
Of(k, t) == disk.entries[k].type = t /\ Usable(disk.entries[k])

\* What mask, first and last say of the entries before i.
FirstOf(k, t) == Of(k, t) /\ \A j \in 1..(k - 1) : ~Of(j, t)
Scanned(t) ==
  /\ t \in mask => \E k \in 1..i : FirstOf(k, t)
  /\ t \notin mask => \A k \in 1..i : ~Of(k, t)
  /\ \A k \in 1..i : FirstOf(k, t) =>
       first[t] = disk.entries[k].first /\ last[t] = disk.entries[k].last

IInv ==
  /\ disk \in Disk /\ i \in 0..NumEntries /\ mask \in SUBSET PayloadType
  /\ first \in [PayloadType -> Nat] /\ last \in [PayloadType -> Nat]
  /\ Window
  /\ pc \in {"mbr", "header", "table"} => i = 0 /\ mask = {}
  /\ pc \in {"choose", "payload"} => i = NumEntries
  /\ pc \in {"entry", "choose", "payload"} => \A t \in PayloadType : Scanned(t)
  /\ pc = "payload" => mask # {} /\ blob.lba = first[UsedIndex(mask)]

\* A block that starts with entry n is found by dividing.
LEMMA BlockOfEntry ==
  ASSUME NEW n \in Nat, n % 4 = 0
  PROVE  (2 + n \div 4) * 4 = 8 + n
  OBVIOUS

\* When the buffer is used up, the restart begins with entry i.
LEMMA RestartInPlace ==
  ASSUME Block512, IInv, pc = "entry", filled = consumed
  PROVE  RestartLba * BlockSize = 8 + i
<1>1. i \in Nat /\ base \in Nat /\ base % 4 = 0 /\ base + BufSize = 8 + i
  BY DEF IInv, Window
<1>2. BufSize \in Nat /\ BufSize % 4 = 0
  BY SizeAssumption DEF Block512
<1>3. i % 4 = 0
  BY <1>1, <1>2
<1>. QED BY <1>1, <1>3, BlockOfEntry DEF RestartLba, EntriesPerBlock, Block512

\* pump gives what was asked for or everything up to the end of the buffer.
LEMMA FilledFacts ==
  ASSUME NEW c \in Nat, NEW f \in 0..BufSize, NEW min \in Nat, NEW g \in Filled(c, f, min)
  PROVE  g \in f..BufSize /\ (g - c >= min \/ g = BufSize)
  BY SizeAssumption DEF Filled

\* The medium has entry i of the table at its place.
LEMMA EntryAt ==
  ASSUME Block512, disk \in Disk, i \in 0..NumEntries, i < NumEntries
  PROVE  At(8 + i) = disk.entries[i + 1] /\ At(8 + i) \in Entry
<1>1. disk.entries \in Seq(Entry)
  BY DEF Disk
<1>2. NumEntries \in Nat /\ NumEntries = Len(disk.entries)
  BY <1>1 DEF NumEntries
<1>3. At(8 + i) = disk.entries[i + 1]
  BY <1>2 DEF At, Block512
<1>. QED BY <1>1, <1>2, <1>3

\* Taking entry i extends what is known to the entries up to i.
LEMMA TakeScans ==
  ASSUME IInv, i < NumEntries, \A t \in PayloadType : Scanned(t),
         NEW e, e = disk.entries[i + 1], e \in Entry,
         TakeEntry(e), i' = i + 1, disk' = disk
  PROVE  /\ mask' \in SUBSET PayloadType
         /\ first' \in [PayloadType -> Nat] /\ last' \in [PayloadType -> Nat]
         /\ \A t \in PayloadType : Scanned(t)'
<1>1. i \in Nat /\ first \in [PayloadType -> Nat] /\ last \in [PayloadType -> Nat] /\ mask \in SUBSET PayloadType
  BY DEF IInv
<1>2. e.first \in Nat /\ e.last \in Nat
  BY DEF Entry
<1>3. mask' \in SUBSET PayloadType /\ first' \in [PayloadType -> Nat] /\ last' \in [PayloadType -> Nat]
  BY <1>1, <1>2 DEF TakeEntry
<1>4. ASSUME NEW t \in PayloadType PROVE Scanned(t)'
  <2>1. \A k : Of(k, t)' = Of(k, t)
    BY DEF Of, Usable, Bogus
  <2>9. \A k : FirstOf(k, t)' = FirstOf(k, t)
    BY <2>1 DEF FirstOf
  <2>2. Of(i + 1, t) <=> e.type = t /\ ~Bogus(e)
    BY DEF Of, Usable
  <2>3. Scanned(t)
    OBVIOUS
  <2>4. CASE t \in mask
    <3>1. t \in mask' /\ first'[t] = first[t] /\ last'[t] = last[t]
      BY <1>1, <2>4 DEF TakeEntry
    <3>2. PICK k \in 1..i : FirstOf(k, t)
      BY <2>3, <2>4 DEF Scanned
    <3>3. ~FirstOf(i + 1, t)
      <4>1. k \in 1..((i + 1) - 1) /\ Of(k, t)
        BY <1>1, <3>2 DEF FirstOf
      <4>. QED BY <4>1, ZenonT(40) DEF FirstOf
    <3>. QED BY <1>1, <2>1, <2>9, <2>3, <3>1, <3>2, <3>3 DEF Scanned
  <2>5. CASE t \notin mask /\ e.type = t
    <3>1. first'[t] = e.first /\ last'[t] = e.last /\ (t \in mask' <=> ~Bogus(e))
      BY <1>1, <2>5 DEF TakeEntry
    <3>2. \A k \in 1..i : ~Of(k, t)
      BY <2>3, <2>5 DEF Scanned
    <3>3. \A k \in 1..(i + 1) : Of(k, t) => k = i + 1 /\ ~Bogus(e)
      BY <1>1, <2>2, <3>2
    <3>4. Of(i + 1, t) => FirstOf(i + 1, t)
      BY <1>1, <3>2 DEF FirstOf
    <3>. QED BY <1>1, <2>1, <2>9, <2>2, <2>5, <3>1, <3>3, <3>4 DEF Scanned, FirstOf
  <2>6. CASE t \notin mask /\ e.type # t
    <3>1. t \notin mask'
      BY <2>6 DEF TakeEntry
    <3>2. \A k \in 1..i : ~Of(k, t)
      BY <2>3, <2>6 DEF Scanned
    <3>3. \A k \in 1..(i + 1) : ~Of(k, t)
      BY <1>1, <2>2, <2>6, <3>2
    <3>. QED BY <1>1, <2>1, <2>9, <3>1, <3>3 DEF Scanned, FirstOf
  <2>. QED BY <2>4, <2>5, <2>6
<1>. QED BY <1>3, <1>4

\* One round of the loop, with entry i at c of the buffer.
LEMMA LoopIInv ==
  ASSUME Block512, IInv, pc = "entry",
         NEW b \in Nat, b % 4 = 0, NEW f \in 0..BufSize, NEW c \in 0..f, c < f, b + c = 8 + i,
         Loop(b, c, f), UNCHANGED disk
  PROVE  IInv'
<1>. DEFINE min == IF i < NumEntries - 1 THEN 1 ELSE 0
<1>1. i \in Nat /\ i < NumEntries /\ NumEntries \in Nat /\ disk \in Disk /\ NumEntries' = NumEntries
  <2>1. disk.entries \in Seq(Entry)
    BY DEF IInv, Disk
  <2>. QED BY <2>1 DEF IInv, Window, NumEntries
<1>2. At(b + c) = disk.entries[i + 1] /\ At(b + c) \in Entry
  BY <1>1, EntryAt
<1>3. i' = i + 1 /\ base' = b /\ consumed' = c + 1 /\ TakeEntry(At(b + c))
  BY DEF Loop
<1>4. \A t \in PayloadType : Scanned(t)
  BY DEF IInv
<1>5. /\ mask' \in SUBSET PayloadType
      /\ first' \in [PayloadType -> Nat] /\ last' \in [PayloadType -> Nat]
      /\ \A t \in PayloadType : Scanned(t)'
  BY <1>1, <1>2, <1>3, <1>4, TakeScans
<1>6. filled' \in f..BufSize
  <2>1. min \in Nat /\ c + 1 \in Nat
    OBVIOUS
  <2>2. filled' \in Filled(c + 1, f, min) \/ filled' = f
    BY DEF Loop
  <2>. QED BY <2>1, <2>2, FilledFacts, SizeAssumption
<1>7. pc' \in {"entry", "choose", "done"}
      /\ (pc' = "entry" => i' < NumEntries)
      /\ (pc' = "choose" => i' = NumEntries)
  BY <1>1, <1>3 DEF Loop, Return
<1>8. pc' = "entry" /\ filled' = consumed' => filled' = BufSize
  <2>1. SUFFICES ASSUME pc' = "entry", filled' = consumed' PROVE filled' = BufSize
    OBVIOUS
  <2>2. i < NumEntries - 1
    BY <1>1, <1>3, <1>7, <2>1
  <2>3. filled' \in Filled(c + 1, f, 1)
    BY <2>1, <2>2 DEF Loop, Return
  <2>. QED BY <1>3, <2>1, <2>3, FilledFacts, SizeAssumption
<1>9. Window'
  BY <1>1, <1>3, <1>6, <1>7, <1>8, SizeAssumption DEF Window
<1>. QED BY <1>1, <1>3, <1>5, <1>7, <1>9 DEF IInv

\* The scan starts at the beginning of the medium.
LEMMA InitIInv == Init => IInv
<1>. SUFFICES ASSUME Init PROVE IInv
  OBVIOUS
<1>1. disk \in Disk
  BY DisksAssumption DEF Init
<1>2. NumEntries \in Nat
  BY <1>1 DEF Disk, NumEntries
<1>. QED BY <1>1, <1>2, SizeAssumption DEF Init, IInv, Window

\* Every step of boot_blockdev keeps the invariant.
LEMMA NextIInv == Block512 /\ IInv /\ [Next]_vars => IInv'
<1>. SUFFICES ASSUME Block512, IInv, [Next]_vars PROVE IInv'
  OBVIOUS
<1>1. /\ disk \in Disk /\ base \in Nat /\ filled \in 0..BufSize /\ consumed \in 0..filled
      /\ NumEntries \in Nat /\ i \in 0..NumEntries
  <2>1. disk.entries \in Seq(Entry)
    BY DEF IInv, Disk
  <2>. QED BY <2>1 DEF IInv, Window, NumEntries
<1>2. disk' = disk
  BY DEF Next, ReadMbr, ReadHeader, ReadTable, ReadEntry, Restart, Choose, LoadPayload, Done, vars
<1>3. NumEntries' = NumEntries
  BY <1>2 DEF NumEntries
<1>4. UNCHANGED <<i, mask, first, last>> => \A t \in PayloadType : Scanned(t)' = Scanned(t)
  BY <1>2 DEF Scanned, FirstOf, Of, Usable, Bogus
<1>5. CASE ReadMbr
  <2>1. CASE pc' = "header"
    <3>1. base' = base /\ consumed' = 0 /\ filled' \in Filled(0, filled, 4)
      BY <1>5, <2>1 DEF ReadMbr, PumpFails, Pump, Return, Block512, IInv, Window
    <3>2. filled' \in filled..BufSize /\ filled' >= 4
      BY <3>1, <1>1, FilledFacts, SizeAssumption DEF Block512
    <3>. QED BY <1>1, <1>2, <1>3, <1>5, <2>1, <3>1, <3>2, SizeAssumption DEF ReadMbr, IInv, Window
  <2>2. CASE pc' = "done"
    <3>1. base' = base /\ consumed' \in Nat /\ consumed' = consumed /\ filled' \in filled..BufSize
      <4>1. consumed = 0
        BY <1>5 DEF ReadMbr, IInv, Window
      <4>2. base' = base /\ consumed' = consumed /\ (filled' = filled \/ filled' \in Filled(0, filled, 4))
        BY <1>5, <4>1 DEF ReadMbr, PumpFails, Pump, Block512, window
      <4>. QED BY <1>1, <4>1, <4>2, FilledFacts, SizeAssumption
    <3>. QED BY <1>1, <1>2, <1>3, <1>5, <2>2, <3>1, SizeAssumption DEF ReadMbr, IInv, Window
  <2>. QED BY <1>5, <2>1, <2>2 DEF ReadMbr, PumpFails, Return
<1>6. CASE ReadHeader
  <2>1. pc = "header" /\ base = 0 /\ consumed = 0 /\ filled >= 4
    BY <1>6 DEF ReadHeader, IInv, Window
  <2>2. base' = base /\ (\/ consumed' = consumed /\ filled' = filled /\ pc' = "done"
                         \/ consumed' = 4 /\ filled' \in Filled(4, filled, 4) /\ pc' \in {"table", "done"})
    BY <1>6, <2>1 DEF ReadHeader, PumpFails, Pump, Block512, window, Return
  <2>3. filled' \in filled..BufSize /\ consumed' <= filled' /\ (pc' = "table" => consumed' = 4 /\ filled' >= 8)
    BY <1>1, <2>1, <2>2, FilledFacts, SizeAssumption DEF Block512
  <2>4. UNCHANGED <<i, mask, first, last>>
    BY <1>6 DEF ReadHeader
  <2>. QED BY <1>1, <1>2, <1>3, <2>1, <2>2, <2>3, <2>4, SizeAssumption DEF IInv, Window
<1>7. CASE ReadTable
  <2>1. pc = "table" /\ base = 0 /\ consumed = 4 /\ filled >= 8 /\ i = 0 /\ mask = {}
    BY <1>7 DEF ReadTable, IInv, Window
  <2>2. base' = base /\ (\/ consumed' = consumed /\ filled' = filled /\ pc' = "done"
                         \/ consumed' = 8 /\ filled' \in Filled(8, filled, 1)
                            /\ pc' = IF NumEntries > 0 THEN "entry" ELSE "choose")
    BY <1>7, <2>1 DEF ReadTable, PumpFails, Pump, Block512, window, Return
  <2>3. filled' \in filled..BufSize /\ consumed' <= filled'
        /\ (pc' # "done" => filled' - consumed' >= 1 \/ filled' = BufSize)
    BY <1>1, <2>1, <2>2, FilledFacts, SizeAssumption DEF Block512
  <2>4. UNCHANGED <<i, mask, first, last>>
    BY <1>7 DEF ReadTable
  <2>5. \A t \in PayloadType : Scanned(t)'
    BY <1>4, <2>1, <2>4 DEF Scanned
  <2>. QED BY <1>1, <1>2, <1>3, <2>1, <2>2, <2>3, <2>4, <2>5, SizeAssumption DEF IInv, Window
<1>8. CASE ReadEntry
  <2>1. base + consumed = 8 + i /\ consumed < filled /\ base % 4 = 0
    BY <1>1, <1>8, SizeAssumption DEF ReadEntry, IInv, Window
  <2>. QED BY <1>1, <1>2, <1>8, <2>1, LoopIInv DEF ReadEntry
<1>9. CASE Restart
  <2>1. pc = "entry" /\ filled = consumed
    BY <1>1, <1>9, SizeAssumption DEF Restart
  <2>2. RestartLba * BlockSize = 8 + i
    BY <2>1, RestartInPlace
  <2>3. CASE \E st \in Fault : Return(st) /\ UNCHANGED <<window, i, mask, first, last>>
    BY <1>1, <1>2, <1>3, <2>3 DEF Return, window, IInv, Window
  <2>4. ASSUME NEW f \in Filled(0, 0, 1), Loop(RestartLba * BlockSize, 0, f) PROVE IInv'
    <3>1. f \in 0..BufSize /\ 0 < f
      BY <2>4, FilledFacts, SizeAssumption DEF Block512
    <3>2. RestartLba * BlockSize \in Nat /\ (RestartLba * BlockSize) % 4 = 0
      <4>1. base \in Nat /\ base % 4 = 0 /\ base + BufSize = 8 + i /\ BufSize \in Nat /\ BufSize % 4 = 0
        BY <2>1, SizeAssumption DEF IInv, Window, Block512
      <4>. QED BY <1>1, <2>2, <4>1
    <3>. QED BY <1>1, <1>2, <2>1, <2>2, <2>4, <3>1, <3>2, LoopIInv
  <2>. QED BY <1>9, <2>3, <2>4 DEF Restart
<1>10. CASE Choose
  BY <1>1, <1>2, <1>3, <1>4, <1>10 DEF Choose, Return, window, IInv, Window
<1>11. CASE LoadPayload
  BY <1>1, <1>2, <1>3, <1>11 DEF LoadPayload, Return, window, IInv, Window
<1>12. CASE UNCHANGED vars
  BY <1>1, <1>2, <1>3, <1>4, <1>12 DEF vars, window, IInv, Window
<1>. QED BY <1>5, <1>6, <1>7, <1>8, <1>9, <1>10, <1>11, <1>12 DEF Next, Done

\* The block size does not change.
LEMMA RigidBlock512 == Block512 => Block512'
  BY DEF Block512

\* With 512-byte blocks the loop of boot_blockdev looks at entry i in round i,
\* also after the buffer was used up and the read was started again.
THEOREM EntriesInPlace == Block512 /\ Spec => []EntryInPlace
<1>1. Block512 /\ IInv => EntryInPlace
  <2>. SUFFICES ASSUME Block512, IInv, pc = "entry" PROVE Position = 2 * BlockSize + i
    BY DEF EntryInPlace
  <2>1. CASE filled = consumed
    BY <2>1, RestartInPlace DEF Position, Block512, IInv, Window
  <2>2. CASE filled # consumed
    BY <2>2 DEF Position, Block512, IInv, Window
  <2>. QED BY <2>1, <2>2
<1>. QED BY InitIInv, NextIInv, RigidBlock512, <1>1, PTL DEF Spec

\* At the end of the scan mask is the set of types with a usable entry.
LEMMA ScannedAll ==
  ASSUME IInv, pc \in {"choose", "payload"}, NEW t \in PayloadType
  PROVE  /\ t \in mask <=> Earliest(t) # {}
         /\ \A k \in Earliest(t) : first[t] = disk.entries[k].first /\ last[t] = disk.entries[k].last
<1>1. Scanned(t) /\ i = NumEntries
  BY DEF IInv
<1>2. \A k : k \in Earliest(t) <=> k \in 1..i /\ FirstOf(k, t)
  BY <1>1 DEF Earliest, Of, FirstOf
<1>3. \A k \in 1..i : FirstOf(k, t) => Of(k, t)
  BY DEF FirstOf
<1>. QED BY <1>1, <1>2, <1>3 DEF Scanned

\* With 512-byte blocks the scan finds the first usable entry of every payload
\* type, for any number of entries.
THEOREM ScanFindsFirst == Block512 /\ Spec => []ScanComplete
<1>1. IInv => ScanComplete
  BY ScannedAll DEF ScanComplete
<1>. QED BY InitIInv, NextIInv, RigidBlock512, <1>1, PTL DEF Spec

\* The program counter, the read of the payload and the result.
Outcome ==
  /\ pc \in {"mbr", "header", "table", "entry", "choose", "payload", "done"}
  /\ blob \in [lba : Nat, count : Nat] /\ res \in Iost

\* Every step gives boot_blockdev a result of enum iost, and a read that starts
\* at a block number.
LEMMA NextOutcome == IInv /\ Outcome /\ [Next]_vars => Outcome'
<1>. SUFFICES ASSUME IInv, Outcome, [Next]_vars PROVE Outcome'
  OBVIOUS
<1>1. "OK" \in Iost /\ "INVALID" \in Iost /\ \A st \in Fault : st \in Iost
  BY DEF Iost, Fault
<1>2. CASE ReadMbr \/ ReadHeader \/ ReadTable
  BY <1>1, <1>2 DEF ReadMbr, ReadHeader, ReadTable, PumpFails, Return, Outcome
<1>3. CASE ReadEntry \/ Restart
  BY <1>1, <1>3 DEF ReadEntry, Restart, Loop, Return, Outcome
<1>4. CASE Choose
  <2>1. mask # {} => first[UsedIndex(mask)] \in Nat
    BY DEF IInv, UsedIndex, PayloadType
  <2>. QED BY <1>1, <1>4, <2>1, SizeAssumption DEF Choose, Return, Outcome
<1>5. CASE LoadPayload
  BY <1>1, <1>5 DEF LoadPayload, Return, Outcome
<1>6. CASE UNCHANGED vars
  BY <1>6 DEF vars, Outcome
<1>. QED BY <1>2, <1>3, <1>4, <1>5, <1>6 DEF Next, Done

\* With 512-byte blocks the scan is right in every round and at its end, for any
\* table and buffer: the window is inside the buffer, the entry looked at is entry
\* i, and the first usable entry of every type is found (boot_blockdev.c:85).
THEOREM ScanIsSound == Block512 /\ Spec => []ScanSound
<1>1. Init => Outcome
  BY DEF Init, Outcome, NoRead, Iost
<1>2. IInv /\ Outcome => TypeOK
  BY DEF IInv, Window, Outcome, TypeOK
<1>. QED BY InitIInv, NextIInv, NextOutcome, RigidBlock512, EntriesInPlace, ScanFindsFirst, <1>1, <1>2, PTL DEF Spec, ScanSound

\* With 512-byte blocks the payload that is read is the one that the rules for
\* types A, B and C select, whatever the table.
THEOREM ChoiceIsByRules == Block512 /\ Spec => []ChoiceFollowsRules
<1>1. IInv => ChoiceFollowsRules
  <2>. SUFFICES ASSUME IInv, pc = "payload" PROVE ChoiceFollowsRules
    BY DEF ChoiceFollowsRules
  <2>. DEFINE t == UsedIndex(mask)
  <2>1. mask \in SUBSET PayloadType /\ mask # {} /\ blob.lba = first[t]
    BY DEF IInv
  <2>2. Present = mask
    BY <2>1, ScannedAll DEF Present
  <2>3. t \in mask
    BY <2>1, ZenonT(30) DEF UsedIndex, PayloadType
  <2>4. blob.lba \in {disk.entries[k].first : k \in Earliest(t)}
    BY <2>1, <2>3, ScannedAll
  <2>5. Present = PayloadType => t = "A"
    BY <2>2 DEF UsedIndex, PayloadType
  <2>6. \A u \in Present \ {t} : Present # PayloadType => u = Successor(t)
    BY <2>1, <2>2, ZenonT(30) DEF UsedIndex, PayloadType, Successor
  <2>. QED BY <2>2, <2>3, <2>4, <2>5, <2>6 DEF ChoiceFollowsRules
<1>. QED BY InitIInv, NextIInv, RigidBlock512, <1>1, PTL DEF Spec

-----------------------------------------------------------------------------
(* The update scheme never leaves the machine without a complete payload.  *)
(* What the choice depends on is only which types the two partitions have; *)
(* the invariant adds to BootsComplete that the types differ and that the  *)
(* partition written last is the unused one.                               *)

UpdateInv ==
  /\ UpdateTypeOK
  /\ type[1] # type[2]
  /\ BootsComplete
  /\ step = "written" => content[Unused] = version

\* UsedIndex picks one of two types that are present, the one before the other.
LEMMA UsedOfTwo ==
  ASSUME NEW s \in PayloadType, NEW t \in PayloadType, s # t
  PROVE  UsedIndex({s, t}) = IF t = Successor(s) THEN s ELSE t
  BY DEF UsedIndex, Successor, PayloadType

\* Of two partitions the one whose type the other's follows is booted.
LEMMA BootedOfTwo ==
  ASSUME NEW f \in [Part -> PayloadType], f[1] # f[2]
  PROVE  BootedOf(f) = IF f[2] = Successor(f[1]) THEN 1 ELSE 2
<1>1. Mask(f) = {f[1], f[2]}
  BY DEF Mask, Part
<1>2. UsedIndex(Mask(f)) = IF f[2] = Successor(f[1]) THEN f[1] ELSE f[2]
  BY <1>1, UsedOfTwo DEF Part
<1>. QED BY <1>2 DEF BootedOf, Part

\* One partition is booted and the other is unused.
LEMMA BootedUnused ==
  ASSUME type \in [Part -> PayloadType], type[1] # type[2]
  PROVE  Booted \in Part /\ Unused \in Part /\ Booted # Unused
<1>1. Booted \in Part
  BY BootedOfTwo DEF Booted, Part
<1>. QED BY <1>1 DEF Unused, Part

\* The disk starts with a complete payload in the partition that is booted.
LEMMA UpdateInitInv == UpdateInit => UpdateInv
<1>. SUFFICES ASSUME UpdateInit PROVE UpdateInv
  OBVIOUS
<1>1. type \in [Part -> PayloadType] /\ type[1] # type[2]
  BY DEF UpdateInit
<1>2. Booted \in Part
  BY <1>1, BootedUnused
<1>. QED BY <1>1, <1>2 DEF UpdateInit, UpdateInv, UpdateTypeOK, BootsComplete, Torn

\* Changing the type of the booted partition to the missing one makes the other
\* partition the booted one.
LEMMA RetypeSwaps ==
  ASSUME NEW f \in [Part -> PayloadType], f[1] # f[2],
         NEW g, g = [f EXCEPT ![BootedOf(f)] = Missing(f)]
  PROVE  g \in [Part -> PayloadType] /\ g[1] # g[2] /\ BootedOf(g) \in Part \ {BootedOf(f)}
<1>1. Missing(f) \in PayloadType /\ Missing(f) \notin {f[1], f[2]}
  <2>1. Mask(f) = {f[1], f[2]}
    BY DEF Mask, Part
  <2>2. \E t \in PayloadType : t \notin {f[1], f[2]}
    BY DEF PayloadType, Part
  <2>. QED BY <2>1, <2>2 DEF Missing
<1>2. CASE f[2] = Successor(f[1])
  <2>1. BootedOf(f) = 1
    BY <1>2, BootedOfTwo
  <2>2. g[1] = Missing(f) /\ g[2] = f[2] /\ g \in [Part -> PayloadType]
    BY <2>1, <1>1 DEF Part
  <2>3. g[2] # Successor(g[1])
    BY <2>2, <1>1, <1>2 DEF Successor, PayloadType, Part
  <2>. QED BY <1>1, <2>1, <2>2, <2>3, BootedOfTwo, ZenonT(30) DEF Part
<1>3. CASE f[2] # Successor(f[1])
  <2>1. BootedOf(f) = 2
    BY <1>3, BootedOfTwo
  <2>2. g[2] = Missing(f) /\ g[1] = f[1] /\ g \in [Part -> PayloadType]
    BY <2>1, <1>1 DEF Part
  <2>3. g[2] = Successor(g[1])
    BY <2>2, <1>1, <1>3 DEF Successor, PayloadType, Part
  <2>. QED BY <1>1, <2>1, <2>2, <2>3, BootedOfTwo, ZenonT(30) DEF Part
<1>. QED BY <1>2, <1>3

\* The type change makes the unused partition the booted one.
LEMMA RetypeBootsUnused ==
  ASSUME type \in [Part -> PayloadType], type[1] # type[2], Retype
  PROVE  type' \in [Part -> PayloadType] /\ type'[1] # type'[2] /\ Booted' = Unused
<1>1. type' = [type EXCEPT ![BootedOf(type)] = Missing(type)]
  BY DEF Retype, Booted
<1>2. type' \in [Part -> PayloadType] /\ type'[1] # type'[2] /\ BootedOf(type') \in Part \ {BootedOf(type)}
  BY <1>1, RetypeSwaps, ZenonT(30)
<1>3. Booted' = BootedOf(type') /\ Booted = BootedOf(type)
  BY DEF Booted
<1>. QED BY <1>2, <1>3, BootedUnused DEF Part

\* Every step of the updater and every crash keeps the invariant.
LEMMA UpdateNextInv == UpdateInv /\ [UpdateNext]_updvars => UpdateInv'
<1>. SUFFICES ASSUME UpdateInv, [UpdateNext]_updvars PROVE UpdateInv'
  OBVIOUS
<1>1. Booted \in Part /\ Unused \in Part /\ Booted # Unused
  BY BootedUnused DEF UpdateInv, UpdateTypeOK
<1>2. type' = type => Booted' = Booted /\ Unused' = Unused
  BY DEF Booted, Unused
<1>3. CASE BeginWrite
  BY <1>1, <1>2, <1>3 DEF BeginWrite, UpdateInv, UpdateTypeOK, BootsComplete, Torn
<1>4. CASE EndWrite
  BY <1>1, <1>2, <1>4 DEF EndWrite, UpdateInv, UpdateTypeOK, BootsComplete, Torn
<1>5. CASE Retype
  <2>1. type' \in [Part -> PayloadType] /\ type'[1] # type'[2] /\ Booted' = Unused
    BY <1>5, RetypeBootsUnused DEF UpdateInv, UpdateTypeOK
  <2>2. content[Unused] = version
    BY <1>5 DEF Retype, UpdateInv
  <2>. QED BY <1>1, <1>5, <2>1, <2>2 DEF Retype, UpdateInv, UpdateTypeOK, BootsComplete, Torn
<1>6. CASE Crash
  BY <1>2, <1>6 DEF Crash, UpdateInv, UpdateTypeOK, BootsComplete
<1>7. CASE UNCHANGED updvars
  BY <1>2, <1>7 DEF updvars, UpdateInv, UpdateTypeOK, BootsComplete
<1>. QED BY <1>3, <1>4, <1>5, <1>6, <1>7 DEF UpdateNext

\* Whenever the power fails, the payload that boot_blockdev chooses afterwards
\* is one that was written completely.
THEOREM UpdateIsAtomic == UpdateSpec => []BootsComplete
<1>1. UpdateInv => BootsComplete
  BY DEF UpdateInv
<1>. QED BY UpdateInitInv, UpdateNextInv, <1>1, PTL DEF UpdateSpec

\* Only the change of the type makes boot_blockdev choose another payload, and
\* it makes it choose the new one.
THEOREM RetypeIsTheSwitch == UpdateSpec => RetypeSwitches
<1>1. UpdateInv /\ [UpdateNext]_updvars => [SwitchesPayload]_updvars
  <2>. SUFFICES ASSUME UpdateInv, UpdateNext PROVE SwitchesPayload
    BY DEF updvars
  <2>1. Booted \in Part /\ Unused \in Part /\ Booted # Unused
    BY BootedUnused DEF UpdateInv, UpdateTypeOK
  <2>2. type' = type => Booted' = Booted
    BY DEF Booted
  <2>3. CASE BeginWrite
    BY <2>1, <2>2, <2>3 DEF BeginWrite, UpdateInv, UpdateTypeOK, SwitchesPayload
  <2>4. CASE EndWrite
    BY <2>1, <2>2, <2>4 DEF EndWrite, UpdateInv, UpdateTypeOK, SwitchesPayload
  <2>5. CASE Retype
    <3>1. Booted' = Unused
      BY <2>5, RetypeBootsUnused DEF UpdateInv, UpdateTypeOK
    <3>. QED BY <2>5, <3>1 DEF Retype, UpdateInv, SwitchesPayload
  <2>6. CASE Crash
    BY <2>2, <2>6 DEF Crash, SwitchesPayload
  <2>. QED BY <2>3, <2>4, <2>5, <2>6 DEF UpdateNext
<1>. QED BY UpdateInitInv, UpdateNextInv, <1>1, PTL DEF UpdateSpec, RetypeSwitches
=============================================================================
