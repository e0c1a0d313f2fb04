--------------------------------- MODULE Gpt ---------------------------------
(* boot_blockdev: find the payload partition in a GUID partition table and *)
(* load it (dramstage/boot_blockdev.c).                                    *)
(*                                                                         *)
(* Sizes are in units of 128 bytes, the size of an entry.  Of the block    *)
(* device only what pump promises is used: after one or more requests the  *)
(* caller has at least what was asked for, or all up to the end of the     *)
(* buffer, or an error.                                                    *)
EXTENDS PayloadChoice, Integers, Sequences

CONSTANTS
  BlockSize,       \* blk->block_size: 4 units are 512 bytes
  MbrSize,         \* the 512 that line 41 consumes
  BufSize,         \* sizeof(partition_table_buffer)
  MaxEntries,      \* 0x10000
  Disks,           \* possible contents of the medium, see Disk
  BlobBlocks       \* blocks that fit into blob_buffer

ASSUME SizeAssumption ==
  /\ BlockSize \in Nat \ {0} /\ MbrSize \in 1..BlockSize /\ BlobBlocks \in Nat \ {0}
  /\ BufSize \in Nat /\ BufSize >= 3 * BlockSize /\ BufSize % BlockSize = 0
  /\ MaxEntries \in Nat

Iost == {"OK", "TRANSIENT", "INVALID", "LOCAL", "GLOBAL"}
Fault == Iost \ {"OK"}

(* An entry has a type and its first and last LBA.  A disk has num_blocks  *)
(* blocks, an MBR with or without the entry of a GPT, and a header, whose  *)
(* constant fields are as expected or not.                                 *)
Entry == [type : PayloadType \union {"empty", "other"}, first : Nat, last : Nat]
Empty == [type |-> "empty", first |-> 0, last |-> 0]
Other == [type |-> "other", first |-> 0, last |-> 0]
Disk == [num_blocks : Nat, mbr : BOOLEAN, header : BOOLEAN, backup_lba : Nat,
         first_usable : Nat, last_usable : Nat, entries : Seq(Entry)]

\* every medium is larger than its table, so line 77 does not wrap around
ASSUME DisksAssumption ==
  \A d \in Disks : d \in Disk /\ d.num_blocks >= 2 + Len(d.entries) \div BlockSize

VARIABLES
  disk,            \* the medium; never changes
  pc,              \* "mbr", "header", "table", "entry", "choose", "payload", "done"
  base,            \* position on the medium of partition_table_buffer
  consumed, filled,\* consume_ptr and end_ptr, relative to the buffer
  i, mask,         \* locals of boot_blockdev
  first, last,
  blob,            \* first block and number of blocks of the read of the payload
  res              \* what boot_blockdev returns

window == <<base, consumed, filled>>
vars == <<disk, pc, window, i, mask, first, last, blob, res>>

NoRead == [lba |-> 0, count |-> 0]

Init ==
  /\ disk \in Disks
  /\ pc = "mbr"
  /\ base = 0 /\ consumed = 0 /\ filled = 0
  /\ i = 0 /\ mask = {}
  /\ first = [t \in PayloadType |-> 0] /\ last = [t \in PayloadType |-> 0]
  /\ blob = NoRead /\ res = "OK"

-----------------------------------------------------------------------------
NumEntries == Len(disk.entries)
EntriesPerBlock == BlockSize

\* what is at a position of the medium: the rest of the header's block is zero
\* and anything may follow the table
At(pos) ==
  IF pos >= 2 * BlockSize /\ pos < 2 * BlockSize + NumEntries
    THEN disk.entries[pos - 2 * BlockSize + 1]
    ELSE IF pos > BlockSize /\ pos < 2 * BlockSize THEN Empty ELSE Other

Return(st) == pc' = "done" /\ res' = st

\* pump with consume_ptr at c and end_ptr at f: where end_ptr may be afterwards,
\* and whether a request may fail.  Requests are whole blocks.
Filled(c, f, min) ==
  IF f - c >= min THEN {f}
  ELSE {g \in f..BufSize : g % BlockSize = 0 /\ g - c >= min} \union {BufSize}
MayFail(c, f, min) == f - c < min /\ f < BufSize

Pump(consume, min) ==
  /\ consumed' = consumed + consume
  /\ filled' \in Filled(consumed', filled, min)
  /\ UNCHANGED base

PumpFails(consume, min) ==
  /\ MayFail(consumed + consume, filled, min)
  /\ \E st \in Fault : Return(st)
  /\ UNCHANGED window

\* lines 19 to 39
ReadMbr ==
  /\ pc = "mbr"
  /\ \/ PumpFails(0, BlockSize)
     \/ /\ Pump(0, BlockSize)
        /\ IF disk.mbr THEN pc' = "header" /\ UNCHANGED res ELSE Return("INVALID")
  /\ UNCHANGED <<disk, i, mask, first, last, blob>>

HeaderOK ==
  LET partition_table_size == NumEntries \div EntriesPerBlock IN
  /\ disk.header
  /\ disk.backup_lba = disk.num_blocks - 1
  /\ disk.first_usable >= 2 + partition_table_size
  /\ disk.last_usable <= disk.num_blocks - 2 - partition_table_size
  /\ NumEntries <= MaxEntries

\* lines 41 to 84; the header is looked at where it is, at BlockSize
ReadHeader ==
  /\ pc = "header"
  /\ \/ PumpFails(MbrSize, 2 * BlockSize - MbrSize)
     \/ /\ Pump(MbrSize, 2 * BlockSize - MbrSize)
        /\ IF HeaderOK THEN pc' = "table" /\ UNCHANGED res ELSE Return("INVALID")
  /\ UNCHANGED <<disk, i, mask, first, last, blob>>

\* lines 85 to 89
ReadTable ==
  /\ pc = "table"
  /\ \/ PumpFails(BlockSize, 1)
     \/ /\ Pump(BlockSize, 1) /\ UNCHANGED res
        /\ pc' = IF NumEntries > 0 THEN "entry" ELSE "choose"
  /\ UNCHANGED <<disk, i, mask, first, last, blob>>

Bogus(e) == e.first > e.last \/ e.last > disk.last_usable
Usable(e) == e.type \in PayloadType /\ ~Bogus(e)

\* lines 105 to 135
TakeEntry(e) ==
  IF e.type \in PayloadType /\ e.type \notin mask
    THEN /\ first' = [first EXCEPT ![e.type] = e.first]
         /\ last' = [last EXCEPT ![e.type] = e.last]
         /\ mask' = IF Bogus(e) THEN mask ELSE mask \union {e.type}
    ELSE UNCHANGED <<mask, first, last>>

\* The rest of the round with the entry at c in the buffer: take it and ask for
\* the next one.  Line 91 looks at the status of that before anything else.
Loop(b, c, f) ==
  LET min == IF i < NumEntries - 1 THEN 1 ELSE 0 IN
  /\ TakeEntry(At(b + c))
  /\ base' = b /\ consumed' = c + 1 /\ i' = i + 1
  /\ \/ /\ filled' \in Filled(c + 1, f, min)
        /\ pc' = IF i + 1 < NumEntries THEN "entry" ELSE "choose"
        /\ UNCHANGED res
     \/ /\ MayFail(c + 1, f, min)
        /\ filled' = f
        /\ \E st \in Fault : Return(st)

ReadEntry ==
  /\ pc = "entry" /\ filled - consumed >= 1
  /\ Loop(base, consumed, filled)
  /\ UNCHANGED <<disk, blob>>

\* mutant: the block of the next entry is rounded up
RestartLba_Up == 3 + (i - 1) \div EntriesPerBlock + 1

RestartLba == 2 + i \div EntriesPerBlock

\* lines 95 to 104: the buffer is used up and the read starts again
Restart ==
  /\ pc = "entry" /\ filled - consumed < 1
  /\ \/ /\ \E st \in Fault : Return(st)
        /\ UNCHANGED <<window, i, mask, first, last>>
     \/ \E f \in Filled(0, 0, 1) : Loop(RestartLba * BlockSize, 0, f)
  /\ UNCHANGED <<disk, blob>>

\* lines 138 to 153: the read goes up to the end of blob_buffer
Choose ==
  /\ pc = "choose"
  /\ \/ mask = {} /\ Return("INVALID") /\ UNCHANGED blob
     \/ mask # {} /\ (\E st \in Fault : Return(st)) /\ UNCHANGED blob
     \/ /\ mask # {} /\ first[UsedIndex(mask)] < disk.num_blocks
        /\ blob' = [lba |-> first[UsedIndex(mask)], count |-> BlobBlocks]
        /\ pc' = "payload" /\ UNCHANGED res
  /\ UNCHANGED <<disk, window, i, mask, first, last>>

\* lines 154 and 155
LoadPayload ==
  /\ pc = "payload"
  /\ Return("OK") \/ Return("INVALID")
  /\ UNCHANGED <<disk, window, i, mask, first, last, blob>>

Done == pc = "done" /\ UNCHANGED vars

Next == ReadMbr \/ ReadHeader \/ ReadTable \/ ReadEntry \/ Restart \/ Choose \/ LoadPayload \/ Done

Spec == Init /\ [][Next]_vars

-----------------------------------------------------------------------------
(* Types.                                                                  *)
TypeOK ==
  /\ disk \in Disk
  /\ pc \in {"mbr", "header", "table", "entry", "choose", "payload", "done"}
  /\ base \in Nat /\ filled \in 0..BufSize /\ consumed \in 0..filled
  /\ i \in 0..NumEntries /\ mask \in SUBSET PayloadType
  /\ first \in [PayloadType -> Nat] /\ last \in [PayloadType -> Nat]
  /\ blob \in [lba : Nat, count : Nat] /\ res \in Iost

(* In every round of the loop the start of the buffer is entry i of the    *)
(* table, across restarts of the read and whatever the number of entries.  *)
Position == IF filled = consumed THEN RestartLba * BlockSize ELSE base + consumed
EntryInPlace == pc = "entry" => Position = 2 * BlockSize + i

(* "levinboot will then load a compressed payload blob from a partition    *)
(* with one of these special partition type GUIDs" (README.rst:272), "For  *)
(* each type, it will ignore all but the first one present in partition    *)
(* table order" (README.rst:280), for usable entries: at the end of the    *)
(* scan mask has all types of which there is an entry, with the LBAs of    *)
(* the first.                                                              *)
Earliest(t) == {k \in 1..NumEntries :
                  /\ disk.entries[k].type = t /\ Usable(disk.entries[k])
                  /\ \A j \in 1..(k - 1) : ~(disk.entries[j].type = t /\ Usable(disk.entries[j]))}
ScanComplete ==
  pc = "choose" =>
    \A t \in PayloadType :
      /\ t \in mask <=> Earliest(t) # {}
      /\ \A k \in Earliest(t) : first[t] = disk.entries[k].first /\ last[t] = disk.entries[k].last

(* The scan is right in every round and at its end (boot_blockdev.c:85).   *)
ScanSound == TypeOK /\ EntryInPlace /\ ScanComplete

(* The rules of README.rst:282: of two types the one that the other        *)
(* follows in the cycle A, B, C, A is used, of three A.                    *)
Present == {t \in PayloadType : Earliest(t) # {}}
ChoiceFollowsRules ==
  pc = "payload" => \E t \in Present :
    /\ blob.lba \in {disk.entries[k].first : k \in Earliest(t)}
    /\ Present = PayloadType => t = "A"
    /\ \A u \in Present \ {t} : Present # PayloadType => u = Successor(t)
=============================================================================
