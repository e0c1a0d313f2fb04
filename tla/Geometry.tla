------------------------------ MODULE Geometry ------------------------------
(***************************************************************************)
(* How much DRAM there is: channel_post_init (dram/memorymap.c) finds the  *)
(* geometry of a channel with mirror tests, encode_dram_size puts it into  *)
(* two registers that survive until the next stage, and dram_size          *)
(* (dram/read_size.c) reads the capacity from them.                        *)
(*                                                                         *)
(* A chip is what is soldered to a channel: the number of its address bits *)
(* of each kind.  row1 is 0 without a second rank.  An address is only     *)
(* known by the bit in which the two addresses of a mirror test differ.    *)
(***************************************************************************)
LOCAL INSTANCE Integers
LOCAL INSTANCE FiniteSetsExt
LOCAL INSTANCE Bitwise

VARIABLE sample         \* the chips on both channels, or nothing to this module

NoChip == [width |-> 0, col |-> 0, bank |-> 0, row0 |-> 0, row1 |-> 0]
Failed == [csmask |-> -1]

\* the bits of an address that select a byte of a rank
RankBits(chip, row) == chip.width + chip.col + chip.bank + row

-----------------------------------------------------------------------------
(* The channel under a memory map: [col, bank, cs0] are the bits that      *)
(* set_memory_map and MSCH_DDRCONF give to columns and banks, and log2 of  *)
(* the bytes that MSCH_DDRSIZE gives to rank 0.                            *)

\* set_memory_map and the two registers of the scheduler
set_memory_map(col, bank, cs0) == [col |-> col, bank |-> bank, cs0 |-> cs0]

\* the bit of an address does not reach the rank
Ignored(chip, map, row, bit) ==
  LET at == bit - chip.width IN
  IF at < map.col THEN at >= chip.col
  ELSE IF at < map.col + map.bank THEN at - map.col >= chip.bank
  ELSE at - map.col - map.bank >= row

\* test_mirror: from an address in the rank the one that differs in the bit is tried;
\* out of rank 1 it is in rank 0 that it ends up
test_mirror(chip, map, rank, bit) ==
  IF rank = 0 THEN Ignored(chip, map, chip.row0, bit)
  ELSE bit < map.cs0 /\ Ignored(chip, map, chip.row1, bit)

\* while (test_mirror(...)) from the most bits down to the fewest that are supported:
\* mirrored has those that fail the test
Found(least, most, mirrored) ==
  LET kept == (least..most) \ mirrored IN IF kept = {} THEN 0 ELSE Max(kept)


FindCol(chip) ==
  LET map == set_memory_map(12, 3, 32) IN
  Found(9, 12, {n \in 9..12 : test_mirror(chip, map, 0, n + chip.width - 1)})

FindBank(chip, col) ==
  IF test_mirror(chip, set_memory_map(12, 3, 32), 0, chip.width + 14) THEN 2 ELSE 3

\* map is the one of col and bank
FindRow(chip, map, rank, most) ==
  LET shift == chip.width + map.col + map.bank IN
  Found(12, most, {n \in 12..most : test_mirror(chip, map, rank, shift - 1 + n)})

channel_post_init(chip) ==
  IF chip = NoChip THEN [csmask |-> 0]
  ELSE LET col == FindCol(chip)
           bank == FindBank(chip, col)
           shift == chip.width + col + bank
           most == IF shift + 16 > 32 THEN 32 - shift ELSE 16
           map == set_memory_map(col, bank, 32)
           row0 == FindRow(chip, map, 0, most)
           row1 == IF chip.row1 = 0 THEN 13 ELSE FindRow(chip, [map EXCEPT !.cs0 = shift + row0], 1, row0) IN
       IF 0 \in {col, row0, row1} THEN Failed
       ELSE [csmask |-> IF chip.row1 = 0 THEN 1 ELSE 3, width |-> chip.width, col |-> col, bank |-> bank,
             cs0_row |-> row0, cs1_row |-> row1]

-----------------------------------------------------------------------------
(* The registers.                                                          *)

\* bits of a u32 from bit lo on, so many of them; a difference may be negative
Field(val, lo, bits) == (val \div 2^lo) % 2^bits

\* 16 bits of OS_REG2 and 8 of OS_REG3 for a channel
BlockInfos(geo) ==
  (IF geo.csmask = 3 THEN 2^11 ELSE 0) | ((geo.col - 9) * 2^9) | ((3 - geo.bank) * 2^8)
    | (Field(geo.cs0_row - 13, 0, 2) * 2^6) | (Field(geo.cs1_row - 13, 0, 2) * 2^4)
    | ((2 \div 2^geo.width) * 2^2) | 1

Reg3Infos(geo) ==
  (geo.col - 9) | (Field(geo.cs0_row - 13, 2, 1) * 2^5) | (Field(geo.cs1_row - 13, 2, 1) * 2^4)

Present(geos) == {i \in {0, 1} : geos[i].csmask # 0}

\* with no channel the count of channels less one sets every bit of the u32 from 12 on,
\* here as a signed number
encode_dram_size(geos) ==
  LET Block(i) == IF i \in Present(geos) THEN (BlockInfos(geos[i]) * 2^(16 * i)) | 2^(28 + i) ELSE 0
      Reg3(i) == IF i \in Present(geos) THEN Reg3Infos(geos[i]) * 2^(2 * i) ELSE 0 IN
  [osreg2 |-> IF Present(geos) = {} THEN -(2^12)
              ELSE ((IF Present(geos) = {0, 1} THEN 1 ELSE 0) * 2^12) | (7 * 2^13) | Block(0) | Block(1),
   osreg3 |-> (2^29) | Reg3(0) | Reg3(1)]

\* the bits of rows and columns: 0 is 13 rows, 1 is 14, ... 6 is 19, 7 is 12
rank_size(rows_lower, rows_upper, col_diff) ==
  ((rows_upper * 4 + rows_lower + 1) % 8) + 12 + col_diff + 9

\* in MiB
dram_size(regs) ==
  LET Size(i) ==
        LET block == Field(regs.osreg2, 16 * i, 12)
            reg3 == Field(regs.osreg3, 2 * i, 6)
            rest == 3 - Field(block, 8, 1) + (2 \div 2^Field(block, 2, 2)) - 20
            rank0 == rank_size(Field(block, 6, 2), Field(reg3, 5, 1), Field(block, 9, 2))
            rank1 == rank_size(Field(block, 4, 2), Field(reg3, 4, 1), Field(reg3, 0, 2)) IN
        IF Field(regs.osreg2, 28 + i, 1) = 0 THEN 0
        ELSE 2^(rank0 + rest) + (IF Field(block, 11, 1) = 1 THEN 2^(rank1 + rest) ELSE 0)
      total == Size(0) + Size(1) IN
  IF total >= 3968 THEN 3968 ELSE total

-----------------------------------------------------------------------------
(* Every chip from 32 MiB in its ranks on whose ranks fit into 4 GiB, the  *)
(* second not larger than the first; alone or beside others.               *)
Chips ==
  LET sizes == [width : 1..2, col : 9..12, bank : 2..3, row0 : 12..16, row1 : {0} \union 12..16] IN
  {c \in sizes : /\ RankBits(c, c.row0) \in 25..32
                 /\ c.row1 # 0 => c.row1 <= c.row0 /\ RankBits(c, c.row0) <= 31 /\ RankBits(c, c.row1) >= 25}
Beside == {NoChip} \union {c \in Chips : c.width = 2 /\ c.bank = 3 /\ c.row0 = 15 /\ c.col \in {10, 11} /\ c.row1 \in {0, 14, 15}}
GeometrySamples == {<<a, b>> : a \in Chips, b \in Beside} \union {<<NoChip, a>> : a \in Chips \union {NoChip}}
NoSample == <<>>

Bytes(chip, row) == IF row = 0 THEN 0 ELSE 2^(RankBits(chip, row) - 20)

(* The mirror tests find the chip: channel_post_init ends with exactly the *)
(* columns, banks and rows of the ranks there are (memorymap.c:37),        *)
(* whatever part of the address a map with other column and bank bits      *)
(* puts each of them in.                                                   *)
GeometryFound ==
  sample # NoSample =>
    \A i \in {1, 2} :
      LET chip == sample[i]
          geo == channel_post_init(chip) IN
      IF chip = NoChip THEN geo.csmask = 0
      ELSE /\ geo # Failed /\ geo.col = chip.col /\ geo.bank = chip.bank /\ geo.cs0_row = chip.row0
           /\ chip.row1 # 0 => geo.cs1_row = chip.row1

(* The next stage finds the memory that there is: what dram_size reads     *)
(* from the two registers is the capacity of both channels (read_size.c:   *)
(* 17), up to the 3968 MiB below the registers of the SoC, although the    *)
(* number of rows is split over two fields with 12 after 19, and the       *)
(* fields of two channels share both registers.  Only a board on which no  *)
(* channel answers has registers that claim memory which is not there, 128 *)
(* and 1152 MiB; what stands against that is the mirror test of            *)
(* ddrinit.c:270.                                                          *)
SizeKept ==
  sample # NoSample =>
    LET geos == [i \in {0, 1} |-> channel_post_init(sample[i + 1])]
        Total(c) == Bytes(c, c.row0) + Bytes(c, c.row1)
        total == Total(sample[1]) + Total(sample[2]) IN
    dram_size(encode_dram_size(geos)) = IF total = 0 THEN 1280 ELSE IF total > 3968 THEN 3968 ELSE total

=============================================================================
