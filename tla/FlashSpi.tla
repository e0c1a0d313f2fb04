------------------------------ MODULE FlashSpi ------------------------------
(* Writing to the SPI flash: sramstage_usb_flash_spi                       *)
(* (sramstage/usb_loader-spi.c) finds out how the chip can be erased,      *)
(* erases as much as is to be written and programs page by page.  An       *)
(* erase operation is known by its shift; a byte of the flash is a pair,   *)
(* of a file and an offset, or one of those below.  A command reaches the  *)
(* chip whole: that tx_cmd, which counts the room in the FIFO of the       *)
(* controller and can find none when it counts anew (usb_loader-spi.c:30), *)
(* never writes a byte into a full FIFO is taken for granted.              *)
EXTENDS Integers, Sequences, FiniteSetsExt, SequencesExt

CONSTANTS
  FlashTop,        \* 0x01000000: one past the last address
  Page,            \* 256
  MaxShift         \* 16: the largest erase operation that is used

Old == <<0, 3>>      \* what the flash held before
Blank == <<0, 1>>    \* erased
Mixed == <<0, 2>>    \* programmed twice

\* the erase operations of a JEDEC parameter table; shift 0 stands for none
usable(table) == SelectSeq(table, LAMBDA shift : shift # 0 /\ shift <= MaxShift)

(* The sort moves a smaller operation down over the larger ones: these are *)
(* lost, not moved up.                                                     *)
RECURSIVE MoveDown(_, _, _)
MoveDown(ops, p, tmp) ==
  IF p > 0 /\ ops[p] > tmp THEN MoveDown([ops EXCEPT ![p] = ops[p + 1]], p - 1, tmp)
  ELSE [ops EXCEPT ![p + 1] = tmp]
erase_ops(table) == FoldLeft(LAMBDA ops, i : MoveDown(ops, i - 1, ops[i]), usable(table), [i \in 1..(Len(usable(table)) - 1) |-> i + 1])

\* mutant: the largest operation that starts here, whether it ends behind the end or not
Choice_Any(ops, until, end) ==
  LET fit == {p \in DOMAIN ops : until % 2^ops[p] = 0} IN IF fit = {} THEN 1 ELSE Max(fit)

\* the largest operation that starts here and stays before the end, or the smallest
Choice(ops, until, end) ==
  LET fit == {p \in DOMAIN ops : until % 2^ops[p] = 0 /\ until + 2^ops[p] <= end}
  IN IF fit = {} THEN 1 ELSE Max(fit)

\* the erase commands up to one past the end; one with to = from stands for a failed assertion
Erases(ops, start, end) ==
  LET From[until \in start..FlashTop] ==
        LET size == 2^ops[Choice(ops, until, end)] IN
        IF until >= end THEN <<>>
        ELSE IF until % size # 0 THEN <<[from |-> until, to |-> until]>>
        ELSE <<[from |-> until, to |-> until + size]>> \o From[until + size]
  IN From[start]

\* one command per page, of a length that is not 0; the last page may end early
Programs(write_ptr, end) ==
  LET first == write_ptr \div Page  last == (end - 1) \div Page
  IN [i \in 1..(last - first + 1) |-> [from |-> Max({write_ptr, (first + i - 1) * Page}), to |-> Min({end, (first + i) * Page})]]

\* What the chip makes of the commands.  Programming wraps around in its page.
Erased(image, erases) ==
  [a \in DOMAIN image |-> IF \E i \in DOMAIN erases : a \in erases[i].from..(erases[i].to - 1) THEN Blank ELSE image[a]]
Written(cmd, a) == {k \in 0..(cmd.to - cmd.from - 1) : (cmd.from \div Page) * Page + ((cmd.from + k) % Page) = a}
Programmed(image, programs, data, start) ==
  [a \in DOMAIN image |->
     LET hits == UNION {{programs[i].from + k : k \in Written(programs[i], a)} : i \in DOMAIN programs}
     IN IF hits = {} THEN image[a]
        ELSE IF image[a] # Blank \/ Cardinality(hits) > 1 THEN Mixed
        ELSE data[Max(hits) - start]]

\* The flash after the call, or an assertion has failed, with these operations.
sramstage_usb_flash_spi(image, ops, data, start, length) ==
  LET end == start + length
      erases == Erases(ops, start, end)
      ok == \A i \in DOMAIN erases : erases[i].to # erases[i].from
  IN IF ops = <<>> \/ length > FlashTop - start THEN [ok |-> FALSE, image |-> image]
     ELSE IF ~ok THEN [ok |-> FALSE, image |-> Erased(image, erases)]
     ELSE [ok |-> TRUE, image |-> Programmed(Erased(image, erases), Programs(start, end), data, start)]
=============================================================================
