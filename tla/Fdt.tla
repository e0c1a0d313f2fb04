-------------------------------- MODULE Fdt ---------------------------------
(* transform_fdt: the device tree of the payload is copied, token by       *)
(* token, to where the kernel gets it.  The loader's own /memory node      *)
(* replaces the one in the tree, and its properties of /chosen replace     *)
(* those of the same names.                                                *)
(*                                                                         *)
(* A token is [cmd, name, size, val]: size in bytes as fdt_token_size      *)
(* gives it, name the node's or the property's name, val a sequence of     *)
(* cells.  A blob is a tree with what the header says of it (sound: the    *)
(* header passes the checks of its fields), its reserved areas, the size   *)
(* of its strings, and what goes with it: the words from the output's      *)
(* start to the kernel (room), whether there is an initcpio and the words  *)
(* of entropy.  good says that nothing is wrong with the blob.             *)
LOCAL INSTANCE Integers
LOCAL INSTANCE Sequences
LOCAL INSTANCE FiniteSets
LOCAL INSTANCE SequencesExt

CONSTANTS Blobs, MaxPath                 \* MaxPath: sizeof(path)

ASSUME FdtAssumption == MaxPath \in Nat \ {0}

VARIABLES
  dtb,
  fdt_pc,            \* "header", "reserved", "tokens", "end", "done", "failed"
  resv, toks,        \* what is left of the input
  out, used,         \* what was written, in tokens and in words
  path, skip_len,
  addr_cells, size_cells,
  in_chosen,
  magic              \* whether the output's magic is set

fdtvars == <<dtb, fdt_pc, resv, toks, out, used, path, skip_len, addr_cells, size_cells, in_chosen, magic>>

FdtInit(b) ==
  /\ dtb = b /\ fdt_pc = "header" /\ resv = b.resv /\ toks = b.tree
  /\ out = <<>> /\ used = 0 /\ path = <<>> /\ skip_len = 0
  /\ addr_cells = 0 /\ size_cells = 0 /\ in_chosen = FALSE /\ magic = FALSE

-----------------------------------------------------------------------------
Token(cmd, name, size, val) == [cmd |-> cmd, name |-> name, size |-> size, val |-> val]
Words(t) == (t.size + 3) \div 4
AllWords(ts) == FoldLeft(LAMBDA n, t : n + Words(t), 0, ts)
Zeros(n) == [i \in 1..n |-> 0]
Space == dtb.room - used

\* bytes of the path: every name with its terminating zero
PathLen(p) == FoldLeft(LAMBDA n, t : n + t.len, 0, p)
Names(p) == [i \in DOMAIN p |-> p[i].name]

\* addr_cells - 1 zeros and the address; no room holds the 2^32 - 1 zeros of addr_cells = 0
Endless == 4 * 2^27
initrd(name, val, cells) ==
  IF cells = 0 THEN Token("PROP", name, Endless, <<val>>)
               ELSE Token("PROP", name, 12 + 4 * cells, Zeros(cells - 1) \o <<val>>)

\* the cells of a seed are the words of the entropy buffer
Seeds(n) ==
  (IF n >= 2 THEN <<Token("PROP", "kaslr-seed", 20, <<0, 1>>)>> ELSE <<>>) \o
  (IF n > 2 THEN <<Token("PROP", "rng-seed", 12 + 4 * (n - 2), [i \in 1..n - 2 |-> i + 1])>> ELSE <<>>)

\* what is inserted, and the room that is asked for
insert_chosen_props ==
  (IF dtb.initcpio THEN <<initrd("linux,initrd-start", "start", addr_cells),
                           initrd("linux,initrd-end", "end", addr_cells)>> ELSE <<>>) \o Seeds(dtb.entropy)
ChosenWords == (IF dtb.initcpio THEN 6 + 2 * addr_cells ELSE 0) + AllWords(Seeds(dtb.entropy))

\* DRAM starts above 0 and ends below 4 GiB, so the upper half of an address is zero
Cells(v, n) == [i \in 1..n |-> IF i = n THEN v ELSE 0]
insert_memory_node ==
  <<Token("NODE", "memory", 11, <<>>), Token("PROP", "device_type", 12 + 7, <<"memory">>),
    Token("PROP", "reg", 12 + 4 * (addr_cells + size_cells), Cells("dram_start", addr_cells) \o Cells("dram_size", size_cells)),
    Token("NODE_END", "", 4, <<>>)>>
MemoryFits == addr_cells # 0 /\ size_cells # 0 /\ Space >= 12 + addr_cells + size_cells

-----------------------------------------------------------------------------
\* return false: the magic stays 0
Stop == fdt_pc' = "failed" /\ UNCHANGED <<dtb, resv, toks, path, skip_len, in_chosen, magic>>
Refuse == Stop /\ UNCHANGED <<out, used, addr_cells, size_cells>>

ReservedArea(name) == Token("RESERVED", name, 16, <<>>)
OutHeader == 12                          \* words of the header with its padding

CheckHeader ==
  /\ fdt_pc = "header" /\ dtb.tree # <<>>
  /\ IF ~dtb.sound \/ Head(toks).cmd # "NODE" \/ Head(toks).name # "" \/ dtb.room < 20 THEN Refuse
     ELSE /\ out' = <<ReservedArea("fdt")>> \o (IF dtb.initcpio THEN <<ReservedArea("initcpio")>> ELSE <<>>)
          /\ used' = OutHeader + AllWords(out')
          /\ fdt_pc' = "reserved"
          /\ UNCHANGED <<dtb, resv, toks, path, skip_len, addr_cells, size_cells, in_chosen, magic>>

CopyReserved ==
  /\ fdt_pc = "reserved"
  /\ IF resv = <<>> \/ Space < 4 THEN Refuse
     ELSE /\ out' = Append(out, ReservedArea(Head(resv))) /\ used' = used + 4
          /\ resv' = Tail(resv)
          /\ fdt_pc' = IF Head(resv) = "end" THEN "tokens" ELSE "reserved"
          /\ UNCHANGED <<dtb, toks, path, skip_len, addr_cells, size_cells, in_chosen, magic>>

-----------------------------------------------------------------------------
(* One turn of the loop over the tokens.                                   *)
NextCmd == IF toks = <<>> THEN "none" ELSE Head(toks).cmd
InTokens(cmd) == fdt_pc = "tokens" /\ NextCmd = cmd

BadToken ==
  /\ fdt_pc = "tokens"
  /\ NextCmd \notin {"NODE", "NODE_END", "PROP", "NOP"}
  /\ Refuse

NopToken == /\ InTokens("NOP") /\ toks' = Tail(toks)
            /\ UNCHANGED <<dtb, fdt_pc, resv, out, used, path, skip_len, addr_cells, size_cells, in_chosen, magic>>

\* the first token after the properties of /chosen, and the end of the root
LeavesChosen(t) == in_chosen /\ t.cmd # "PROP"
LeavesRoot(t) == t.cmd = "NODE_END" /\ Len(path) = 1
Inserted(t) == IF LeavesChosen(t) THEN insert_chosen_props ELSE IF LeavesRoot(t) THEN insert_memory_node ELSE <<>>
InsertFits(t) == (LeavesChosen(t) => Space >= ChosenWords) /\ (LeavesRoot(t) => MemoryFits)

\* no space for the token behind what was inserted
Short(t, ins) == Space - AllWords(ins) < Words(t)

Unskipped(p, skip) == IF PathLen(p) <= skip THEN 0 ELSE skip

\* the token is copied unless it is skipped; p is the path behind it
CopyToken(p, skip) ==
  LET t == Head(toks)
      ins == Inserted(t)
      kept == IF skip = 0 THEN <<t>> ELSE <<>>
  IN  IF ~InsertFits(t) THEN Stop /\ UNCHANGED <<out, used>>
      ELSE IF skip = 0 /\ Short(t, ins) THEN Stop /\ out' = out \o ins /\ used' = used + AllWords(ins)
      ELSE /\ out' = out \o ins \o kept /\ used' = used + AllWords(ins) + AllWords(kept)
           /\ toks' = Tail(toks) /\ path' = p
           /\ skip_len' = Unskipped(p, skip)
           /\ in_chosen' = IF t.cmd = "PROP" THEN in_chosen ELSE t.cmd = "NODE" /\ Names(p) = <<"", "chosen">>
           /\ fdt_pc' = IF p = <<>> THEN "end" ELSE "tokens"
           /\ UNCHANGED <<dtb, resv, magic>>

\* mutant: a memory node anywhere is dropped
SkipNode_Anywhere(t) == t.size = 11 /\ t.name = "memory"

SkipNode(t) == PathLen(path) = 1 /\ t.size = 11 /\ t.name = "memory"

StartNode ==
  /\ InTokens("NODE")
  /\ LET t == Head(toks)
     IN  IF MaxPath - PathLen(path) < t.size - 4 THEN Refuse
         ELSE CopyToken(Append(path, [name |-> t.name, len |-> t.size - 4]), IF SkipNode(t) THEN PathLen(path) ELSE skip_len)
              /\ UNCHANGED <<addr_cells, size_cells>>

EndNode ==
  /\ InTokens("NODE_END")
  /\ CopyToken(SubSeq(path, 1, Len(path) - 1), skip_len) /\ UNCHANGED <<addr_cells, size_cells>>

ReplacedProps == {"linux,initrd-start", "linux,initrd-end", "kaslr-seed", "rng-seed"}

\* mutant: the cells of any node are taken for the root's
IsCells_Anywhere(t) == t.size = 16

IsCells(t) == PathLen(path) = 1 /\ t.size = 16

\* a name beyond the strings is "none"
Property ==
  /\ InTokens("PROP")
  /\ LET t == Head(toks)
         addr == IsCells(t) /\ t.name = "#address-cells"
         size == IsCells(t) /\ t.name = "#size-cells"
     IN  IF \/ t.name = "none"
            \/ addr /\ (addr_cells # 0 \/ t.val[1] > 4)
            \/ size /\ (size_cells # 0 \/ t.val[1] > 4) THEN Refuse
         ELSE /\ CopyToken(path, IF ~IsCells(t) /\ in_chosen /\ t.name \in ReplacedProps THEN PathLen(path) ELSE skip_len)
              /\ addr_cells' = IF addr THEN t.val[1] ELSE addr_cells
              /\ size_cells' = IF size THEN t.val[1] ELSE size_cells

InsertedStrings == 73

Finish ==
  /\ fdt_pc = "end"
  /\ IF NextCmd # "END" \/ Space < 1 THEN Refuse
     ELSE /\ out' = Append(out, Token("END", "", 4, <<>>))
          /\ IF dtb.strings + InsertedStrings > 4 * (Space - 1)
             THEN fdt_pc' = "failed" /\ used' = used + 1 /\ UNCHANGED magic
             ELSE fdt_pc' = "done" /\ magic' = TRUE
                  /\ used' = used + 1 + (dtb.strings + InsertedStrings + 3) \div 4
          /\ UNCHANGED <<dtb, resv, toks, path, skip_len, addr_cells, size_cells, in_chosen>>

transform_fdt == \/ CheckHeader \/ CopyReserved \/ BadToken \/ NopToken \/ StartNode \/ EndNode \/ Property \/ Finish

-----------------------------------------------------------------------------
(* What the kernel is promised, said of the finished trees.                *)
Decided == {"done", "failed"}
Tokens(s) == SelectSeq(s, LAMBDA t : t.cmd # "RESERVED")

\* the names of the nodes that are open behind token i
Trail(s) ==
  LET open[i \in 0..Len(s)] ==
        IF i = 0 THEN <<>>
        ELSE CASE s[i].cmd = "NODE" -> Append(open[i - 1], s[i].name)
               [] s[i].cmd = "NODE_END" -> SubSeq(open[i - 1], 1, Len(open[i - 1]) - 1)
               [] OTHER -> open[i - 1]
  IN  open
Under(s, i, name) == \E p \in {Trail(s)[i - 1], Trail(s)[i]} : Len(p) >= 2 /\ p[2] = name
PropsOf(s, node) == {i \in DOMAIN s : s[i].cmd = "PROP" /\ Trail(s)[i] = node}
Replaced(s) == {i \in PropsOf(s, <<"", "chosen">>) : s[i].name \in ReplacedProps}
Value(s, name) == s[CHOOSE i \in PropsOf(s, <<"">>) : s[i].name = name].val[1]
HasChosen(s) == \E i \in DOMAIN s : Trail(s)[i] = <<"", "chosen">>

\* all but /memory and the properties the loader gives
Rest(s) == LET kept == SelectSeq([i \in DOMAIN s |-> i],
                                 LAMBDA i : s[i].cmd # "NOP" /\ ~Under(s, i, "memory") /\ i \notin Replaced(s))
           IN  [k \in DOMAIN kept |-> s[kept[k]]]

(* Everything else of the tree reaches the kernel, in its order: nodes     *)
(* called memory or chosen elsewhere, and what follows a skipped node or   *)
(* property, are not lost (skip_len).                                      *)
TreeKept == fdt_pc = "done" => Rest(Tokens(out)) = Rest(dtb.tree)

(* The finished tree has one /memory, with as many cells as the root asks  *)
(* for, and /chosen, where there is one, has the initcpio's bounds and the *)
(* seeds once each, no word of entropy in both, and nothing stale under    *)
(* these names.                                                            *)
OwnNodes ==
  fdt_pc = "done" =>
    LET s == Tokens(out)
        a == Value(s, "#address-cells")
        n == Value(s, "#size-cells")
        given == {s[i].name : i \in Replaced(s)}
        wanted == (IF dtb.initcpio THEN {"linux,initrd-start", "linux,initrd-end"} ELSE {}) \union
                  (IF dtb.entropy > 0 THEN {"kaslr-seed", "rng-seed"} ELSE {})
    IN  /\ Cardinality({i \in DOMAIN s : s[i].cmd = "NODE" /\ Trail(s)[i] = <<"", "memory">>}) = 1
        /\ \E i \in PropsOf(s, <<"", "memory">>) : s[i].name = "reg" /\ Len(s[i].val) = a + n
        /\ HasChosen(s) => given = wanted /\ Cardinality(Replaced(s)) = Cardinality(wanted)
        /\ \A i \in Replaced(s) : s[i].size = 12 + 4 * Len(s[i].val)
        /\ \A i \in Replaced(s) : s[i].name \in {"linux,initrd-start", "linux,initrd-end"} => Len(s[i].val) = a
        /\ \A i, j \in Replaced(s) : s[i].name = "kaslr-seed" /\ s[j].name = "rng-seed" =>
             {s[i].val[k] : k \in DOMAIN s[i].val} \cap {s[j].val[k] : k \in DOMAIN s[j].val} = {}

(* The finished tree is the payload's, but for what the loader gives.      *)
TreeTransformed == TreeKept /\ OwnNodes

(* The output never runs into the kernel behind it, and a tree that was    *)
(* given up half-way has no magic.                                         *)
WithinRoom == used <= dtb.room /\ (magic => fdt_pc = "done")

\* the words of the finished blob
Needed(b) ==
  LET a == Value(b.tree, "#address-cells")
      initcpio == IF b.initcpio THEN 1 ELSE 0
  IN  OutHeader + 4 * (1 + initcpio + Len(b.resv)) + AllWords(Rest(b.tree)) + 12 + a + Value(b.tree, "#size-cells")
      + (IF HasChosen(b.tree) THEN initcpio * (6 + 2 * a) + (IF b.entropy > 0 THEN b.entropy + 6 ELSE 0) ELSE 0)
      + (b.strings + InsertedStrings + 3) \div 4

(* A tree without a fault is only refused when the result would not fit:   *)
(* no check of the space asks for more than is written.                    *)
RefusedForCause == fdt_pc = "failed" => ~dtb.good \/ dtb.room < Needed(dtb)

(* The checks of the space are neither too weak nor too strong.            *)
RoomUsed == WithinRoom /\ RefusedForCause
=============================================================================
