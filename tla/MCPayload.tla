------------------------------ MODULE MCPayload ------------------------------
(* The payload, from the disk to the kernel: boot_blockdev finds it, it is *)
(* updated on the disk, and its device tree is transformed when it is      *)
(* booted.  An initial state is one of the call of boot_blockdev, one of   *)
(* the updater or one of the call of transform_fdt.                        *)
EXTENDS Gpt, PayloadUpdate, Fdt, Sequences, TLC

(* Disks for Gpt: payload entries of all types, good and bogus, around the *)
(* ends of the buffer.  Block 300 of 400 is the last usable one.           *)
Good(t, k) == [type |-> t, first |-> 20 + k, last |-> 40 + k]
Kinds(k) == {Empty, Good("A", k), Good("B", k), Good("C", k),
             [type |-> "A", first |-> 30, last |-> 301]}

GptDisk(entries) ==
  [num_blocks |-> 400, mbr |-> TRUE, header |-> TRUE, backup_lba |-> 399,
   first_usable |-> 10, last_usable |-> 300, entries |-> entries]

\* tables of n entries that are of no interest except at the positions of at
Tables(n, at) == {[k \in 1..n |-> IF k \in at THEN f[k] ELSE Other] :
                    f \in {g \in [at -> UNION {Kinds(k) : k \in at}] : \A k \in at : g[k] \in Kinds(k)}}

Whole == GptDisk(<<Good("A", 1)>>)
Damaged == {[Whole EXCEPT !.mbr = FALSE], [Whole EXCEPT !.header = FALSE],
            [Whole EXCEPT !.backup_lba = 398], [Whole EXCEPT !.first_usable = 1],
            [Whole EXCEPT !.last_usable = 399], GptDisk([k \in 1..20 |-> Other])}

\* the buffer of 12 units has entries 1 to 4, then 5 to 16, then 17
SmallDisks == Damaged \union {GptDisk(t) : t \in {<<>>} \union Tables(5, {4, 5}) \union Tables(17, {1, 4, 5, 17})}

(* Device trees for Fdt.                                                   *)
Size == ("" :> 0) @@ ("memory" :> 6) @@ ("chosen" :> 6) @@ ("serial" :> 6) @@ ("cpus" :> 4)
Node(name, inside) == <<Token("NODE", name, 5 + Size[name], <<>>)>> \o inside \o <<Token("NODE_END", "", 4, <<>>)>>
Prop(name, len) == <<Token("PROP", name, 12 + len, <<7>>)>>
CellsProp(name, n) == <<Token("PROP", name, 16, <<n>>)>>
Nop == <<Token("NOP", "", 4, <<>>)>>
Root(a, n, inside) == Node("", CellsProp("#address-cells", a) \o CellsProp("#size-cells", n) \o inside)
End == <<Token("END", "", 4, <<>>)>>

Memories == {<<>>, Node("memory", Prop("reg", 16)), Nop \o Node("memory", Prop("reg", 8) \o Node("serial", <<>>) \o Nop)}
Chosens == {<<>>, Node("chosen", <<>>), Node("chosen", Prop("linux,initrd-start", 4) \o Nop \o Prop("model", 5) \o Prop("rng-seed", 9)),
            Node("chosen", Prop("kaslr-seed", 8) \o Node("memory", Prop("reg", 3)))}
Others == {<<>>, Node("cpus", Prop("linux,initrd-end", 8) \o Node("chosen", Prop("kaslr-seed", 8))), Node("serial", CellsProp("#address-cells", 1) \o Prop("model", 0))}
Trees == UNION {{Root(a, n, m \o c \o o) \o End, Root(a, n, o \o c \o Nop \o m \o o) \o End} :
                  a \in {1, 2}, n \in {1, 2}, m \in Memories, c \in Chosens, o \in Others}

\* trees with a fault: deep, cut short, without cells or with too many, with a name beyond the strings
Faulty == {Root(2, 2, Node("cpus", Node("memory", Node("chosen", Node("serial", <<>>))))) \o End,
           Root(2, 2, <<>>), SubSeq(Root(2, 2, <<>>), 1, 3), SubSeq(Root(2, 2, <<>>), 1, 3) \o End, Tail(Root(2, 2, <<>>)) \o End,
           Root(0, 2, <<>>) \o End, Root(2, 0, <<>>) \o End, Root(5, 2, <<>>) \o End, Root(1, 5, <<>>) \o End,
           Root(2, 2, CellsProp("#address-cells", 2)) \o End, Root(2, 2, CellsProp("#size-cells", 1)) \o End,
           Root(2, 2, Prop("none", 4)) \o End}

Blob(tree, areas, sound, good, initcpio, entropy, room) ==
  [tree |-> tree, resv |-> areas, sound |-> sound, good |-> good, strings |-> 30, initcpio |-> initcpio, entropy |-> entropy, room |-> room]
Usual(initcpio, entropy) == {Blob(t, <<"area", "end">>, TRUE, TRUE, initcpio, entropy, 200) : t \in Trees}

\* the last one, two, ... words missing, or a place in the middle
Tight(b) == {[b EXCEPT !.room = r] : r \in {19, 20, 24, 28} \union Needed(b) - 45..Needed(b)}
TightOnes == UNION {Tight(Blob(Root(2, 1, Node("chosen", Prop("rng-seed", 9)) \o Node("serial", <<>>)) \o End, <<"area", "end">>, TRUE, TRUE, initcpio, e, 0)) :
                      initcpio \in BOOLEAN, e \in {0, 8}}
Broken == {Blob(t, <<"end">>, TRUE, FALSE, FALSE, 8, 200) : t \in Faulty} \union
          {Blob(Root(2, 2, <<>>) \o End, r, s, FALSE, TRUE, 8, 200) : r \in {<<>>, <<"area">>}, s \in BOOLEAN}
MCBlobs == UNION {Usual(initcpio, e) : initcpio \in BOOLEAN, e \in {0, 8}} \union TightOnes \union Broken

NoBlob == Blob(<<>>, <<>>, FALSE, FALSE, FALSE, 0, 0)

NoDisk == [Whole EXCEPT !.mbr = FALSE, !.header = FALSE]

Idle == type = <<"A", "B">> /\ content = [p \in Part |-> IF p = Booted THEN 0 ELSE Torn] /\ version = 0 /\ step = "idle"
AtRest == /\ disk = NoDisk /\ pc = "done" /\ base = 0 /\ consumed = 0 /\ filled = 0 /\ i = 0 /\ mask = {}
          /\ first = [t \in PayloadType |-> 0] /\ last = first /\ blob = NoRead /\ res = "INVALID"

MCInit == \/ Init /\ Idle /\ FdtInit(NoBlob)
          \/ UpdateInit /\ AtRest /\ FdtInit(NoBlob)
          \/ (\E b \in Blobs : FdtInit(b)) /\ Idle /\ AtRest
MCNext == \/ Next /\ UNCHANGED <<updvars, fdtvars>>
          \/ dtb = NoBlob /\ disk = NoDisk /\ UpdateNext /\ UNCHANGED <<vars, fdtvars>>
          \/ transform_fdt /\ UNCHANGED <<vars, updvars>>
          \/ fdt_pc \in Decided /\ UNCHANGED <<vars, updvars, fdtvars>>
MCSpec == MCInit /\ [][MCNext]_<<vars, updvars, fdtvars>>
=============================================================================
