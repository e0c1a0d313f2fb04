-------------------------------- MODULE Zstd --------------------------------
(* The algorithms of a zstd block: FSE distributions and tables            *)
(* (zstd_fse.c), Huffman trees and literal streams (zstd_literals.c),      *)
(* literal headers (zstd_probe_literals.c), sequences (zstd_sequences.c)   *)
(* and their execution, with the literals kept at the end of the output    *)
(* (zstd.c), against what RFC 8878 says.                                   *)
EXTENDS Codecs

CONSTANTS
  HuffBits,        \* 11 bits index huff_table
  Stripe           \* xxh64 hashes stripes of 32 bytes

Log2(n) == Max({i \in 0..26 : 2^i <= n})
RECURSIVE Concat(_)
Concat(seqs) ==
  LET h == Len(seqs) \div 2
  IN CASE Len(seqs) = 0 -> <<>> [] Len(seqs) = 1 -> seqs[1] [] OTHER -> Concat(Take(seqs, h)) \o Concat(Drop(seqs, h))

\* streams that are read from their end: bits in the order of reading, highest first
Msb(v, n) == [i \in 1..n |-> Bit(v, n - i)]
RECURSIVE Val(_)
Val(bits) == IF bits = <<>> THEN 0 ELSE 2 * Val(Front(bits)) + Last(bits)
Read(bits, n) == Val(Take(bits, n))

-----------------------------------------------------------------------------
(* zstd_fse.c.  A weight is 0 for a probability below 1, else the          *)
(* probability plus 1.                                                     *)
trunc_length(range) == Log2(range)
trunc_cutoff(range, length) == 2^(length + 1) - range

\* one weight: the value and the number of bits it takes
TruncRead(bits, range) ==
  LET length == trunc_length(range)
      cutoff == trunc_cutoff(range, length)
      val == Num(Take(bits, length))
  IN IF val < cutoff THEN [v |-> val, n |-> length]
     ELSE [v |-> val + (IF bits[length + 1] = 1 THEN 2^length - cutoff ELSE 0), n |-> length + 1]

RECURSIVE ZeroRepeat(_)
ZeroRepeat(bits) ==
  LET rep == Num(Take(bits, 2))
  IN IF rep = 3 THEN LET z == ZeroRepeat(Drop(bits, 2)) IN [v |-> 3 + z.v, n |-> 2 + z.n]
     ELSE [v |-> rep, n |-> 2]

RECURSIVE DecodeWeights(_, _, _, _)
DecodeWeights(bits, weights, entries_left, max_sym) ==
  LET t == TruncRead(bits, entries_left + 2)
      left == entries_left - (IF t.v = 0 THEN 1 ELSE t.v - 1)
      rest == Drop(bits, t.n)
      z == ZeroRepeat(rest)
  IN IF Len(weights) >= max_sym THEN [weights |-> Bad, left |-> bits]
     ELSE IF left = 0
       THEN [weights |-> weights \o <<t.v>> \o [i \in 1..(max_sym - Len(weights) - 1) |-> 1], left |-> rest]
     ELSE IF t.v = 1 THEN DecodeWeights(Drop(rest, z.n), weights \o [i \in 1..(1 + z.v) |-> 1], left, max_sym)
     ELSE DecodeWeights(rest, Append(weights, t.v), left, max_sym)

\* the weights, and where the whole bytes read end
fse_decode_distribution(bits, max_sym) ==
  LET log == Num(Take(bits, 4)) + 5
      d == DecodeWeights(Drop(bits, 4), <<>>, 2^log, max_sym)
  IN [log |-> log, weights |-> d.weights, bytes |-> (Len(bits) - Len(d.left) + 7) \div 8]

\* the format (RFC 8878, 4.1.1)
EncodeWeight(v, range) ==
  LET n == Log2(range)
      short == 2^(n + 1) - range
  IN IF v < short THEN BitsOf(v, n) ELSE IF v < 2^n THEN BitsOf(v, n + 1) ELSE BitsOf(v + short, n + 1)
RECURSIVE EncodeWeights(_, _)
EncodeWeights(w, left) ==
  LET zeros == Min({i \in 1..Len(w) : w[i] # 1}) - 1
      cost == IF Head(w) = 0 THEN 1 ELSE Head(w) - 1
  IN IF left = 0 THEN <<>>
     ELSE EncodeWeight(Head(w), left + 2)
            \o (IF Head(w) # 1 THEN EncodeWeights(Tail(w), left - cost)
                ELSE Concat([i \in 1..((zeros - 1) \div 3) |-> <<1, 1>>]) \o BitsOf((zeros - 1) % 3, 2)
                       \o EncodeWeights(Drop(w, zeros), left))

Cost(w) == MapThenSumSet(LAMBDA i : IF w[i] = 0 THEN 1 ELSE w[i] - 1, DOMAIN w)
\* weights of 32 in all, at least two symbols
Distributions ==
  {Append(w, 33 - Cost(w)) : w \in {v \in UNION {[1..n -> {0, 1, 2, 9, 18}] : n \in 1..2} : Cost(v) \in 1..31}}
    \union {<<18>> \o [i \in 1..n |-> 1] \o <<15, 2>> : n \in 1..9}
FseSamples == {[t |-> "fse", w |-> w] : w \in Distributions}

(* A distribution is read back from its encoding, runs of zeros of any     *)
(* length and all weights included, and the bytes it takes are counted.    *)
DistributionCorrect == LET x == sample IN
  x.t = "fse" =>
    LET bits == BitsOf(0, 4) \o EncodeWeights(x.w, 32)
        d == fse_decode_distribution(bits \o <<0, 1, 1, 0, 1, 0, 1, 1>>, Len(x.w) + 2)
    IN d = [log |-> 5, weights |-> x.w \o <<1, 1>>, bytes |-> (Len(bits) + 7) \div 8]

-----------------------------------------------------------------------------
\* fse_build_table: rare symbols at the end, the others spread over the rest.
\* w is from 0 on.
Spread(log, w) ==
  LET size == 2^log
      lt1 == {s \in DOMAIN w : w[s] = 0}
      high == size - 1 - Cardinality(lt1)
      rare == [i \in (high + 1)..(size - 1) |-> CHOOSE s \in lt1 : Cardinality({r \in lt1 : r < s}) = size - 1 - i]
      syms == Concat([s \in 1..Cardinality(DOMAIN w) |-> [i \in 1..Max({0, w[s - 1] - 1}) |-> s - 1]])
      pos == SelectSeq([j \in 1..size |-> ((j - 1) * (5 * 2^(log - 3) + 3)) % size], LAMBDA i : i <= high)
  IN [i \in 0..(size - 1) |-> IF i > high THEN rare[i] ELSE syms[CHOOSE k \in DOMAIN pos : pos[k] = i]]

\* the entry of the counter-th state of a symbol
FseEntry(log, prob, counter) ==
  LET len == trunc_length(prob)
      cutoff == trunc_cutoff(prob, len)
  IN IF counter < cutoff THEN [bits |-> log - len, base |-> (counter + 2^len - cutoff) * 2^(log - len)]
     ELSE [bits |-> log - len - 1, base |-> (counter - cutoff) * 2^(log - len - 1)]

fse_build_table(log, w) ==
  LET sym == Spread(log, w) @@ <<>>
      Counter(i) == Cardinality({j \in 0..(i - 1) : sym[j] = sym[i]})
  IN [i \in DOMAIN sym |->
        LET e == IF w[sym[i]] = 0 THEN [bits |-> log, base |-> 0] ELSE FseEntry(log, w[sym[i]] - 1, Counter(i))
        IN [sym |-> sym[i], bits |-> e.bits, base |-> e.base]]

From0(seq) == [i \in 0..(Len(seq) - 1) |-> seq[i + 1]]

(* In a decoding table each symbol has as many states as its probability,  *)
(* and from every state of the next symbol exactly one of them leads       *)
(* there: their ranges of successors share out all states, in the sizes    *)
(* the encoder expects (RFC 8878, 4.1).                                    *)
TableCorrect == LET x == sample IN
  x.t = "fse" =>
    LET w == From0(x.w)
        table == fse_build_table(5, w) @@ <<>>
        Of(s) == {i \in 0..31 : table[i].sym = s}
    IN \A s \in DOMAIN w : w[s] # 1 =>
         LET p == IF w[s] = 0 THEN 1 ELSE w[s] - 1
         IN /\ Cardinality(Of(s)) = p
            /\ \A i \in Of(s) :
                 LET n == p + Cardinality({j \in Of(s) : j < i})
                 IN table[i].bits = 5 - Log2(n) /\ table[i].base = n * 2^table[i].bits - 32
            /\ \A next \in 0..31 : Cardinality({i \in Of(s) : next \in table[i].base..(table[i].base + 2^table[i].bits - 1)}) = 1

-----------------------------------------------------------------------------
(* zstd_literals.c: the weights of a tree, given as nibbles or coded with  *)
(* FSE in two interleaved states                                           *)
RECURSIVE FseWeights(_, _, _, _, _)
FseWeights(table, cur, other, bits, weights) ==
  LET e == table[cur]
      w == Append(weights, e.sym)
  IN IF Len(bits) < e.bits THEN Append(w, table[other].sym)
     ELSE FseWeights(table, other, Read(bits, e.bits) + e.base, Drop(bits, e.bits), w)

TreeWeights(tree) ==
  IF tree.kind = "direct"
    THEN [i \in 1..(tree.header - 127) |->
            LET byte == tree.bytes[(i + 1) \div 2] IN IF i % 2 = 1 THEN byte \div 16 ELSE byte % 16]
    ELSE FseWeights(tree.table, Read(tree.bits, 5), Read(Drop(tree.bits, 5), 5), Drop(tree.bits, 10), <<>>)

Weight(w) == 2^w \div 2
WeightSum(weights) == FoldLeft(LAMBDA acc, w : acc + Weight(w), 0, weights)

\* the insertion sort
InsertByWeight(order, i, weights) ==
  SelectSeq(order, LAMBDA j : weights[j] <= weights[i]) \o <<i>> \o SelectSeq(order, LAMBDA j : weights[j] > weights[i])

\* the implied last weight, and the table; symbols are counted from 1
zstd_decode_tree_description(tree) ==
  LET given == TreeWeights(tree)
      sum == WeightSum(given)
      lastweight == 1 + Min({i \in 0..20 : Bit(sum, i) = 1})
      weights == Append(given, lastweight)
      total == sum + Weight(lastweight)
      maxbits == Min({i \in lastweight..20 : total <= 2^i})
      order == FoldLeft(LAMBDA acc, i : InsertByWeight(acc, i, weights), <<>>, Upto(Len(weights)))
      Entries(sym) == IF weights[sym] = 0 THEN <<>>
                      ELSE LET len == maxbits + 1 - weights[sym]
                           IN [j \in 1..2^(HuffBits - len) |-> [sym |-> sym, len |-> len]]
  IN IF sum = 0 \/ total # 2^maxbits \/ maxbits > HuffBits THEN Bad
     ELSE Concat([i \in DOMAIN order |-> Entries(order[i])])

\* zstd_decompress_literal_stream with n literals to go, after those in out: how it
\* ends, at the assertion that there is one to decode, with an error or well
RECURSIVE LiteralStream(_, _, _, _)
LiteralStream(bits, n, table, out) ==
  LET e == table[1 + Read(bits \o Msb(0, HuffBits), HuffBits)]
      rest == Drop(bits, e.len)
  IN IF n <= 0 THEN [end |-> "assert", out |-> out]
     ELSE IF e.len > Len(bits) THEN [end |-> "error", out |-> out]
     ELSE IF n > 1 THEN LiteralStream(rest, n - 1, table, Append(out, e.sym))
     ELSE [end |-> IF rest = <<>> THEN "ok" ELSE "error", out |-> Append(out, e.sym)]

\* the first of the four streams that does not end well ends the block
zstd_decode_huff_4streams(streams, n, table) ==
  LET quarter == (n + 3) \div 4
      Part(i) == LiteralStream(streams[i], IF i < 4 THEN quarter ELSE n - 3 * quarter, table, <<>>)
      stopped == {i \in 1..4 : Part(i).end # "ok"}
  IN IF stopped # {} THEN Part(Min(stopped)) ELSE [end |-> "ok", out |-> Concat([i \in 1..4 |-> Part(i).out])]

\* the format: symbols of one length have consecutive codes, the longest first (4.2.1)
HuffCode(w, maxbits, s) ==
  LET before == MapThenSumSet(LAMBDA r : IF w[r] < w[s] \/ (w[r] = w[s] /\ r < s) THEN Weight(w[r]) ELSE 0, DOMAIN w)
  IN Msb(before \div Weight(w[s]), maxbits + 1 - w[s])
\* states of the two coders, from the last ones back (4.2.1.2)
RECURSIVE FseStates(_, _)
FseStates(table, w) ==
  LET after == FseStates(table, Tail(w))
      Of == {i \in DOMAIN table : table[i].sym = Head(w)}
      Leads(i, next) == next \in table[i].base..(table[i].base + 2^table[i].bits - 1)
  IN IF w = <<>> THEN <<>>
     ELSE <<IF Len(w) <= 2 THEN CHOOSE i \in Of : \A j \in Of : table[i].bits >= table[j].bits
            ELSE CHOOSE i \in Of : Leads(i, after[2])>> \o after
FseTree(w) ==
  LET table == fse_build_table(5, From0(<<13, 11, 9, 3>>))
      st == FseStates(table, w)
  IN [kind |-> "fse", table |-> table,
      bits |-> Msb(st[1], 5) \o Msb(st[2], 5)
                 \o Concat([i \in 1..(Len(w) - 2) |-> Msb(st[i + 2] - table[st[i]].base, table[st[i]].bits)])]
DirectTree(w) ==
  LET p == Append(w, 0)
  IN [kind |-> "direct", header |-> 127 + Len(w), bytes |-> [i \in 1..((Len(w) + 1) \div 2) |-> 16 * p[2 * i - 1] + p[2 * i]]]

Complete(w) == LET s == WeightSum(w) IN s # 0 /\ LET low == 2^Min({i \in 0..20 : Bit(s, i) = 1}) IN s + low \in {2^i : i \in 1..HuffBits}
TreeSamples == {[t |-> "tree", w |-> w, kind |-> k, n |-> n] :
                  w \in {v \in UNION {[1..i -> 0..3] : i \in 3..4} : Complete(v) /\ v[1] # 0}, k \in {"direct", "fse"}, n \in {6, 7, 9, 13, 16}}

(* A tree's table, from weights of either encoding, decodes any literals   *)
(* coded with the tree, in one stream and in four.  Three streams have a   *)
(* quarter of them each, rounded up: of 6 or 9 literals the fourth has     *)
(* none, and the decoder stops at its assertion (zstd_literals.c:144).     *)
LiteralsCorrect == LET x == sample IN
  x.t = "tree" =>
    LET table == zstd_decode_tree_description(IF x.kind = "direct" THEN DirectTree(x.w) ELSE FseTree(x.w))
        low == Min({i \in 0..20 : Bit(WeightSum(x.w), i) = 1})
        w == Append(x.w, low + 1)
        maxbits == Log2(WeightSum(w))
        used == SelectSeq(Upto(Len(w)), LAMBDA s : w[s] # 0)
        lits == [i \in 1..x.n |-> used[1 + ((i * i) % Len(used))]]
        Coded(a, b) == Concat([i \in 1..(b - a) |-> HuffCode(w, maxbits, lits[a + i])])
        q == (x.n + 3) \div 4
        four == zstd_decode_huff_4streams(<<Coded(0, q), Coded(q, 2 * q), Coded(2 * q, 3 * q), Coded(3 * q, x.n)>>, x.n, table)
    IN /\ LiteralStream(Coded(0, x.n), x.n, table, <<>>) = [end |-> "ok", out |-> lits]
       /\ four = IF x.n \in {6, 9} THEN [end |-> "assert", out |-> <<>>] ELSE [end |-> "ok", out |-> lits]

-----------------------------------------------------------------------------
(* zstd_probe_literals.c.  b: the bytes from the header on                 *)
Truncated == [flags |-> {"truncated"}, start |-> 0, end |-> 0, size |-> 0]

CompSize(sf, b) == IF sf = 2 THEN (b[3] \div 4) + b[4] * 64 ELSE (b[3] \div 64) + b[4] * 4 + b[5] * 1024

zstd_probe_literals(b) ==
  LET type == b[1] % 4
      sf == (b[1] \div 4) % 4
      regen == (b[1] \div 16) + b[2] * 16
      start == IF sf < 2 THEN 4 ELSE 4 + sf - 1
      size == IF sf < 2 THEN regen % 1024 ELSE regen + (b[3] % (IF sf = 2 THEN 4 ELSE 64)) * 4096
      comp == IF sf < 2 THEN (regen \div 1024) + b[3] * 4 ELSE CompSize(sf, b)
      start1 == IF sf % 2 = 0 THEN 2 ELSE IF sf = 1 THEN 3 ELSE 4
      size1 == IF sf % 2 = 0 THEN b[1] \div 8
               ELSE IF sf = 1 THEN (b[1] \div 16) + b[2] * 16
               ELSE (b[1] \div 16) + b[2] * 16 + b[3] * 4096
  IN IF type >= 2
       THEN IF Len(b) < 3 \/ Len(b) < start - 1 \/ Len(b) < start + comp - 1 THEN Truncated
            ELSE [flags |-> (IF type = 3 THEN {"treeless"} ELSE {}) \union (IF sf = 0 THEN {"1stream"} ELSE {}),
                  start |-> start, end |-> start + comp, size |-> size]
       ELSE IF Len(b) < start1 - 1 THEN Truncated
            ELSE IF type = 1
              THEN IF Len(b) < start1 THEN Truncated
                   ELSE [flags |-> {"rle"}, start |-> start1, end |-> start1 + 1, size |-> size1]
            ELSE IF Len(b) < start1 + size1 - 1 THEN Truncated
            ELSE [flags |-> {"raw"}, start |-> start1, end |-> start1 + size1, size |-> size1]

\* the format (3.1.1.3.1): fields of bits in order, in whole bytes
Bytes(bits) == [i \in 1..(Len(bits) \div 8) |-> Num(SubSeq(bits, 8 * i - 7, 8 * i))]
HeaderSamples ==
  {[t |-> "header", type |-> ty, sf |-> f[1], fbits |-> f[2], bits |-> f[3], size |-> s, comp |-> c] :
     ty \in {2, 3}, f \in {<<0, 2, 10>>, <<1, 2, 10>>, <<2, 2, 14>>, <<3, 2, 18>>}, s \in {0, 1, 33, 1023}, c \in {0, 3, 65, 1000}}
    \union {[t |-> "header", type |-> ty, sf |-> f[1], fbits |-> f[2], bits |-> f[3], size |-> s, comp |-> 0] :
     ty \in {0, 1}, f \in {<<0, 1, 5>>, <<1, 2, 12>>, <<3, 2, 20>>}, s \in {0, 1, 31, 17, 4095, 70000}}

(* Every form of the header of the literals gives back their type, their   *)
(* size and where they end; cut off by one byte, it is found truncated.    *)
HeaderCorrect == LET x == sample IN
  x.t = "header" /\ x.size < 2^x.bits =>
    LET head == Bytes(BitsOf(x.type, 2) \o BitsOf(x.sf, x.fbits) \o BitsOf(x.size, x.bits)
                      \o (IF x.type >= 2 THEN BitsOf(x.comp, x.bits) ELSE <<>>))
        body == CASE x.type = 0 -> Min({x.size, 5000}) [] x.type = 1 -> 1 [] x.type >= 2 -> x.comp
        all == head \o [i \in 1..body |-> 0]
        p == zstd_probe_literals(all)
    IN IF x.size > 5000 /\ x.type = 0 THEN p = Truncated
       ELSE /\ p.start = Len(head) + 1 /\ p.end = Len(all) + 1 /\ p.size = x.size
            /\ p.flags = CASE x.type = 0 -> {"raw"} [] x.type = 1 -> {"rle"}
                           [] x.type >= 2 -> (IF x.type = 3 THEN {"treeless"} ELSE {}) \union (IF x.sf = 0 THEN {"1stream"} ELSE {})
            /\ Len(all) > 1 => zstd_probe_literals(Front(all)) = Truncated

-----------------------------------------------------------------------------
(* zstd_sequences.c.  The base and the number of extra bits of the codes   *)
(* of literal lengths and of match lengths (less 3)                        *)
ctable_copy ==
  From0([c \in 1..16 |-> <<c - 1, 0>>]
    \o <<<<16, 1>>, <<18, 1>>, <<20, 1>>, <<22, 1>>, <<24, 2>>, <<28, 2>>, <<32, 3>>, <<40, 3>>, <<48, 4>>, <<64, 6>>>>
    \o [i \in 1..10 |-> <<2^(i + 6), i + 6>>])
ctable_length ==
  From0([c \in 1..32 |-> <<c - 1, 0>>]
    \o <<<<32, 1>>, <<34, 1>>, <<36, 1>>, <<38, 1>>, <<40, 2>>, <<44, 2>>, <<48, 3>>, <<56, 3>>, <<64, 4>>, <<80, 4>>, <<96, 5>>>>
    \o [i \in 1..10 |-> <<2^(i + 6), i + 6>>])

\* the 64-bit container: bytes are added while there is room and data
Refill(num_bits, left) == num_bits + 8 * Min({8 - ((num_bits + 7) \div 8), (left - num_bits) \div 8})
Filled(left) == (left % 8) + 8 * Min({left \div 8, (56 - (left % 8)) \div 8 + 1})

\* mutant: a repeated third offset leaves the second in its place
pack_sequence_KeepSecond(d, lits, dist) ==
  CASE dist > 3              -> <<dist - 3, d[1], d[2]>>
    [] dist = 3 /\ lits = 0  -> <<d[1] - 1, d[1], d[2]>>
    [] dist = 1 /\ lits # 0  -> d
    [] dist + lits = 1 \/ (dist = 2 /\ lits # 0) -> <<d[2], d[1], d[3]>>
    [] OTHER                 -> <<d[3], d[2], d[1]>>

\* the three offsets after a sequence, the first of them used in it
pack_sequence(d, lits, dist) ==
  CASE dist > 3              -> <<dist - 3, d[1], d[2]>>
    [] dist = 3 /\ lits = 0  -> <<d[1] - 1, d[1], d[2]>>
    [] dist = 1 /\ lits # 0  -> d
    [] dist + lits = 1 \/ (dist = 2 /\ lits # 0) -> <<d[2], d[1], d[3]>>
    [] OTHER                 -> <<d[3], d[1], d[2]>>

\* n sequences; e: the last entries (at first the initial states), d: the last offsets
RECURSIVE decode_sequences(_, _, _, _, _, _)
decode_sequences(tb, e, bits, num_bits, d, n) ==
  LET b1 == e.copy.bits + e.length.bits + e.dist.bits
      n1 == Refill(num_bits, Len(bits))
      Entry(k, from) == tb[k].table[Read(Drop(bits, from), e[k].bits) + e[k].base]
      e1 == [copy |-> Entry("copy", 0), length |-> Entry("length", e.copy.bits),
             dist |-> Entry("dist", e.copy.bits + e.length.bits)]
      rest == Drop(bits, b1)
      xd == e1.dist.sym
      cl == ctable_length[e1.length.sym]
      cc == ctable_copy[e1.copy.sym]
      b2 == xd + cl[2] + cc[2]
      n2 == Refill(n1 - b1, Len(rest))
      lits == cc[1] + Read(Drop(rest, xd + cl[2]), cc[2])
      d1 == pack_sequence(d, lits, 2^xd + Read(rest, xd))
      later == decode_sequences(tb, e1, Drop(rest, b2), n2 - b2, d1, n - 1)
  IN IF n = 0 THEN [ok |-> bits = <<>>, seqs |-> <<>>, d |-> d]      \* finish_sequences
     ELSE IF n1 < b1 \/ n2 < b2 \/ d1[1] = 0 THEN [ok |-> FALSE, seqs |-> <<>>, d |-> d]
     ELSE [later EXCEPT !.seqs = <<[copy |-> lits, length |-> cl[1] + Read(Drop(rest, xd), cl[2]) + 3, dist |-> d1[1]]>> \o @]

init_sequences(tb, bits, d, n) ==
  LET lc == tb.copy.log
      ld == tb.dist.log
      State(from, log) == [bits |-> 0, base |-> Read(Drop(bits, from), log)]
      total == lc + ld + tb.length.log
  IN decode_sequences(tb, [copy |-> State(0, lc), dist |-> State(lc, ld), length |-> State(lc + ld, tb.length.log)],
                      Drop(bits, total), Refill(Filled(Len(bits)), Len(bits)) - total, d, n)

-----------------------------------------------------------------------------
(* zstd.c: the decoding table of a block for literal lengths, offsets or   *)
(* match lengths.  RFC 8878 gives the tables of Predefined_Mode.           *)
Ones(n) == [i \in 1..n |-> 1]
Twos(n) == [i \in 1..n |-> 2]
Zeros(n) == [i \in 1..n |-> 0]
settings ==
  [copy |-> [log |-> 6, distr |-> <<4, 3>> \o Twos(11) \o Ones(3) \o Twos(9) \o <<3, 2>> \o Ones(5) \o Zeros(4)],
   dist |-> [log |-> 5, distr |-> Ones(6) \o Twos(3) \o Ones(15) \o Zeros(5)],
   length |-> [log |-> 6, distr |-> <<1, 4, 3>> \o Twos(6) \o Ones(37) \o Zeros(7)]]
Built(log, weights) == [log |-> log, table |-> fse_build_table(log, From0(weights)) @@ <<>>]
Predefined == [k \in DOMAIN settings |->
                 Built(settings[k].log, [i \in DOMAIN settings[k].distr |->
                                           LET w == settings[k].distr[i] IN IF w = 0 THEN 0 ELSE w + 1])]

handle_decoding_table(mode, k, last) ==
  CASE mode.m = "predefined" -> Predefined[k]
    [] mode.m = "rle" -> [log |-> 0, table |-> [s \in {0} |-> [sym |-> mode.sym, bits |-> 0, base |-> 0]]]
    [] mode.m = "fse" -> Built(5, mode.weights)
    [] mode.m = "repeat" -> last[k]
handle_decoding_tables(modes, last) ==
  [copy |-> handle_decoding_table(modes.copy, "copy", last), dist |-> handle_decoding_table(modes.dist, "dist", last),
   length |-> handle_decoding_table(modes.length, "length", last)]

\* the format (3.1.1.3.2): repeated offsets, codes, states, bits
RepeatOffset(d, lits, dist) ==
  LET i == dist + (IF lits = 0 THEN 1 ELSE 0)
      offset == IF dist > 3 THEN dist - 3 ELSE IF i = 4 THEN d[1] - 1 ELSE d[i]
  IN IF dist > 3 \/ i >= 3 THEN <<offset, d[1], d[2]>> ELSE IF i = 2 THEN <<offset, d[1], d[3]>> ELSE d
CodeOf(ctable, v) == CHOOSE c \in DOMAIN ctable : v \in ctable[c][1]..(ctable[c][1] + 2^ctable[c][2] - 1)
Codes(seqs) ==
  [copy |-> [i \in DOMAIN seqs |-> CodeOf(ctable_copy, seqs[i].copy)],
   length |-> [i \in DOMAIN seqs |-> CodeOf(ctable_length, seqs[i].length - 3)],
   dist |-> [i \in DOMAIN seqs |-> Log2(seqs[i].dist)]]
RECURSIVE States(_, _)
States(table, syms) ==
  LET after == States(table, Tail(syms))
      own == {i \in DOMAIN table : table[i].sym = Head(syms)}
  IN IF syms = <<>> THEN <<>>
     ELSE <<CHOOSE i \in own : Len(syms) = 1 \/ after[1] - table[i].base \in 0..(2^table[i].bits - 1)>> \o after
SequenceBits(seqs, tb) ==
  LET codes == Codes(seqs)
      st == [k \in DOMAIN tb |-> States(tb[k].table, codes[k])]
      First(k) == Msb(st[k][1], tb[k].log)
      Update(k, i) == LET e == tb[k].table[st[k][i - 1]] IN Msb(st[k][i] - e.base, e.bits)
      Updates(i) == IF i = 1 THEN <<>> ELSE Update("copy", i) \o Update("length", i) \o Update("dist", i)
      cl(i) == ctable_length[codes.length[i]]
      cc(i) == ctable_copy[codes.copy[i]]
      Extra(i) == Msb(seqs[i].dist - 2^codes.dist[i], codes.dist[i])
                    \o Msb(seqs[i].length - 3 - cl(i)[1], cl(i)[2]) \o Msb(seqs[i].copy - cc(i)[1], cc(i)[2])
  IN First("copy") \o First("dist") \o First("length") \o Concat([i \in DOMAIN seqs |-> Updates(i) \o Extra(i)])

\* codes of the sample, evenly likely but for the first
FseMode(codes) ==
  LET used == {codes[i] : i \in DOMAIN codes} \union {0, 1}
  IN [m |-> "fse", weights |-> [c \in 1..(Max(used) + 1) |->
        IF c - 1 \notin used THEN 1 ELSE IF c = 1 THEN 33 - 6 * (Cardinality(used) - 1) ELSE 7]]
ModeOf(kind, codes) ==
  IF kind = "fse" THEN FseMode(codes)
  ELSE IF kind = "rle" /\ \A i \in DOMAIN codes : codes[i] = codes[1] THEN [m |-> "rle", sym |-> codes[1]]
  ELSE [m |-> "predefined"]
SomeSequences ==
  {[copy |-> 0, length |-> 3, dist |-> 1], [copy |-> 0, length |-> 34, dist |-> 2], [copy |-> 0, length |-> 66, dist |-> 3],
   [copy |-> 5, length |-> 3, dist |-> 2], [copy |-> 47, length |-> 35, dist |-> 3],
   [copy |-> 131071, length |-> 65539, dist |-> 2^25 + 2]}
SequenceSamples ==
  {[t |-> "sequences", seqs |-> q, cut |-> 1, kind |-> "predefined"] : q \in [1..3 -> SomeSequences]}
    \union {[t |-> "sequences", seqs |-> <<a, a, b>>, cut |-> 3, kind |-> k] : a, b \in SomeSequences, k \in {"rle", "fse"}}

(* Sequences are read back as they were coded, in the order in which the   *)
(* format interleaves states and extra bits, with the repeated offsets it  *)
(* prescribes; tables and offsets carry over to the next block.  A match   *)
(* 32 MiB back with the longest lengths still fits the 64-bit container.   *)
SequencesCorrect == LET x == sample IN
  x.t = "sequences" =>
    LET one == Take(x.seqs, x.cut)
        two == Drop(x.seqs, x.cut)
        tb == handle_decoding_tables([k \in DOMAIN settings |-> ModeOf(x.kind, Codes(x.seqs)[k])], Predefined)
        tb2 == handle_decoding_tables([k \in DOMAIN settings |-> [m |-> "repeat"]], tb)
        r1 == init_sequences(tb, SequenceBits(one, tb), <<1, 4, 8>>, Len(one))
        r2 == init_sequences(tb2, SequenceBits(two, tb), r1.d, Len(two))
        d[i \in 0..3] == IF i = 0 THEN <<1, 4, 8>> ELSE RepeatOffset(d[i - 1], x.seqs[i].copy, x.seqs[i].dist)
        want == [i \in 1..3 |-> [x.seqs[i] EXCEPT !.dist = d[i][1]]]
    IN IF \A i \in 1..3 : d[i][1] # 0
         THEN r1 = [ok |-> TRUE, seqs |-> Take(want, x.cut), d |-> d[x.cut]]
              /\ (two # <<>> => r2 = [ok |-> TRUE, seqs |-> Drop(want, x.cut), d |-> d[3]])
         ELSE ~r1.ok \/ ~r2.ok

-----------------------------------------------------------------------------
(* zstd.c: decompress_block.  Literals that are not raw are decoded into   *)
(* the end of the output buffer and the scratch block after it (out_end is *)
(* LZCOMMON_BLOCK below the end of the buffer); the sequences are executed *)
(* from the start of the same buffer.                                      *)
(*                                                                         *)
(* The literals are those of a sound tree: that a tree description failed  *)
(* is not tested (zstd.c:151), and what the streams then decode to, from   *)
(* a null pointer on, is outside the model.                                *)
Failed(why) == [res |-> why, out |-> 0, m |-> <<>>]

Fits(room, q, size) == room >= q.length + size

\* The literals after the last sequence are moved by a memcpy whose areas may overlap:
\* it goes up byte by byte (aarch64/string.S) and out is not above ptr.
RECURSIVE Execute(_, _, _, _, _, _)
Execute(m, out, out_end, ptr, size, seqs) ==
  LET q == Head(seqs)
      m1 == lzcommon_literal_copy(m, out, ptr, q.copy)
      out1 == out + q.copy
  IN IF seqs = <<>>
       THEN [res |-> "ok", out |-> out + size,
             m |-> [a \in DOMAIN m |-> IF a \in out..(out + size - 1) THEN m[ptr + (a - out)] ELSE m[a]]]
     ELSE IF q.copy > size THEN Failed("err")
     ELSE IF ~Fits(out_end - out, q, size) THEN Failed("need_more_space")
     ELSE IF q.dist > out1 THEN Failed("err")
     ELSE Execute(lzcommon_match_copy(m1, out1, q.dist, q.length), out1 + q.length, out_end, ptr + q.copy, size - q.copy, Tail(seqs))

decompress_block(m, out, out_end, lits, seqs) ==
  LET Decoded(p) == [a \in DOMAIN m |-> IF a \in p..(p + Len(lits) - 1) THEN lits[a - p + 1] ELSE m[a]]
      ptr == out_end + 8 - Len(lits)
  IN IF out_end - out < Len(lits) THEN Failed("need_more_space")
     ELSE IF seqs = <<>> THEN [res |-> "ok", out |-> out + Len(lits), m |-> Decoded(out)]
     ELSE Execute(Decoded(ptr), out, out_end, ptr, Len(lits), seqs)

\* the format: literals and matches in turn, then the rest of the literals
RECURSIVE Expansion(_, _, _)
Expansion(out, lits, seqs) ==
  IF seqs = <<>> THEN out \o lits
  ELSE Expansion(MatchCopy(out \o Take(lits, Head(seqs).copy), Head(seqs).dist, Head(seqs).length),
                 Drop(lits, Head(seqs).copy), Tail(seqs))

InPlaceSamples ==
  {[t |-> "inplace", lits |-> n, room |-> r, seqs |-> q] :
     n \in {0, 5, 9, 18, 24}, r \in {-7, -1, 0, 1, 6},
     q \in {<<>>} \union {<<a, b>> : a, b \in {[copy |-> c, length |-> l, dist |-> d] : c \in {0, 3, 9}, l \in {3, 11}, d \in {1, 7}}}}

(* With the literals at the end of its own output buffer a block is        *)
(* expanded as its sequences say, whenever the output fits: no copy, with  *)
(* the bytes it writes past its own end, reaches literals still to be      *)
(* read.  What does not fit is refused, more literals than there are is an *)
(* error, and nothing past the scratch block is written.                   *)
InPlaceCorrect == LET x == sample IN
  x.t = "inplace" =>
    LET window == Upto(11)
        lits == [i \in 1..x.lits |-> 100 + i]
        Total(f) == IF x.seqs = <<>> THEN 0 ELSE x.seqs[1][f] + x.seqs[2][f]
        want == Expansion(window, lits, x.seqs)
        out_end == 11 + x.lits + Total("length") + x.room
        m == [a \in 0..(out_end + 20) |-> IF a < 11 THEN a + 1 ELSE 0]
        r == decompress_block(m, 11, out_end, lits, x.seqs)
    IN IF Total("copy") > x.lits \/ x.room < 0 THEN r.res # "ok"
       ELSE /\ r.res = "ok"
            /\ r.out = Len(want)
            /\ \A a \in 0..(r.out - 1) : r.m[a] = want[a + 1]
            /\ \A a \in (out_end + 8)..(out_end + 20) : r.m[a] = 0

-----------------------------------------------------------------------------
(* zstd.c: xxh64_update.  The rounds are what is hashed in turn.           *)
xxh64_update(st, data) ==
  LET fillup == Stripe - Len(st.buf)
      rest == Drop(data, fillup)
      n == Len(rest) \div Stripe
  IN IF Len(data) <= Stripe /\ Len(st.buf) + Len(data) < Stripe
       THEN [st EXCEPT !.buf = @ \o data]
       ELSE [rounds |-> Append(st.rounds, st.buf \o Take(data, fillup))
                          \o [i \in 1..n |-> SubSeq(rest, Stripe * (i - 1) + 1, Stripe * i)],
             buf |-> Drop(rest, n * Stripe)]

HashSamples == {[t |-> "hash", sizes |-> f] : f \in [1..3 -> 0..(2 * Stripe + 1)]}

(* The hash depends on the content alone, not on how blocks cut it: all    *)
(* stripes are hashed in order, each as soon as it is whole, and less than *)
(* one is left for xxh64_finalize (its assert(single_rounds < 4)).         *)
HashCorrect == LET x == sample IN
  x.t = "hash" =>
    LET a == Upto(x.sizes[1])
        b == [i \in 1..x.sizes[2] |-> Len(a) + i]
        c == [i \in 1..x.sizes[3] |-> Len(a) + Len(b) + i]
        st == xxh64_update(xxh64_update(xxh64_update([rounds |-> <<>>, buf |-> <<>>], a), b), c)
        all == Upto(Len(a) + Len(b) + Len(c))
        n == Len(all) \div Stripe
    IN st = [rounds |-> [i \in 1..n |-> SubSeq(all, Stripe * (i - 1) + 1, Stripe * i)], buf |-> Drop(all, n * Stripe)]

(* The parts of the zstd decoder compute what RFC 8878 says, for every     *)
(* sample.                                                                 *)
ZstdCorrect ==
  /\ DistributionCorrect /\ TableCorrect /\ LiteralsCorrect /\ HeaderCorrect
  /\ SequencesCorrect /\ InPlaceCorrect /\ HashCorrect
=============================================================================
