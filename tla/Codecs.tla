------------------------------- MODULE Codecs -------------------------------
(* The algorithms under the decompressors, as operators, with what the     *)
(* formats say they should compute: the copies of compression/lzcommon.c,  *)
(* LZ4 blocks (lz4.c), the Huffman tables, code lengths and matches of     *)
(* inflate.c.  A sample is an input of one of them.                        *)
EXTENDS Integers, Sequences, FiniteSets, FiniteSetsExt, SequencesExt

CONSTANTS
  TableBits,       \* inflate: 11 bits index a decoding table,
  MaxLen           \* 15 bits is the longest code

VARIABLE sample

Bad == <<"bad">>       \* a failed check
RoundUp8(n) == ((n + 7) \div 8) * 8
Upto(n) == [i \in 1..n |-> i]

-----------------------------------------------------------------------------
(* lzcommon.c.  A memory is a function from addresses; a 64-bit word is a  *)
(* function from 0..7, and shifts are by whole bytes.                      *)
Word(m, a) == [i \in 0..7 |-> m[a + i]]
Shl(x, k) == [i \in 0..7 |-> IF i >= k THEN x[i - k] ELSE 0]
Shr(x, k) == [i \in 0..7 |-> IF i + k <= 7 THEN x[i + k] ELSE 0]
Or(x, y) == [i \in 0..7 |-> IF x[i] = 0 THEN y[i] ELSE x[i]]
Store(m, a, n, x) == [b \in DOMAIN m |-> IF b \in a..(a + n - 1) THEN x[b - a] ELSE m[b]]

\* the loops over words: plain, and joining two of them
RECURSIVE Words(_, _, _, _)
Words(m, dest, src, end) ==
  IF src >= end THEN m ELSE Words(Store(m, dest, 8, Word(m, src)), dest + 8, src + 8, end)

RECURSIVE Joined(_, _, _, _, _, _, _)
Joined(m, dest, src, end, dest_end, bits, shift) ==
  IF src >= end
    THEN IF end - src < dest_end - dest THEN Store(m, dest, 8, bits) ELSE m
    ELSE LET x == Word(m, src)
         IN Joined(Store(m, dest, 8, Or(Shl(x, shift), bits)), dest + 8, src + 8, end, dest_end,
                   Shr(x, 8 - shift), shift)

\* copy, of at least 8 bytes.  so and do are src_align_off and dest_align_off.
copy(m, dest, src, length) ==
  LET so == (8 - (src % 8)) % 8
      do == (8 - (dest % 8)) % 8
      end == RoundUp8(src + length)
      dest_end == RoundUp8(dest + length)
      first == [i \in 0..7 |-> IF i < so THEN m[src + i] ELSE 0]
      bits == IF so < do THEN Or(first, Shl(Word(m, src + so), so)) ELSE first
      m1 == Store(m, dest, do, bits)
      shift == (8 + so - do) % 8
  IN IF so = do THEN Words(Store(m, dest, so, first), dest + so, src + so, end)
     ELSE IF so < do
       THEN Joined(m1, dest + do, src + so + 8, end, dest_end, Shr(Word(m, src + so), 8 - shift), shift)
       ELSE Joined(m1, dest + do, src + so, end, dest_end, Shr(bits, do), shift)

lzcommon_literal_copy(m, dest, src, length) ==
  IF length < 8 THEN Store(m, dest, 8, Word(m, src)) ELSE copy(m, dest, src, length)

lzcommon_match_copy(m, dest, dist, length) ==
  IF dist >= length THEN lzcommon_literal_copy(m, dest, dest - dist, length)
  ELSE [a \in DOMAIN m |-> IF a \in dest..(dest + length - 1) THEN m[dest - dist + ((a - dest) % dist)] ELSE m[a]]

\* from: the source; to: the destination; what is there before is 1..
CopyMemory == [a \in 0..95 |-> a + 1]
CopySizes == {0, 1, 7, 8, 9, 15, 16, 17, 20}
CopySamples == {[t |-> "literal", src |-> s, dest |-> d, n |-> n] : s \in 0..7, d \in 48..55, n \in CopySizes}
                 \union {[t |-> "literal", src |-> d + k, dest |-> d, n |-> n] : k \in 1..20, d \in 40..47, n \in CopySizes}
                 \union {[t |-> "match", src |-> d - k, dest |-> d, n |-> n] : k \in 1..20, d \in 40..47, n \in CopySizes \ {0}}

(* Literals and matches are copied byte for byte, whatever the alignment   *)
(* of the two ends, and at most the rest of the last block after them is   *)
(* overwritten (lzcommon.c:128: "possibly writing garbage until the next   *)
(* LZCOMMON_BLOCK boundary"; of less than a block, one block).             *)
CopyCorrect == LET x == sample IN
  x.t \in {"literal", "match"} =>
    LET m == IF x.t = "literal" THEN lzcommon_literal_copy(CopyMemory, x.dest, x.src, x.n)
                                ELSE lzcommon_match_copy(CopyMemory, x.dest, x.dest - x.src, x.n)
    IN \A a \in DOMAIN m :
         IF a \in x.dest..(x.dest + x.n - 1)
           THEN m[a] = CopyMemory[x.src + (IF x.t = "literal" THEN a - x.dest ELSE (a - x.dest) % (x.dest - x.src))]
           ELSE a \in (x.dest + x.n)..(Max({x.dest + 8, RoundUp8(x.dest + x.n)}) - 1) \/ m[a] = CopyMemory[a]

-----------------------------------------------------------------------------
(* lz4.c: decompress_block.  in, out: bytes; cap: room for the output; the *)
(* window is all of out.                                                   *)

\* the further bytes of a length: its value and where they end
RECURSIVE Extended(_, _, _)
Extended(in, i, value) == IF in[i] = 255 THEN Extended(in, i + 1, value + 255) ELSE [v |-> value + in[i], i |-> i + 1]

MatchCopy(out, dist, length) == out \o [k \in 1..length |-> out[Len(out) - dist + 1 + ((k - 1) % dist)]]

RECURSIVE Lz4Sequences(_, _, _, _)
Lz4Sequences(in, i, out, cap) ==
  LET end == Len(in) + 1
      lit == IF in[i] \div 16 = 15 THEN Extended(in, i + 1, 15) ELSE [v |-> in[i] \div 16, i |-> i + 1]
      out1 == out \o SubSeq(in, lit.i, lit.i + lit.v - 1)
      j == lit.i + lit.v
      dist == in[j] + 256 * in[j + 1]
      len == (in[i] % 16) + 4
      match == IF len = 19 THEN Extended(in, j + 2, 19) ELSE [v |-> len, i |-> j + 2]
  IN IF end - lit.i < lit.v \/ cap - Len(out) < lit.v THEN Bad
     ELSE IF end - lit.i < lit.v + 8
       THEN IF end - lit.i = lit.v /\ in[i] % 16 = 0 THEN out1 ELSE Bad
     ELSE IF dist = 0 \/ dist > Len(out1) \/ cap - Len(out1) < match.v + 5 \/ match.i > end - 6 THEN Bad
     ELSE Lz4Sequences(in, match.i, MatchCopy(out1, dist, match.v), cap)

lz4_decompress_block(in, out, cap) ==
  IF Len(in) = 0 THEN Bad
  ELSE IF Len(in) < 6
    THEN IF (Len(in) - 1) * 16 = in[1] /\ cap - Len(out) >= Len(in) - 1 THEN out \o Tail(in) ELSE Bad
  ELSE Lz4Sequences(in, 1, out, cap)

\* the format: a token, literals, the match (none at the end)
Nibble(n) == IF n < 15 THEN n ELSE 15
Ext(n) == IF n < 15 THEN <<>> ELSE [i \in 1..((n - 15) \div 255) |-> 255] \o <<(n - 15) % 255>>
Lz4Sequence(lit, dist, len) ==
  <<Nibble(Len(lit)) * 16 + Nibble(len - 4)>> \o Ext(Len(lit)) \o lit \o <<dist % 256, dist \div 256>> \o Ext(len - 4)
Lz4Last(lit) == <<Nibble(Len(lit)) * 16>> \o Ext(Len(lit)) \o lit

Lz4Samples ==
  {[t |-> "lz4", n |-> n, dist |-> d, len |-> l, last |-> z] :
     n \in {1, 14, 15, 16, 269, 270, 271}, d \in {1, 2, 257, 271}, l \in {4, 18, 19, 20, 273, 274}, z \in {5, 15, 16}}
    \union {[t |-> "lz4", n |-> 0, dist |-> 0, len |-> 0, last |-> z] : z \in 0..16}

(* A block of the LZ4 format gives its literals and matches, with lengths  *)
(* around the steps of their encoding (15, 15 + 255, 19, 19 + 255), in a   *)
(* buffer that just holds them.                                            *)
Lz4Correct == LET x == sample IN
  x.t = "lz4" =>
    LET last == Upto(x.last)
        block == (IF x.n = 0 THEN <<>> ELSE Lz4Sequence(Upto(x.n), x.dist, x.len)) \o Lz4Last(last)
        out == (IF x.n = 0 THEN <<>> ELSE MatchCopy(Upto(x.n), x.dist, x.len)) \o last
    IN x.dist <= x.n => lz4_decompress_block(block, <<>>, x.n + x.len + x.last) = out

-----------------------------------------------------------------------------
(* inflate.c: construct_codes and construct_dectable.  Codes are kept with *)
(* their first bit lowest, as the stream has them.                         *)
Bit(n, i) == (n \div 2^i) % 2

\* the next code of a length: a carry that runs from the last bit to the first
RECURSIVE Carry(_, _)
Carry(code, pos) == IF pos < 0 THEN 0
                    ELSE IF Bit(code, pos) = 0 THEN code + 2^pos ELSE Carry(code - 2^pos, pos - 1)

\* the two loops: every length, and every symbol that has it
RECURSIVE ByLength(_, _)
ByLength(lengths, len) ==
  IF len > MaxLen THEN <<>>
  ELSE SelectSeq([k \in 1..Cardinality(DOMAIN lengths) |-> k - 1], LAMBDA sym : lengths[sym] = len)
         \o ByLength(lengths, len + 1)
RECURSIVE GiveCodes(_, _, _, _)
GiveCodes(lengths, syms, code, codes) ==
  IF syms = <<>> THEN codes
  ELSE GiveCodes(lengths, Tail(syms), Carry(code, lengths[Head(syms)] - 1), [codes EXCEPT ![Head(syms)] = code])
construct_codes(lengths) == GiveCodes(lengths, ByLength(lengths, 1), 0, [s \in DOMAIN lengths |-> 0])

\* short codes fill the table; a long one leaves its mark and goes to a list
\* (the symbols of each length)
construct_dectable(lengths, codes) ==
  LET Short(i) == {s \in DOMAIN lengths : lengths[s] \in 1..TableBits /\ i % 2^lengths[s] = codes[s]}
      Long(i) == {s \in DOMAIN lengths : lengths[s] > TableBits /\ codes[s] % 2^TableBits = i}
  IN [table |-> [i \in 0..(2^TableBits - 1) |->
                   IF Long(i) # {} THEN [len |-> TableBits + 1, sym |-> 0]
                   ELSE IF Short(i) # {} THEN [len |-> lengths[Max(Short(i))], sym |-> Max(Short(i))]
                   ELSE [len |-> TableBits - 1, sym |-> 0]],
      over |-> [l \in (TableBits + 1)..MaxLen |->
                  {s \in DOMAIN lengths : lengths[s] = l}]]

\* the decoding of one code in huff_block, with bits enough; for bits that begin with
\* no code, which an incomplete set of codes allows, the search through the longer
\* codes has no end of its own (its '++len == 4' starts above 4) and is outside
DecodeSymbol(dec, codes, bits) ==
  LET e == dec.table[bits % 2^TableBits]
      Hits(l) == {s \in dec.over[l] : codes[s] = bits % 2^l}
      l == Min({k \in (TableBits + 1)..MaxLen : Hits(k) # {}})
  IN IF e.len <= TableBits THEN [sym |-> e.sym, len |-> e.len] ELSE [sym |-> Min(Hits(l)), len |-> l]

Kraft(lengths) == MapThenSumSet(LAMBDA s : IF lengths[s] = 0 THEN 0 ELSE 2^(MaxLen - lengths[s]), DOMAIN lengths)

\* the format (RFC 1951, 3.2.2): codes of one length are consecutive, shorter ones
\* come first; written from the first bit
Canonical(lengths, s) ==
  MapThenSumSet(LAMBDA r : IF lengths[r] # 0 /\ (lengths[r] < lengths[s] \/ (lengths[r] = lengths[s] /\ r < s))
                             THEN 2^(lengths[s] - lengths[r]) ELSE 0, DOMAIN lengths)
Reversed(n, len) == MapThenSumSet(LAMBDA i : Bit(n, i) * 2^(len - 1 - i), 0..(len - 1))

HuffSamples == {[t |-> "huff", lengths |-> f] : f \in {f \in [0..3 -> 0..MaxLen] : Kraft(f) <= 2^MaxLen /\ \E s \in 0..3 : f[s] # 0}}

(* For every set of code lengths a block may declare, each stream that     *)
(* starts with the code of a symbol is decoded to that symbol and length,  *)
(* for codes that the table holds and for longer ones.                     *)
HuffCorrect == LET x == sample IN
  x.t = "huff" =>
    LET codes == construct_codes(x.lengths)
        dec == construct_dectable(x.lengths, codes)
    IN \A s \in DOMAIN x.lengths : x.lengths[s] # 0 =>
         \A rest \in 0..(2^(MaxLen - x.lengths[s]) - 1) :
           DecodeSymbol(dec, codes, Reversed(Canonical(x.lengths, s) % 2^MaxLen, x.lengths[s]) + rest * 2^x.lengths[s])
             = [sym |-> s, len |-> x.lengths[s]]

-----------------------------------------------------------------------------
(* inflate.c: the code lengths of a dynamic block.  Streams are sequences  *)
(* of bits in the order in which they are read.                            *)
RECURSIVE Num(_)
Num(bits) == IF bits = <<>> THEN 0 ELSE Head(bits) + 2 * Num(Tail(bits))
BitsOf(v, n) == [i \in 1..n |-> Bit(v, i - 1)]
Take(bits, n) == SubSeq(bits, 1, n)
Drop(bits, n) == SubSeq(bits, n + 1, Len(bits))

OutOfData == [val |-> -1, rest |-> <<>>]
\* a symbol below base, or base and what its table entry and extra bits add
huff_with_extra(bits, dec, codes, base, extra_bit_table, baseline_table) ==
  LET s == DecodeSymbol(dec, codes, Num(Take(bits, Min({MaxLen, Len(bits)}))))
      rest == Drop(bits, s.len)
      extra == extra_bit_table[s.sym - base + 1]
  IN IF s.len > Len(bits) THEN OutOfData
     ELSE IF s.sym < base THEN [val |-> s.sym, rest |-> rest]
     ELSE IF extra > Len(rest) THEN OutOfData
     ELSE [val |-> base + baseline_table[s.sym - base + 1] + Num(Take(rest, extra)), rest |-> Drop(rest, extra)]

\* mutant: the codes that fill with zeros count from one too early
RepBase_Off(val) == IF val < 16 THEN 1 ELSE IF val < 20 THEN val - 16 + 3 ELSE val - 19 + 3
\* how many lengths a code gives
RepBase(val) == IF val < 16 THEN 1 ELSE IF val < 20 THEN val - 16 + 3 ELSE val - 20 + 3
RECURSIVE decode_lengths(_, _, _, _, _)
decode_lengths(bits, dec, codes, lengths, num_symbols) ==
  LET h == huff_with_extra(bits, dec, codes, 16, <<2, 3, 7>>, <<0, 4, 12>>)
      n == RepBase(h.val)
      v == IF h.val < 16 THEN h.val ELSE IF h.val < 20 THEN Last(lengths) ELSE 0
  IN IF Len(lengths) = num_symbols THEN [lengths |-> lengths, rest |-> bits]
     ELSE IF h = OutOfData \/ (h.val \in 16..19 /\ lengths = <<>>) \/ Len(lengths) + n > num_symbols THEN Bad
     ELSE decode_lengths(h.rest, dec, codes, lengths \o [i \in 1..n |-> v], num_symbols)

\* the format: a length, 3..6 more of the last one, or 3..138 zeros
Item(k, n) == [k |-> k, n |-> n]
Items == {Item("len", 0), Item("len", 5), Item("len", 15), Item("rep", 3), Item("rep", 6),
          Item("fill", 3), Item("fill", 10), Item("fill", 11), Item("fill", 138)}
ItemBits(i, Code(_)) ==
  CASE i.k = "len" -> Code(i.n)
    [] i.k = "rep" -> Code(16) \o BitsOf(i.n - 3, 2)
    [] i.k = "fill" /\ i.n <= 10 -> Code(17) \o BitsOf(i.n - 3, 3)
    [] i.k = "fill" /\ i.n > 10 -> Code(18) \o BitsOf(i.n - 11, 7)
Expand(items) ==
  FoldLeft(LAMBDA acc, i : acc \o (CASE i.k = "len" -> <<i.n>>
                                     [] i.k = "rep" -> [k \in 1..i.n |-> Last(acc)]
                                     [] i.k = "fill" -> [k \in 1..i.n |-> 0]), <<>>, items)
\* the lengths of the codes of the lengths: a few short, some longer than the table
ClLengths == [s \in 0..18 |-> IF s \in {0, 5} THEN 3 ELSE 5]

LengthsSamples == {[t |-> "lengths", items |-> i] : i \in {j \in [1..3 -> Items] : j[1].k # "rep"}}

(* The lengths of a dynamic block are those its literal and repeat codes   *)
(* stand for, and reading stops right after them, where the lengths of the *)
(* distance codes start.                                                   *)
LengthsCorrect == LET x == sample IN
  x.t = "lengths" =>
    LET codes == construct_codes(ClLengths)
        dec == construct_dectable(ClLengths, codes)
        Code(s) == BitsOf(codes[s], ClLengths[s])
        want == Expand(x.items)
        bits == FoldLeft(LAMBDA acc, i : acc \o ItemBits(i, Code), <<>>, x.items)
    IN decode_lengths(bits \o <<1, 1, 0>>, dec, codes, <<>>, Len(want)) = [lengths |-> want, rest |-> <<1, 1, 0>>]

-----------------------------------------------------------------------------
(* inflate.c: the tables of a fixed block, from the stream's next 9 bits   *)
Rev9(i) == Reversed(i, 9)
FixedLit(i) ==
  LET rev == Rev9(i)
  IN IF rev < 95 THEN [sym |-> (rev \div 4) + 256, len |-> 7]
     ELSE IF rev < 383 THEN [sym |-> (rev \div 2) - 48, len |-> 8]
     ELSE IF rev < 395 THEN [sym |-> (rev \div 2) - 192 + 280, len |-> 8]
     ELSE IF rev < 399 THEN [sym |-> 0, len |-> 10]
     ELSE [sym |-> rev - 400 + 144, len |-> 9]

\* the format (RFC 1951, 3.2.6)
FixedLen(s) == IF s \in 144..255 THEN 9 ELSE IF s \in 256..279 THEN 7 ELSE 8
FixedCode(s) == CASE s <= 143 -> 48 + s
                  [] s \in 144..255 -> 400 + s - 144
                  [] s \in 256..279 -> s - 256
                  [] s >= 280 -> 192 + s - 280
FixedSamples == {[t |-> "fixed", sym |-> s, rest |-> r] : s \in 0..285, r \in 0..3}

(* Every code of a fixed block is decoded to its symbol, whatever follows  *)
(* it.                                                                     *)
FixedCorrect == LET x == sample IN
  x.t = "fixed" =>
    LET code == Reversed(FixedCode(x.sym), FixedLen(x.sym))
    IN FixedLit((code + x.rest * 2^FixedLen(x.sym)) % 512) = [sym |-> x.sym, len |-> FixedLen(x.sym)]

\* a length and a distance: their tables (init) and their use (huff_block)
lit_extra == <<1, 1, 1, 1, 2, 2, 2, 2, 3, 3, 3, 3, 4, 4, 4, 4, 5, 5, 5, 5, 0>>
dist_extra == [i \in 1..26 |-> (i + 1) \div 2]
BaseTable(first, extra) == [i \in DOMAIN extra |-> first + MapThenSumSet(LAMBDA j : 2^extra[j], 1..(i - 1))]

MatchLength(lit, extra) ==
  LET length == IF lit < 265 THEN lit - 257 + 3 ELSE BaseTable(11, lit_extra)[lit - 264] + extra
  IN IF length >= 258 THEN IF length = 258 THEN -1 ELSE 258 ELSE length
MatchDist(sym, extra) == IF sym < 4 THEN sym + 1 ELSE BaseTable(5, dist_extra)[sym - 3] + extra

MatchSamples == {[t |-> "length", v |-> v] : v \in 3..258} \union {[t |-> "dist", v |-> v] : v \in (1..300) \union (24500..24600) \union (32700..32768)}

(* Every length from 3 to 258 and every distance up to 32768 has one pair  *)
(* of a symbol and extra bits that is decoded to it (RFC 1951, 3.2.5).     *)
MatchCorrect == LET x == sample IN
  /\ x.t = "length" =>
       Cardinality({p \in (257..285) \X (0..31) :
                      p[2] < 2^(IF p[1] < 265 THEN 0 ELSE lit_extra[p[1] - 264]) /\ MatchLength(p[1], p[2]) = x.v}) = 1
  /\ x.t = "dist" =>
       Cardinality({s \in 0..29 : LET n == IF s < 4 THEN 1 ELSE 2^dist_extra[s - 3]
                                  IN x.v \in MatchDist(s, 0)..MatchDist(s, n - 1)}) = 1

(* The copies, LZ4 and deflate compute what their formats say, for every   *)
(* sample.  The fixed codes are apart (FixedCorrect).                      *)
CodecsCorrect == CopyCorrect /\ Lz4Correct /\ HuffCorrect /\ LengthsCorrect /\ MatchCorrect
=============================================================================
