--------------------------- MODULE MCDecompress ---------------------------
(* An initial state is either a payload in the flash or, with boot_spi    *)
(* over, a sample for the algorithms of Codecs and Zstd.                  *)
EXTENDS SpiBoot, Zstd

Piece == [fn |-> "", kind |-> "", size |-> 0, out |-> 0, bits |-> 0, lit |-> 0, extra |-> 0, dist |-> 0, dextra |-> 0, last |-> FALSE]
Lz4Block(size, out) == [Piece EXCEPT !.fn = "lz4_block", !.size = size, !.out = out]
ZstdBlock(kind, size, out, last) == [Piece EXCEPT !.fn = "zstd_block", !.kind = kind, !.size = size, !.out = out, !.last = last]
BlockStart(kind, bits) == [Piece EXCEPT !.fn = "block_start", !.kind = kind, !.bits = bits]
RawBlock(size, last) == [Piece EXCEPT !.fn = "raw_block", !.size = size, !.out = size, !.last = last]
Literal(lit) == [Piece EXCEPT !.fn = "huff_block", !.kind = "lit", !.lit = lit, !.out = 1]
Match(lit, extra, dist, dextra, out) == [Piece EXCEPT !.fn = "huff_block", !.kind = "match", !.lit = lit, !.extra = extra,
                                                      !.dist = dist, !.dextra = dextra, !.out = out]
EndOfBlock(lit, last) == [Piece EXCEPT !.fn = "huff_block", !.kind = "end", !.lit = lit, !.last = last]
Trailer(fn) == [Piece EXCEPT !.fn = fn]

Plain == [fmt |-> "", header |-> 0, extra |-> 0, known |-> TRUE, good_header |-> TRUE, good |-> TRUE,
          csum |-> TRUE, bsum |-> FALSE, max |-> 16, els |-> <<>>]
Lz4(blocks) == [Plain EXCEPT !.fmt = "lz4", !.header = 7, !.els = blocks \o <<Lz4Block(0, 0), Trailer("lz4_trailer")>>]
Gzip(els) == [Plain EXCEPT !.fmt = "gzip", !.header = 10, !.els = els \o <<Trailer("trailer")>>]
ZstdFrame(blocks) == [Plain EXCEPT !.fmt = "zstd", !.header = 6, !.els = blocks \o <<Trailer("zstd_trailer")>>]

Lz4A == Lz4(<<Lz4Block(9, 14), Lz4Block(3, 3)>>)
Lz4B == [Lz4(<<Lz4Block(5, 5)>>) EXCEPT !.header = 15, !.bsum = TRUE]
GzipA == Gzip(<<BlockStart("dynamic", 43), Literal(3), Match(15, 5, 13, 11, 6), Match(2, 0, 3, 0, 3), EndOfBlock(15, FALSE),
                BlockStart("fixed", 3), Literal(8), EndOfBlock(7, FALSE), BlockStart("raw", 0), RawBlock(4, TRUE)>>)
GzipB == [Gzip(<<BlockStart("raw", 0), RawBlock(3, FALSE), BlockStart("dynamic", 30), Literal(12), Literal(5), EndOfBlock(1, TRUE)>>)
            EXCEPT !.header = 21]
ZstdA == ZstdFrame(<<ZstdBlock("raw", 5, 5, FALSE), ZstdBlock("rle", 7, 7, FALSE), ZstdBlock("compressed", 6, 9, TRUE)>>)
ZstdB == [ZstdFrame(<<ZstdBlock("compressed", 4, 4, TRUE)>>) EXCEPT !.header = 13]

\* one frame that is out of the ordinary
Odd == <<[Lz4A EXCEPT !.csum = FALSE], [Lz4A EXCEPT !.known = FALSE], [Lz4A EXCEPT !.max = 8, !.good = FALSE],
        [GzipB EXCEPT !.good = FALSE], [GzipA EXCEPT !.known = FALSE],
        [GzipB EXCEPT !.extra = 9], [GzipB EXCEPT !.good_header = FALSE],
        Gzip(<<BlockStart("fixed", 3), Literal(8), EndOfBlock(7, TRUE)>>), [Gzip(<<BlockStart("reserved", 3)>>) EXCEPT !.good = FALSE],
        [ZstdB EXCEPT !.good = FALSE], [ZstdB EXCEPT !.csum = FALSE], [ZstdB EXCEPT !.known = FALSE],
        [ZstdFrame(<<ZstdBlock("reserved", 4, 4, TRUE)>>) EXCEPT !.good = FALSE], ZstdFrame(<<ZstdBlock("rle", 60, 60, TRUE)>>),
        Gzip(<<BlockStart("raw", 0), RawBlock(60, TRUE)>>)>>
MCPayloads == <<<<Lz4A, GzipB>>, <<GzipA, ZstdB>>, <<ZstdA, Lz4B>>, <<ZstdB, GzipA>>,
                <<Lz4A, [ZstdB EXCEPT !.good = FALSE]>>, <<GzipB, [ZstdA EXCEPT !.good = FALSE]>>>>
              \o [i \in DOMAIN Odd |-> <<Odd[i], Lz4A>>] \o <<<<Lz4B>>, <<GzipB>>, <<ZstdB>>>>
MCRooms == <<56, 48>>

Samples == UNION {CopySamples, Lz4Samples, HuffSamples, LengthsSamples, MatchSamples, FseSamples, TreeSamples,
                  HeaderSamples, SequenceSamples, InPlaceSamples, HashSamples}
NoSample == [t |-> "none"]
Over == /\ flash = 1 /\ pc = "exit" /\ ret = "probe" /\ want = 0 /\ start = 0 /\ avail = 0
        /\ spi = [buf |-> 0, items |-> 0, threshold |-> 0, enable |-> FALSE]
        /\ fmt = 1 /\ cur = 1 /\ el = 1 /\ outs = <<>> /\ odd = FALSE
        /\ container = [ptr |-> 0, num |-> 0, out |-> 0]
        /\ dec = [decode |-> "none", skip |-> 0, out |-> 0, room |-> 0]

MCNext == Next /\ UNCHANGED sample
MCSpec == ((Init /\ sample = NoSample) \/ (Over /\ sample \in Samples)) /\ [][MCNext]_<<vars, sample>> /\ Fairness
FixedSpec == Over /\ sample \in FixedSamples /\ [][MCNext]_<<vars, sample>>
=============================================================================
