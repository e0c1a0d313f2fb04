------------------------------ MODULE SpiBoot ------------------------------
(* Booting from SPI flash: boot_spi (rk3399/spi.c) starts a read that the  *)
(* interrupt handler of lib/rkspi.c carries on, and decompress_payload     *)
(* (dramstage/decompression.c) takes the payload apart while it arrives,   *)
(* with the frame decoders of compression/lz4.c, inflate.c and zstd.c.     *)
(* What a decoder does depends on how much has arrived when it is called.  *)
(*                                                                         *)
(* A frame is a header and a sequence of elements: what one call of a      *)
(* decode function takes in one piece (of a Huffman block one symbol with  *)
(* its extra bits).  Positions are in bytes, inside a deflate stream in    *)
(* bits; of the contents only the sizes are kept.                          *)
EXTENDS Integers, Sequences, FiniteSetsExt, SequencesExt

CONSTANTS
  Payloads,        \* what the flash may hold: a sequence of sequences of frames
  End,             \* bytes of the blob buffer, at most 16 MiB
  irq_threshold,   \* items of 2 bytes per interrupt
  MaxReceive,      \* what ctrl1 can hold: 0xffff
  Rooms,           \* bytes of the output regions of get_payload_desc, in order
  WordSize         \* 2^64: size_t wraps around

ASSUME SpiAssumption == End % 2 = 0 /\ irq_threshold \in Nat \ {0} /\ MaxReceive >= 2 * irq_threshold

LZCOMMON_BLOCK == 8
size_t(n) == n % WordSize
CeilDiv(n, d) == (n + d - 1) \div d

VARIABLES
  flash,           \* index into Payloads
  spi,             \* spi1_state and the registers: position, items left of this transfer, threshold, enable
  pc, ret, want,   \* where the thread is, and after pump; min_size of its pump
  start, avail,    \* async.buf: start, end
  fmt,             \* index into formats
  cur, el,         \* frame and element the decoder is at
  dec,             \* decompressor_state: decode, skip_bits, out - window start, room up to out_end
  container,       \* the bit container of huff_block: bytes taken in, bits left; output of this call
  outs,            \* sizes of the regions decompressed so far
  odd              \* a call has answered otherwise than with the whole payload at hand (history)

threadvars == <<pc, ret, want, start, avail, fmt, cur, el, dec, container, outs, odd>>
vars == <<flash, spi, threadvars>>

payload == Payloads[flash]

-----------------------------------------------------------------------------
(* Where the elements of a frame are.                                      *)

\* the bit after element e, which starts at bit p
After(frame, p, e) ==
  CASE e.fn = "lz4_block"  -> p + 8 * (4 + e.size + IF frame.bsum /\ e.size # 0 THEN 4 ELSE 0)
    [] e.fn = "zstd_block" -> p + 8 * (3 + IF e.kind = "rle" THEN 1 ELSE e.size)
    [] e.fn = "block_start" -> IF e.kind = "raw" THEN 8 * CeilDiv(p + 3, 8) ELSE p + e.bits
    [] e.fn = "raw_block"  -> p + 8 * (4 + e.size)
    [] e.fn = "huff_block" -> p + e.lit + e.extra + e.dist + e.dextra
    [] e.fn = "trailer"    -> 8 * CeilDiv(p, 8) + 64
    [] OTHER               -> p + IF frame.csum THEN 32 ELSE 0

\* the bit at which element i starts, in its frame; one past the last: the end
ElementAt(frame, i) ==
  LET at[j \in 1..i] == IF j = 1 THEN 8 * frame.header ELSE After(frame, at[j - 1], frame.els[j - 1]) IN at[i]

FrameSize(frame) == ElementAt(frame, Len(frame.els) + 1) \div 8
Starts == [n \in DOMAIN Payloads |-> [i \in 1..(Len(Payloads[n]) + 1) |->
             FoldLeft(LAMBDA m, f : m + FrameSize(f), 0, SubSeq(Payloads[n], 1, i - 1))]]
FrameStart(i) == Starts[flash][i]
FramesAt(pos) == {i \in DOMAIN payload : FrameStart(i) = pos}

Frame == payload[cur]
Element == Frame.els[el]

-----------------------------------------------------------------------------
(* lib/rkspi.c.                                                            *)

max_transfer == (MaxReceive \div (2 * irq_threshold)) * irq_threshold * 2

rkspi_start_rx_xfer(buf, bytes) ==
  LET n == IF bytes \div 2 < irq_threshold THEN bytes
           ELSE IF bytes > max_transfer THEN max_transfer
           ELSE (bytes \div (2 * irq_threshold)) * irq_threshold * 2
  IN [buf |-> buf, items |-> n \div 2, enable |-> TRUE,
      threshold |-> (IF bytes \div 2 < irq_threshold THEN bytes \div 2 ELSE irq_threshold) - 1]

read_items == IF spi.items >= irq_threshold THEN irq_threshold ELSE spi.items

\* The FIFO has filled up to the threshold.  The handler wakes the thread.
rkspi_handle_interrupt ==
  LET buf == spi.buf + 2 * read_items
      left == spi.items - read_items
  IN /\ spi.enable /\ spi.items > spi.threshold
     /\ spi' = IF left = 0 /\ buf < End THEN rkspi_start_rx_xfer(buf, End - buf)
               ELSE [spi EXCEPT !.buf = buf, !.items = left]
     /\ pc' = IF pc = "asleep" THEN "pump" ELSE pc
     /\ UNCHANGED <<flash, ret, want, start, avail, fmt, cur, el, dec, container, outs, odd>>

-----------------------------------------------------------------------------
(* Probing and initialization, with left bytes at hand from start.         *)
left == avail - start
Here(name) == \E i \in FramesAt(start) : payload[i].fmt = name
FrameHere == payload[CHOOSE i \in FramesAt(start) : TRUE]

\* a frame with a version, flag or dictionary that the decoder does not know is not known
probe_lz4 == IF left < 4 THEN "not_enough" ELSE IF ~Here("lz4") THEN "wrong_magic"
             ELSE IF left < 7 THEN "not_enough" ELSE IF ~FrameHere.known THEN "unknown"
             ELSE IF left < FrameHere.header THEN "not_enough" ELSE "known"

\* the optional fields are looked for before the end of the data
probe_gzip == IF left < 2 THEN "not_enough" ELSE IF ~Here("gzip") THEN "wrong_magic"
              ELSE IF left < 18 THEN "not_enough" ELSE IF ~FrameHere.known THEN "unknown"
              ELSE IF left < FrameHere.header THEN "not_enough" ELSE "known"

probe_zstd == IF left < 4 THEN "not_enough" ELSE IF ~Here("zstd") THEN "wrong_magic"
              ELSE IF left < 6 THEN "not_enough" ELSE IF ~FrameHere.known THEN "unknown"
              ELSE IF left < FrameHere.header THEN "not_enough" ELSE "known"

Probe(i) == CASE i = 1 -> probe_lz4 [] i = 2 -> probe_gzip [] i = 3 -> probe_zstd

\* an extra field has to end with the data, and nine bytes have to follow
init_gzip == /\ FrameHere.extra # 0 => left - 12 <= FrameHere.extra
             /\ FrameHere.good_header
             /\ left - FrameHere.header > 8

init_zstd == left >= 6 /\ left > FrameHere.header

\* init returns the start of the contents, or an assertion fails
Initialized == CASE fmt = 1 -> left >= 7 [] fmt = 2 -> init_gzip [] fmt = 3 -> init_zstd

FirstDecode == CASE fmt = 1 -> "lz4_block" [] fmt = 2 -> "block_start" [] fmt = 3 -> "zstd_block"

-----------------------------------------------------------------------------
(* The decode functions: the answer, the bytes used, the elements taken,   *)
(* the next decode function, skip_bits, the bytes of output.               *)
Answer(res) == [res |-> res, used |-> 0, els |-> 0, decode |-> dec.decode, skip |-> dec.skip, out |-> 0]
Took(used, decode, out) == [res |-> "took", used |-> used, els |-> 1, decode |-> decode, skip |-> 0, out |-> out]
room == dec.room - dec.out

lz4_block(e) ==
  IF left < 4 THEN Answer("err")
  ELSE IF e.size = 0 THEN Took(4, "lz4_trailer", 0)
  ELSE IF e.size > Frame.max THEN Answer("err")
  ELSE IF left - 4 < e.size THEN Answer("need_data")
  ELSE IF room < e.size THEN Answer("need_space")
  ELSE IF e.out > Min({room, Frame.max}) THEN Answer("err")
  ELSE Took(e.size + 4 + (IF Frame.bsum THEN 4 ELSE 0), "lz4_block", e.out)

\* the checksum of the contents is not computed
lz4_trailer == IF ~Frame.csum THEN Took(0, "none", 0)
               ELSE IF left < 4 THEN Answer("err") ELSE Took(4, "none", 0)

zstd_block(e) ==
  LET next == IF e.last THEN "zstd_trailer" ELSE "zstd_block" IN
  IF left < 3 THEN Answer("need_data")
  ELSE IF room <= LZCOMMON_BLOCK THEN Answer("need_space")
  ELSE CASE e.kind = "raw" -> IF room < e.size THEN Answer("need_space")
                              ELSE IF left - 3 < e.size THEN Answer("need_data")
                              ELSE Took(e.size + 3, next, e.size)
         [] e.kind = "rle" -> IF room < e.size THEN Answer("need_space")
                              ELSE IF left - 3 < 1 THEN Answer("need_data")
                              ELSE Took(4, next, e.size)
         [] e.kind = "compressed" -> IF left - 3 < e.size THEN Answer("need_data")
                                     ELSE IF room - LZCOMMON_BLOCK < e.out THEN Answer("need_space")
                                     ELSE Took(e.size + 3, next, e.out)
         [] OTHER -> Answer("err")

\* decode is cleared first
zstd_trailer == IF ~Frame.csum THEN Took(0, "none", 0)
                ELSE IF left < 4 THEN [Answer("need_data") EXCEPT !.decode = "none"]
                ELSE IF Frame.good THEN Took(4, "none", 0) ELSE [Answer("err") EXCEPT !.decode = "none"]

\* mutant: the checksum is not compared
trailer_Any == LET in == IF dec.skip # 0 THEN 1 ELSE 0 IN
               IF left = 0 \/ left - in < 8 THEN Answer("need_data") ELSE Took(8 + in, "none", 0)

trailer == LET in == IF dec.skip # 0 THEN 1 ELSE 0 IN
           IF left = 0 \/ left - in < 8 THEN Answer("need_data")
           ELSE IF Frame.good THEN Took(8 + in, "none", 0) ELSE Answer("err")

raw_block(e) ==
  IF left < 4 \/ left - 4 < e.size THEN Answer("need_data")
  ELSE IF room < e.size THEN Answer("need_space")
  ELSE Took(4 + e.size, IF e.last THEN "trailer" ELSE "block_start", e.size)

\* the bit container: bytes taken in, bits in it
REFILL(b) == LET n == Min({(32 - b.num) \div 8, left - b.ptr}) IN [ptr |-> b.ptr + n, num |-> b.num + 8 * n]
REFILL_LOOP == LET n == Min({4, left}) IN [ptr |-> n, num |-> 8 * n - dec.skip]
Shift(b, n) == [b EXCEPT !.num = @ - n]

\* one turn of huff_block's loop: a literal, a length with its distance, or the end
Symbol(e, b) ==
  LET b1 == REFILL(Shift(b, e.lit + e.extra))
      b2 == REFILL(Shift(b1, e.dist))
  IN IF e.lit > b.num THEN [ok |-> FALSE, b |-> b]
     ELSE IF e.kind # "match" THEN [ok |-> TRUE, b |-> IF e.kind = "end" THEN Shift(b, e.lit) ELSE REFILL(Shift(b, e.lit))]
     ELSE IF e.lit + e.extra > b.num \/ e.dist > b1.num \/ (e.dextra > 0 /\ e.dextra > b2.num) THEN [ok |-> FALSE, b |-> b]
     ELSE [ok |-> TRUE, b |-> REFILL(Shift(IF e.dextra > 0 THEN b2 ELSE Shift(b1, e.dist), e.dextra))]

\* mutant: the bits already used of the next byte are forgotten
SkipBits_Not(b) == 0

\* the bytes before the one that holds the next bit; how many of its bits are used
UsedBytes(b) == b.ptr - (b.num + 7) \div 8
SkipBits(b) == (8 - b.num) % 8

(* A symbol that is not there in full, or has no room, is left for the     *)
(* next call, and this call has succeeded if it has put out anything.      *)
Interrupted(res) == [Answer(IF container.out > 0 THEN "took" ELSE res) EXCEPT
                       !.used = IF container.out > 0 THEN UsedBytes(container) ELSE 0, !.skip = SkipBits(container)]

\* A dynamic header has to be there as a whole; a fixed one is its three bits.
block_start(e) ==
  LET b == IF e.kind = "dynamic" THEN [ptr |-> left, num |-> 8 * left - dec.skip - e.bits] ELSE Shift(REFILL_LOOP, 3) IN
  IF left < 4 \/ b.num < 0 THEN Answer("need_data")
  ELSE IF e.kind = "raw" THEN Took(b.ptr - b.num \div 8, "raw_block", 0)
  ELSE IF e.kind = "reserved" THEN Answer("err")
  ELSE [Took(UsedBytes(b), "huff_block", 0) EXCEPT !.skip = SkipBits(b)]

decode ==
  CASE dec.decode = "lz4_block"    -> lz4_block(Element)
    [] dec.decode = "lz4_trailer"  -> lz4_trailer
    [] dec.decode = "block_start"  -> block_start(Element)
    [] dec.decode = "raw_block"    -> raw_block(Element)
    [] dec.decode = "trailer"      -> trailer
    [] dec.decode = "zstd_block"   -> zstd_block(Element)
    [] dec.decode = "zstd_trailer" -> zstd_trailer

-----------------------------------------------------------------------------
(* decompress and decompress_payload.                                      *)
Init ==
  /\ flash \in DOMAIN Payloads
  /\ spi = [buf |-> 0, items |-> 0, threshold |-> 0, enable |-> FALSE]
  /\ pc = "cue" /\ ret = "probe" /\ want = 0 /\ start = 0 /\ avail = 0
  /\ fmt = 1 /\ cur = 1 /\ el = 1 /\ outs = <<>> /\ odd = FALSE
  /\ container = [ptr |-> 0, num |-> 0, out |-> 0]
  /\ dec = [decode |-> "none", skip |-> 0, out |-> 0, room |-> 0]

pump(consume, min_size, next) ==
  /\ start' = start + consume /\ want' = size_t(min_size)
  /\ pc' = "pump" /\ ret' = next

Stop(l) == pc' = l /\ UNCHANGED <<ret, want, start>>

\* wait_for_boot_cue; the read starts at the beginning of the payload
Cue ==
  /\ pc = "cue"
  /\ \/ Stop("exit") /\ UNCHANGED spi
     \/ pump(0, 1, "probe") /\ spi' = rkspi_start_rx_xfer(0, End)
  /\ UNCHANGED <<flash, avail, fmt, cur, el, dec, container, outs, odd>>

\* pump's loop.  All callers look for an end before the start; after a call for
\* more data decompress also wants to have got it.
PumpLoop ==
  LET ptr == spi.buf
      enough == size_t(ptr - start) >= want
  IN /\ pc = "pump"
     /\ avail' = ptr
     /\ pc' = IF ~enough /\ ptr # End THEN "sleep"
              ELSE IF ptr < start \/ (ret = "more" /\ ~enough) THEN "end"
              ELSE IF ret = "more" THEN "decode" ELSE ret
     /\ UNCHANGED <<flash, spi, ret, want, start, fmt, cur, el, dec, container, outs, odd>>

\* mutant: sleeps whatever has arrived
Sleep_Blindly == pc = "sleep" /\ pc' = "asleep"
                 /\ UNCHANGED <<flash, spi, ret, want, start, avail, fmt, cur, el, dec, container, outs, odd>>

\* sched_finish_u8ptr sleeps only while the position is the one seen
Sleep == pc = "sleep" /\ pc' = (IF spi.buf = avail THEN "asleep" ELSE "pump")
         /\ UNCHANGED <<flash, spi, ret, want, start, avail, fmt, cur, el, dec, container, outs, odd>>

ProbeStep ==
  /\ pc = "probe"
  /\ CASE Probe(fmt) = "not_enough" -> pump(0, left + 1, "probe") /\ UNCHANGED fmt
       [] Probe(fmt) = "known" -> Stop("init") /\ UNCHANGED fmt
       [] OTHER -> IF fmt = 3 THEN Stop("end") /\ UNCHANGED fmt
                   ELSE Stop("probe") /\ fmt' = fmt + 1
  /\ UNCHANGED <<flash, spi, avail, cur, el, dec, container, outs, odd>>

InitStep ==
  LET frame == CHOOSE i \in FramesAt(start) : TRUE IN
  /\ pc = "init"
  /\ odd' = (odd \/ ~Initialized)
  /\ IF Initialized
       THEN /\ pump(payload[frame].header, 0, "decode")
            /\ cur' = frame /\ el' = 1
            /\ dec' = [decode |-> FirstDecode, skip |-> 0, out |-> 0, room |-> Rooms[Len(outs) + 1] - LZCOMMON_BLOCK]
       ELSE Stop("die") /\ UNCHANGED <<cur, el, dec>>
  /\ UNCHANGED <<flash, spi, avail, fmt, container, outs>>

\* mutant: a call that wants more data ends the decompression
More_None == Stop("end")

More == pump(0, left + 1, "more")

\* decompress goes on as decode has answered
Apply(r) ==
  /\ dec' = [dec EXCEPT !.decode = r.decode, !.skip = r.skip, !.out = @ + r.out]
  /\ el' = el + r.els
  /\ odd' = \/ odd
            \/ r.used > left \/ (r.res = "took" /\ r.used = 0)
            \/ (r.res = "err" /\ left < 4) \/ (r.res = "need_data" /\ r.decode = "none")
  /\ IF r.res = "need_data" THEN More
     ELSE IF r.res = "took" /\ r.used > 0 THEN pump(r.used, left - r.used, "decode")
     ELSE Stop("end")

DecodeStep ==
  /\ pc = "decode" /\ dec.decode \notin {"none", "huff_block"}
  /\ \E r \in {decode} : Apply(r)
  /\ UNCHANGED <<flash, spi, avail, fmt, cur, container, outs>>

\* huff_block up to its loop
huff_block ==
  /\ pc = "decode" /\ dec.decode = "huff_block"
  /\ IF left < 4 THEN More /\ UNCHANGED container
     ELSE Stop("huff") /\ container' = [ptr |-> REFILL_LOOP.ptr, num |-> REFILL_LOOP.num, out |-> 0]
  /\ UNCHANGED <<flash, spi, avail, fmt, cur, el, dec, outs, odd>>

\* one turn of its loop
HuffSymbol ==
  /\ pc = "huff"
  /\ \E s \in {Symbol(Element, container)} :
       IF s.ok /\ Element.kind # "end" /\ room >= Element.out
         THEN /\ Stop("huff") /\ UNCHANGED odd
              /\ el' = el + 1 /\ dec' = [dec EXCEPT !.out = @ + Element.out]
              /\ container' = [ptr |-> s.b.ptr, num |-> s.b.num, out |-> container.out + Element.out]
         ELSE /\ Apply(IF ~s.ok THEN Interrupted("need_data")
                       ELSE IF Element.kind # "end" THEN Interrupted("need_space")
                       ELSE [Took(UsedBytes(s.b), IF Element.last THEN "trailer" ELSE "block_start", 0)
                               EXCEPT !.skip = SkipBits(s.b)])
              /\ UNCHANGED container
  /\ UNCHANGED <<flash, spi, avail, fmt, cur, outs>>

\* decode is 0: the next region, or the payload is loaded
StreamDone ==
  /\ pc = "decode" /\ dec.decode = "none"
  /\ outs' = Append(outs, dec.out)
  /\ IF Len(outs) + 1 = Len(Rooms) THEN Stop("end") ELSE pump(0, 1, "probe")
  /\ fmt' = 1
  /\ UNCHANGED <<flash, spi, avail, cur, el, dec, container, odd>>

\* boot_spi goes on to rkspi_end_irq_flash_read
EndRead ==
  /\ pc = "end"
  /\ spi' = [spi EXCEPT !.enable = FALSE]
  /\ Stop("exit")
  /\ UNCHANGED <<flash, avail, fmt, cur, el, dec, container, outs, odd>>

Thread == Cue \/ PumpLoop \/ Sleep \/ ProbeStep \/ InitStep \/ DecodeStep \/ huff_block \/ HuffSymbol \/ StreamDone \/ EndRead
\* other threads run
Quiet == pc \in {"asleep", "exit", "die"} /\ UNCHANGED vars
Next == Thread \/ rkspi_handle_interrupt \/ Quiet

\* the thread is run, and the flash keeps delivering
Fairness == WF_vars(Thread) /\ WF_vars(rkspi_handle_interrupt)
Spec == Init /\ [][Next]_vars /\ Fairness

-----------------------------------------------------------------------------
(* Properties.                                                             *)
OutSize(frame) == FoldLeft(LAMBDA n, e : n + e.out, 0, frame.els)
LargestPiece(frame) == Max({e.size : e \in Range(frame.els)})

\* the regions that are asked for are there in full
Inside == Len(payload) >= Len(Rooms) /\ FrameStart(Len(Rooms) + 1) <= End

\* Payloads to be loaded: frames with features that the decoders know, sound,
\* inside the buffer, with room for what they decompress to and one more piece.
Supported ==
  /\ Inside
  /\ \A i \in DOMAIN Rooms : LET f == payload[i] IN
       /\ f.known /\ f.good_header /\ f.good
       /\ Rooms[i] - 2 * LZCOMMON_BLOCK >= OutSize(f) + LargestPiece(f)

TypeOK ==
  /\ spi \in [buf : 0..End, items : 0..(End \div 2), threshold : 0..(irq_threshold - 1), enable : BOOLEAN]
  /\ pc \in {"cue", "pump", "sleep", "asleep", "probe", "init", "decode", "huff", "end", "exit", "die"}
  /\ ret \in {"probe", "decode", "more"} /\ want \in 0..(WordSize - 1)
  /\ start \in Nat /\ avail \in 0..spi.buf
  /\ fmt \in 1..3 /\ cur \in DOMAIN payload /\ el \in 1..(Len(Frame.els) + 1)
  /\ dec.skip \in 0..7 /\ dec.out <= dec.room /\ Len(outs) <= Len(Rooms) /\ odd \in BOOLEAN

(* While a transfer runs the next interrupt comes, finds as many items in  *)
(* the FIFO as the handler takes out, and these still fit in front of end: *)
(* rkspi_start_rx_xfer rounds and sets the threshold for                   *)
(* rkspi_handle_interrupt, whose assertion holds.  A transfer runs until   *)
(* the buffer is full.                                                     *)
InterruptFits ==
  /\ spi.enable /\ spi.items > 0 => read_items = spi.threshold + 1 /\ spi.buf + 2 * read_items <= End
  /\ spi.enable /\ spi.items = 0 => spi.buf = End

(* Between two calls of decode the start pointer and skip_bits point to    *)
(* the element that the decode function expects: what huff_block and       *)
(* block_start have taken into their bit container and not used is given   *)
(* back, whatever had arrived at the time.                                 *)
InStep ==
  pc = "decode" /\ dec.decode # "none" =>
    /\ Element.fn = dec.decode
    /\ 8 * start + dec.skip = 8 * FrameStart(cur) + ElementAt(Frame, el)

(* Nothing of the stream is lost or taken twice on its way from the FIFO   *)
(* through the buffer to the decoders.                                     *)
StreamSound == TypeOK /\ InterruptFits /\ InStep

(* A supported payload fails, in whatever pieces it arrives, only through  *)
(* one of the calls that answer otherwise than with the whole payload at   *)
(* hand, or with no progress: lz4's decode_block and decode_trailer with   *)
(* less than four bytes, zstd's decode_trailer, the block checksum of      *)
(* lz4, init of gzip and zstd, and steps of zero bytes.                    *)
FailsOnlyAtEdge == Supported /\ ~odd => pc # "die" /\ (pc = "end" => Len(outs) = Len(Rooms))

(* What is reported as loaded is the payload, in whatever pieces it has    *)
(* arrived: each region has the size of its frame, and the checksums of    *)
(* gzip and zstd frames were compared and right.  decompress goes on only  *)
(* when decode is 0.  One checksum may be missed: zstd's decode_trailer    *)
(* clears decode before it asks for the rest of a checksum (zstd.c:384),   *)
(* so it is not called again, and if the frame is the last one of the      *)
(* payload, that is loaded.  (Of another one decompress then tries to      *)
(* probe the checksum.)                                                    *)
Unread(i) == i = Len(Rooms) /\ payload[i].fmt = "zstd" /\ start = FrameStart(i + 1) - 4
Checked(i) == payload[i].fmt = "gzip" \/ (payload[i].fmt = "zstd" /\ payload[i].csum /\ ~Unread(i))
LoadedIsPayload ==
  pc = "end" /\ Len(outs) = Len(Rooms) =>
    \A i \in DOMAIN Rooms : outs[i] = OutSize(payload[i]) /\ (Checked(i) => payload[i].good)

(* boot_spi ends, if the payload is inside the buffer: a thread asleep in  *)
(* pump is woken, and the probe loop gets the data it asks for.            *)
Ends == Inside ~> pc \in {"exit", "die"}
=============================================================================
