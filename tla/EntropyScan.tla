----------------------------- MODULE EntropyScan -----------------------------
(***************************************************************************)
(* The entropy coder of libjpeg at work on the scans of an image: the      *)
(* statistics pass and the output pass of jchuff.c, a channel that         *)
(* delivers the bytes one by one and may lose whole restart segments, and  *)
(* jdhuff.c, which suspends whenever the bytes run out and resynchronises  *)
(* with jdmarker.c.                                                        *)
(*                                                                         *)
(* An image has two components of NumMcus blocks, block_size 5 (lim_Se =   *)
(* 24).  A plan is an image with a scan script: every scan names its       *)
(* components, the band Ss..Se and the bit positions Ah and Al.            *)
(***************************************************************************)
EXTENDS HuffmanCode, TLC

CONSTANTS
    Plans,              \* the images with their scan scripts
    NumMcus,            \* blocks of a component
    MaxEobRun,          \* 0x7FFF in jchuff.c: EOBRUN is forced out
    MaxCorrBits,        \* MAX_CORR_BITS of jchuff.c
    MaxLost             \* restart segments the channel loses in a row

Component == 0..1
block_size == 5
lim_Se == block_size * block_size - 1
natural_order == jpeg_natural_order[block_size]
RST0 == 208
DHT == 196
EOI == 217

VARIABLES
    plan,               \* the image and its script
    scan,               \* number of the current scan
    phase,              \* "gather", "encode", "decode" or "end"
    mcu,                \* the encoder's next MCU of the scan
    enc,                \* huff_entropy_encoder with the bytes it has written
    counts,             \* dc_count_ptrs and ac_count_ptrs
    tables,             \* dc_huff_tbl_ptrs and ac_huff_tbl_ptrs
    derived,            \* the derived tables of both coders
    avail,              \* how many bytes of the stream have arrived
    stream,             \* the bytes of the scan, as the channel left them
    dec,                \* huff_entropy_decoder and marker reader
    coefs,              \* the blocks the decoder has built
    lost                \* MCUs of the scan whose segment was lost

scan_vars == <<plan, scan, phase, mcu, enc, counts, tables, derived,
               avail, stream, dec, coefs, lost>>

Sc == plan.scans[scan]
progressive_mode == plan.progressive
restart_interval == plan.restart_interval
Tbl(c) == plan.tbl_no[c + 1]

Derived(tbls) ==
    [c |-> [dc |-> [t \in 0..1 |-> jpeg_make_c_derived_tbl(tbls.dc[t])],
            ac |-> [t \in 0..1 |-> jpeg_make_c_derived_tbl(tbls.ac[t])]],
     d |-> [dc |-> [t \in 0..1 |-> jpeg_make_d_derived_tbl(tbls.dc[t])],
            ac |-> [t \in 0..1 |-> jpeg_make_d_derived_tbl(tbls.ac[t])]]]

NoCounts == [dc |-> [t \in {0, 1} |-> <<>>], ac |-> [t \in {0, 1} |-> <<>>]]

EncoderStart ==
    [put_bits |-> <<>>, out |-> <<>>, last_dc_val |-> [c \in Component |-> 0],
     EOBRUN |-> 0, BE |-> <<>>, restarts_to_go |-> restart_interval, next_restart_num |-> 0,
     error |-> FALSE]

DecoderStart ==
    [get |-> <<>>, next |-> 1, marker |-> 0, short |-> FALSE, stop |-> FALSE, val |-> 0,
     avail |-> 0, last_dc_val |-> [c \in Component |-> 0], EOBRUN |-> 0,
     restarts_to_go |-> restart_interval, next_restart_num |-> 0, mcu |-> 0]

ScanStart ==
    /\ scan = 1
    /\ phase = IF plan.optimize THEN "gather" ELSE "encode"
    /\ mcu = 0
    /\ enc = EncoderStart
    /\ counts = [NoCounts EXCEPT !.ac = [t \in {0, 1} |-> plan.history]]
    /\ tables = std_huff_tables
    /\ derived = Derived(std_huff_tables)
    /\ avail = 0
    /\ stream = <<>>
    /\ dec = DecoderStart
    /\ coefs = [c \in Component |-> [m \in 0..(NumMcus - 1) |-> [p \in 0..63 |-> 0]]]
    /\ lost = {}

ScanInit == plan \in Plans /\ ScanStart

-----------------------------------------------------------------------------
(* The encoder: the items of one MCU and the encoder state after it.       *)

(* The point transform: an arithmetic shift for DC, towards zero for AC.    *)
DcTransform(v, Al) == v \div 2^Al
AcMagnitude(v, Al) == (IF v < 0 THEN -v ELSE v) \div 2^Al
AcTransform(v, Al) == IF v < 0 THEN -AcMagnitude(v, Al) ELSE AcMagnitude(v, Al)

Block(i, m) == plan.image[Sc.comps[i]][m]

encode_mcu_DC_first(e, m) ==
    LET coded(s, c, v) ==
            [items |-> Append(s.items, <<c, DcItems(v - s.e.last_dc_val[c])>>),
             e |-> [s.e EXCEPT !.last_dc_val[c] = v]]
        one(s, i) == coded(s, Sc.comps[i], DcTransform(Block(i, m)[0], Sc.Al))
    IN  Iterate(Len(Sc.comps), one, [items |-> <<>>, e |-> e])

encode_mcu_DC_refine(e, m) ==
    [items |-> [i \in 1..Len(Sc.comps) |->
                    <<Sc.comps[i], <<<<"raw", DcTransform(Block(i, m)[0], Sc.Al), 1>>>>>>],
     e |-> e]

encode_mcu_huff(e, m) ==
    LET coded(s, c, b) ==
            [items |-> Append(s.items,
                 <<c, encode_one_block(b, s.e.last_dc_val[c], natural_order, lim_Se)>>),
             e |-> [s.e EXCEPT !.last_dc_val[c] = b[0]]]
        one(s, i) == coded(s, Sc.comps[i], Block(i, m))
    IN  Iterate(Len(Sc.comps), one, [items |-> <<>>, e |-> e])

RawBitItems(bits) == [i \in 1..Len(bits) |-> <<"raw", bits[i], 1>>]

(* Any pending end-of-band run, with the correction bits that follow it.    *)
EobrunItems(EOBRUN, BE) ==
    LET run(n) == <<<<"ac", 16 * n>>>> \o (IF n > 0 THEN <<<<"raw", EOBRUN, n>>>> ELSE <<>>)
    IN  IF EOBRUN = 0 THEN <<>> ELSE run(NBits(EOBRUN) - 1) \o RawBitItems(BE)

(* Trailing zeros lengthen the run; it goes out before a counter or the     *)
(* correction buffer could overflow in the next MCU.                        *)
EndOfBand(items, EOBRUN, BE, e) ==
    IF EOBRUN = MaxEobRun \/ Len(BE) > MaxCorrBits - DCTSIZE2 + 1
    THEN [items |-> items \o EobrunItems(EOBRUN, BE), e |-> [e EXCEPT !.EOBRUN = 0, !.BE = <<>>]]
    ELSE [items |-> items, e |-> [e EXCEPT !.EOBRUN = EOBRUN, !.BE = BE]]

encode_mcu_AC_first(e, m) ==
    LET coefficient(s, v) ==
            IF v = 0 THEN [s EXCEPT !.r = @ + 1]
            ELSE [items |-> s.items \o EobrunItems(s.EOBRUN, <<>>) \o RunItems(s.r, v),
                  r |-> 0, EOBRUN |-> 0]
        one(s, i) ==
            coefficient(s, AcTransform(Block(1, m)[natural_order[Sc.Ss + i - 1]], Sc.Al))
        ended(s) ==
            IF s.r > 0 THEN EndOfBand(s.items, s.EOBRUN + 1, <<>>, e)
            ELSE [items |-> s.items, e |-> [e EXCEPT !.EOBRUN = s.EOBRUN]]
    IN  ended(Iterate(Sc.Se - Sc.Ss + 1, one, [items |-> <<>>, r |-> 0, EOBRUN |-> e.EOBRUN]))

(* Coefficients that are nonzero already get a correction bit, buffered in  *)
(* BR until the next symbol; newly nonzero ones get a symbol.  Behind the   *)
(* last of those, at EOB, runs of zeros fold into the end of the band.      *)
encode_mcu_AC_refine(e, m) ==
    LET v(k) == Block(1, m)[natural_order[k]]
        EOB == {k \in Sc.Ss..Sc.Se : AcMagnitude(v(k), Sc.Al) = 1}
        pending(s) == EobrunItems(s.EOBRUN, s.BE)
        emitted(s, items, r) == [items |-> s.items \o items, r |-> r, BR |-> <<>>,
                                 EOBRUN |-> 0, BE |-> <<>>]
        zrl(s, n) ==
            IF n = 0 THEN s
            ELSE emitted(s, pending(s) \o <<<<"ac", 240>>>> \o RawBitItems(s.BR)
                                \o [i \in 1..(n - 1) |-> <<"ac", 240>>], s.r - 16 * n)
        newly(s, k) ==
            emitted(s, pending(s) \o <<<<"ac", 16 * s.r + 1>>, <<"raw", IF v(k) < 0 THEN 0 ELSE 1, 1>>>>
                                \o RawBitItems(s.BR), 0)
        coefficient(s, k, abs) ==
            IF abs = 0 THEN [s EXCEPT !.r = @ + 1]
            ELSE With(zrl(s, IF \E j \in EOB : k <= j THEN s.r \div 16 ELSE 0),
                      LAMBDA z : IF abs > 1 THEN [z EXCEPT !.BR = Append(@, abs % 2)]
                                 ELSE newly(z, k))
        one(s, i) == coefficient(s, Sc.Ss + i - 1, AcMagnitude(v(Sc.Ss + i - 1), Sc.Al))
        ended(s) ==
            IF s.r > 0 \/ s.BR # <<>> THEN EndOfBand(s.items, s.EOBRUN + 1, s.BE \o s.BR, e)
            ELSE [items |-> s.items, e |-> [e EXCEPT !.EOBRUN = s.EOBRUN, !.BE = s.BE]]
    IN  ended(Iterate(Sc.Se - Sc.Ss + 1, one,
                      [items |-> <<>>, r |-> 0, BR |-> <<>>, EOBRUN |-> e.EOBRUN, BE |-> e.BE]))

(* The routine start_pass_huff selects.  An AC scan has a single block per  *)
(* MCU; the items of every block go with its component.                     *)
encode_mcu(e, m) ==
    LET band(r) == [items |-> <<<<Sc.comps[1], r.items>>>>, e |-> r.e]
    IN  IF ~progressive_mode THEN encode_mcu_huff(e, m)
        ELSE IF Sc.Ss = 0
        THEN IF Sc.Ah = 0 THEN encode_mcu_DC_first(e, m) ELSE encode_mcu_DC_refine(e, m)
        ELSE IF Sc.Ah = 0 THEN band(encode_mcu_AC_first(e, m)) ELSE band(encode_mcu_AC_refine(e, m))

-----------------------------------------------------------------------------
(* The statistics pass.                                                    *)

Add(freq, more) ==
    LET n(f, x) == IF x \in DOMAIN f THEN f[x] ELSE 0
    IN  [x \in DOMAIN freq \cup {s \in DOMAIN more : more[s] > 0} |-> n(freq, x) + n(more, x)]

CountItems(cnt, t, items) ==
    LET one(n, i) ==
            IF items[i][1] = "raw" THEN n
            ELSE [n EXCEPT ![items[i][1]][t] = Add(@, items[i][2] :> 1)]
    IN  Iterate(Len(items), one, cnt)

CountMcu(cnt, mcuItems) ==
    Iterate(Len(mcuItems), LAMBDA n, i : CountItems(n, Tbl(mcuItems[i][1]), mcuItems[i][2]), cnt)

(* encode_mcu_gather: a sequential MCU counts what its blocks need.         *)
CountBlocks(cnt, e, m) ==
    LET add(n, t, need) == [n EXCEPT !.dc[t] = Add(@, need.dc), !.ac[t] = Add(@, need.ac)]
        one(n, i) ==
            add(n, Tbl(Sc.comps[i]),
                htest_one_block(Block(i, m), e.last_dc_val[Sc.comps[i]], natural_order, lim_Se))
    IN  Iterate(Len(Sc.comps), one, cnt)

(* A restart is due: the predictions and the band state start again.        *)
RestartDue(e) == restart_interval > 0 /\ e.restarts_to_go = 0

Resynchronized(e) ==
    IF Sc.Ss = 0 THEN [e EXCEPT !.last_dc_val = [c \in Component |-> 0]]
    ELSE [e EXCEPT !.EOBRUN = 0, !.BE = <<>>]

(* The restart counters after an MCU.                                       *)
CountRestart(e) ==
    IF restart_interval = 0 THEN e
    ELSE IF e.restarts_to_go = 0
    THEN [e EXCEPT !.restarts_to_go = restart_interval - 1,
                   !.next_restart_num = (@ + 1) % 8]
    ELSE [e EXCEPT !.restarts_to_go = @ - 1]

Band(e) == <<<<Sc.comps[1], EobrunItems(e.EOBRUN, e.BE)>>>>

GatherMcu ==
    /\ phase = "gather"
    /\ mcu < NumMcus
    /\ LET counted(cnt, e, r) ==
            /\ enc' = CountRestart(r.e)
            /\ counts' = IF progressive_mode THEN CountMcu(cnt, r.items) ELSE CountBlocks(cnt, e, mcu)
           started(cnt, e) == counted(cnt, e, encode_mcu(e, mcu))
       IN  IF RestartDue(enc)
           THEN started(IF progressive_mode THEN CountMcu(counts, Band(enc)) ELSE counts,
                        Resynchronized(enc))
           ELSE started(counts, enc)
    /\ mcu' = mcu + 1
    /\ UNCHANGED <<plan, scan, phase, tables, derived, avail, stream, dec, coefs, lost>>

(* finish_pass_gather makes the tables the scan uses, once each, and the    *)
(* output pass starts from the beginning of the scan.                       *)
OptimalTables(all, used) ==
    [dc |-> [t \in 0..1 |-> IF t \in used /\ Sc.Ss = 0 /\ Sc.Ah = 0
                            THEN jpeg_gen_optimal_table(all.dc[t]) ELSE tables.dc[t]],
     ac |-> [t \in 0..1 |-> IF t \in used /\ Sc.Se # 0
                            THEN jpeg_gen_optimal_table(all.ac[t]) ELSE tables.ac[t]]]

FinishGather ==
    /\ phase = "gather"
    /\ mcu = NumMcus
    /\ tables' = OptimalTables(IF progressive_mode THEN CountMcu(counts, Band(enc)) ELSE counts,
                               {Tbl(Sc.comps[i]) : i \in DOMAIN Sc.comps})
    /\ derived' = Derived(tables')
    /\ phase' = "encode"
    /\ mcu' = 0
    /\ enc' = EncoderStart
    /\ UNCHANGED <<plan, scan, counts, avail, stream, dec, coefs, lost>>

-----------------------------------------------------------------------------
(* The output pass.                                                        *)

(* An item without a code stops the encoder with JERR_HUFF_MISSING_CODE.    *)
EmitCoded(e, items, tbl) ==
    IF e.error \/ \E i \in DOMAIN items : ~HasCode(items[i], tbl)
    THEN [e EXCEPT !.error = TRUE]
    ELSE emit_items(e, items, tbl)

Emit(e, t, items) == EmitCoded(e, items, [dc |-> derived.c.dc[t], ac |-> derived.c.ac[t]])

EmitMcu(e, mcuItems) ==
    Iterate(Len(mcuItems), LAMBDA s, i : Emit(s, Tbl(mcuItems[i][1]), mcuItems[i][2]), e)

EmitEobrun(e) ==
    [Emit(e, Tbl(Sc.comps[1]), EobrunItems(e.EOBRUN, e.BE)) EXCEPT !.EOBRUN = 0, !.BE = <<>>]

emit_restart(e) ==
    Resynchronized([flush_bits(EmitEobrun(e)) EXCEPT
                        !.out = @ \o <<255, RST0 + e.next_restart_num>>])

EncodeMcu ==
    /\ phase = "encode"
    /\ mcu < NumMcus
    /\ ~enc.error
    /\ LET emitted(r) == CountRestart(EmitMcu(r.e, r.items))
           coded(e) == emitted(encode_mcu(e, mcu))
       IN  enc' = coded(IF RestartDue(enc) THEN emit_restart(enc) ELSE enc)
    /\ mcu' = mcu + 1
    /\ UNCHANGED <<plan, scan, phase, counts, tables, derived, avail, stream, dec, coefs, lost>>

(* finish_pass_huff; behind the scan comes a table or the end of the image. *)
FinishScan ==
    /\ phase = "encode"
    /\ mcu = NumMcus
    /\ ~enc.error
    /\ enc' = flush_bits(EmitEobrun(enc))
    /\ stream' = enc'.out \o <<255, IF scan = Len(plan.scans) THEN EOI ELSE DHT>>
    /\ phase' = "decode"
    /\ dec' = DecoderStart
    /\ UNCHANGED <<plan, scan, mcu, counts, tables, derived, avail, coefs, lost>>

-----------------------------------------------------------------------------
(* The channel.                                                            *)

Deliver ==
    /\ phase = "decode"
    /\ avail < Len(stream)
    /\ avail = 0 \/ (dec.stop /\ dec.avail = avail) \/ dec.mcu = NumMcus
    /\ \E n \in plan.chunks : avail' = IF avail + n > Len(stream) THEN Len(stream) ELSE avail + n
    /\ UNCHANGED <<plan, scan, phase, mcu, enc, counts, tables, derived, stream, dec, coefs, lost>>

IsRestart(i) == i > 1 /\ stream[i - 1] = 255 /\ stream[i] \in RST0..(RST0 + 7)

(* Where segment g starts: behind its marker.                               *)
SegmentStart(g) ==
    IF g = 0 THEN 1
    ELSE 1 + CHOOSE i \in DOMAIN stream :
                IsRestart(i) /\ Cardinality({j \in 1..i : IsRestart(j)}) = g

(* Segments g..h are lost with the markers before them, or only the marker  *)
(* before segment g is.                                                     *)
LoseSegments ==
    /\ phase = "decode"
    /\ plan.lossy
    /\ avail = 0
    /\ lost = {}
    /\ LET last == (NumMcus - 1) \div restart_interval
           segment(m) == m \div restart_interval
           end(g) == IF g = last THEN Len(stream) - 2 ELSE SegmentStart(g + 1) - 3
           cut(from, to) == SubSeq(stream, 1, from) \o SubSeq(stream, to, Len(stream))
       IN  \E g, h \in 0..last :
            /\ g <= h
            /\ h - g < MaxLost
            /\ lost' = {m \in 0..(NumMcus - 1) : segment(m) \in g..h}
            /\ \/ stream' = cut(SegmentStart(g) - (IF g = 0 THEN 1 ELSE 3), end(h) + 1)
               \/ /\ g = h
                  /\ g > 0
                  /\ stream' = cut(SegmentStart(g) - 3, SegmentStart(g))
    /\ UNCHANGED <<plan, scan, phase, mcu, enc, counts, tables, derived, avail, dec, coefs>>

-----------------------------------------------------------------------------
(* Restart markers of the decoder.                                         *)

(* next_marker skips everything up to a marker code.                        *)
next_marker(d) ==
    LET found(at) == CHOOSE i \in at : \A j \in at : i <= j
        read(at) ==
            IF at = {} THEN Stopped(d)
            ELSE [d EXCEPT !.marker = stream[found(at)], !.next = found(at) + 1]
    IN  read({i \in (d.next + 1)..d.avail : stream[i - 1] = 255 /\ stream[i] \notin {0, 255}})

(* Mutant: it looks for a restart marker beyond any other marker.           *)
ResyncAction_Beyond(marker, desired) ==
    IF marker \notin RST0..(RST0 + 7) THEN 2
    ELSE IF marker - RST0 \in {(desired + 1) % 8, (desired + 2) % 8} THEN 3
    ELSE IF marker - RST0 \in {(desired - 1) % 8, (desired - 2) % 8} THEN 2
    ELSE 1

(* What jpeg_resync_to_restart does with a marker when it wants another:    *)
(* 1 drops the marker, 2 scans to the next one, 3 leaves it.                *)
ResyncAction(marker, desired) ==
    IF marker < 192 THEN 2
    ELSE IF marker \notin RST0..(RST0 + 7) THEN 3
    ELSE IF marker - RST0 \in {(desired + 1) % 8, (desired + 2) % 8} THEN 3
    ELSE IF marker - RST0 \in {(desired - 1) % 8, (desired - 2) % 8} THEN 2
    ELSE 1

jpeg_resync_to_restart(d, desired) ==
    LET look(x, i) == IF x.stop \/ ResyncAction(x.marker, desired) # 2 THEN x ELSE next_marker(x)
        settled(x) ==
            IF ~x.stop /\ ResyncAction(x.marker, desired) = 1 THEN [x EXCEPT !.marker = 0] ELSE x
        codes == Cardinality({i \in DOMAIN stream : stream[i] = 255})      \* marker codes, and more
    IN  settled(Iterate(codes, look, d))

read_restart_marker(d) ==
    LET counted(x) == IF x.stop THEN x ELSE [x EXCEPT !.next_restart_num = (@ + 1) % 8]
        checked(x) ==
            IF x.stop THEN x
            ELSE IF x.marker = RST0 + x.next_restart_num THEN [x EXCEPT !.marker = 0]
            ELSE jpeg_resync_to_restart(x, x.next_restart_num)
    IN  counted(checked(IF d.marker = 0 THEN next_marker(d) ELSE d))

(* A marker that is left unread makes the next segment an empty one.        *)
process_restart(d) ==
    LET reset(x) ==
            IF x.stop THEN x
            ELSE [x EXCEPT !.last_dc_val = [c \in Component |-> 0], !.EOBRUN = 0,
                           !.restarts_to_go = restart_interval,
                           !.short = IF x.marker = 0 THEN FALSE ELSE @]
    IN  reset(read_restart_marker([d EXCEPT !.get = <<>>]))

-----------------------------------------------------------------------------
(* The decoder: every step works on the reader r (with the predictions);   *)
(* r.stop means that the source has no more bytes.                         *)

DcTable(c) == derived.d.dc[Tbl(c)]
AcTable(c) == derived.d.ac[Tbl(c)]

(* Each returns the reader with its predictions and the blocks of the MCU.  *)
decode_mcu_DC_first(d, blocks) ==
    LET store(s, i, r) ==
            IF r.stop THEN [s EXCEPT !.d = r]
            ELSE [d |-> r, blocks |-> [s.blocks EXCEPT ![i][0] = r.val * 2^Sc.Al]]
        one(s, i) == IF s.d.stop THEN s ELSE store(s, i, DecodeDc(s.d, stream, DcTable(Sc.comps[i]), Sc.comps[i]))
    IN  Iterate(Len(Sc.comps), one, [d |-> d, blocks |-> blocks])

(* The bit is set at most once, so a repeated attempt changes nothing.      *)
SetBit(v, Al) == IF (v \div 2^Al) % 2 = 1 THEN v ELSE v + 2^Al

decode_mcu_DC_refine(d, blocks) ==
    LET store(s, i, r) ==
            [d |-> r,
             blocks |-> IF ~r.stop /\ r.val = 1
                        THEN [s.blocks EXCEPT ![i][0] = SetBit(@, Sc.Al)] ELSE s.blocks]
        one(s, i) == IF s.d.stop THEN s ELSE store(s, i, GetBits(s.d, stream, 1))
    IN  Iterate(Len(Sc.comps), one, [d |-> d, blocks |-> blocks])

(* A run of end-of-bands: 2^n plus n appended bits.                         *)
EobRun(r, n) ==
    LET run(t) == IF t.stop THEN t ELSE [t EXCEPT !.EOBRUN = 2^n + t.val]
    IN  IF n = 0 THEN [r EXCEPT !.EOBRUN = 1] ELSE run(GetBits(r, stream, n))

decode_mcu_sub(d, blocks) ==
    LET store(s, i, b) == [d |-> b.r, blocks |-> [s.blocks EXCEPT ![i] = b.block]]
        ac(s, i, r) ==
            IF r.stop THEN [s EXCEPT !.d = r]
            ELSE store(s, i, DecodeBlockAc(r, stream, AcTable(Sc.comps[i]), [s.blocks[i] EXCEPT ![0] = r.val],
                                           lim_Se + 1, lim_Se, natural_order))
        one(s, i) == IF s.d.stop THEN s ELSE ac(s, i, DecodeDc(s.d, stream, DcTable(Sc.comps[i]), Sc.comps[i]))
    IN  Iterate(Len(Sc.comps), one, [d |-> d, blocks |-> blocks])

decode_mcu_AC_first(d, blocks) ==
    LET coefficient(s, run, t) ==
            [r |-> t, k |-> s.k + run + 1,
             block |-> [s.block EXCEPT ![natural_order[s.k + run]] = t.val * 2^Sc.Al]]
        ended(s, t) ==
            IF t.stop THEN [s EXCEPT !.r = t]
            ELSE [s EXCEPT !.r = [t EXCEPT !.EOBRUN = @ - 1], !.k = Sc.Se + 1]
        one(s, i) ==
            DecodeAc(s, stream, AcTable(Sc.comps[1]), Sc.Se, coefficient, LAMBDA t, n : ended(s, EobRun(t, n)))
        result(s) == [d |-> s.r, blocks |-> <<s.block>>]
    IN  IF d.EOBRUN > 0 THEN [d |-> [d EXCEPT !.EOBRUN = @ - 1], blocks |-> blocks]
        ELSE result(Iterate(Sc.Se - Sc.Ss + 1, one, [r |-> d, k |-> Sc.Ss, block |-> blocks[1]]))

(* Mutant: a block that was resumed is corrected twice.                     *)
AlreadyCorrected_Never(v) == FALSE

(* A correction bit grows the magnitude, unless an earlier attempt did.     *)
AlreadyCorrected(v) == (v \div 2^Sc.Al) % 2 = 1

Corrected(v) ==
    IF AlreadyCorrected(v) THEN v ELSE IF v >= 0 THEN v + 2^Sc.Al ELSE v - 2^Sc.Al

(* Passes nonzero coefficients, reading their correction bits, up to the    *)
(* zero after r zeros; for r < 0 up to the end of the band.                 *)
Advance(s, r) ==
    LET correct(x, p, bit) ==
            IF bit.stop THEN [x EXCEPT !.r = bit]
            ELSE [x EXCEPT !.r = bit, !.k = @ + 1,
                           !.block[p] = IF bit.val = 1 THEN Corrected(@) ELSE @]
        pass(x, p) ==
            IF x.block[p] # 0 THEN correct(x, p, GetBits(x.r, stream, 1))
            ELSE IF x.zeros = 0 THEN [x EXCEPT !.done = TRUE]
            ELSE [x EXCEPT !.k = @ + 1, !.zeros = @ - 1]
        step(x, i) ==
            IF x.r.stop \/ x.k > Sc.Se \/ x.done THEN x ELSE pass(x, natural_order[x.k])
    IN  Iterate(Sc.Se - Sc.Ss + 2, step, [s EXCEPT !.done = FALSE, !.zeros = r])

(* When it suspends, the newly nonzero coefficients are made zero again;    *)
(* correction bits stay.                                                    *)
decode_mcu_AC_refine(d, blocks) ==
    LET place(at, p, new) ==
            [at EXCEPT !.k = @ + 1, !.newnz_pos = IF new = 0 THEN @ ELSE @ \cup {p},
                       !.block[p] = IF new = 0 THEN @ ELSE new]
        reached(at, new) == IF at.r.stop THEN at ELSE place(at, natural_order[at.k], new)
        newCoefficient(s, run, t) ==
            IF t.stop THEN [s EXCEPT !.r = t]
            ELSE reached(Advance([s EXCEPT !.r = t], run), IF t.val = 1 THEN 2^Sc.Al ELSE -(2^Sc.Al))
        read(s, t) ==
            IF t.stop THEN [s EXCEPT !.r = t]
            ELSE IF t.val % 16 # 0 THEN newCoefficient(s, t.val \div 16, GetBits(t, stream, 1))
            ELSE IF t.val = 240 THEN reached(Advance([s EXCEPT !.r = t], 15), 0)
            ELSE [s EXCEPT !.r = EobRun(t, t.val \div 16)]
        symbol(s, i) ==
            IF s.r.stop \/ s.k > Sc.Se \/ s.r.EOBRUN > 0 THEN s
            ELSE read(s, jpeg_huff_decode(s.r, stream, AcTable(Sc.comps[1])))
        tail(s) == IF s.r.stop \/ s.r.EOBRUN = 0 THEN s ELSE Advance(s, -1)
        undone(s) == [p \in 0..63 |-> IF p \in s.newnz_pos THEN 0 ELSE s.block[p]]
        result(s) ==
            IF s.r.stop THEN [d |-> s.r, blocks |-> <<undone(s)>>]
            ELSE [d |-> IF s.r.EOBRUN > 0 THEN [s.r EXCEPT !.EOBRUN = @ - 1] ELSE s.r,
                  blocks |-> <<s.block>>]
    IN  result(tail(Iterate(Sc.Se - Sc.Ss + 1, symbol,
            [r |-> d, k |-> Sc.Ss, block |-> blocks[1], newnz_pos |-> {},
             zeros |-> 0, done |-> FALSE])))

(* The routine start_pass_huff_decoder selects.  Without data the MCU stays *)
(* as it is; DC refinement reads its bits all the same.                     *)
decode_mcu(d, blocks) ==
    IF d.short /\ ~(progressive_mode /\ Sc.Ss = 0 /\ Sc.Ah # 0) THEN [d |-> d, blocks |-> blocks]
    ELSE IF ~progressive_mode THEN decode_mcu_sub(d, blocks)
    ELSE IF Sc.Ss = 0
    THEN IF Sc.Ah = 0 THEN decode_mcu_DC_first(d, blocks) ELSE decode_mcu_DC_refine(d, blocks)
    ELSE IF Sc.Ah = 0 THEN decode_mcu_AC_first(d, blocks) ELSE decode_mcu_AC_refine(d, blocks)

(* One call of decode_mcu.  If it suspends, the decoder state is the one    *)
(* before the MCU, except what a processed restart left; the marker seen    *)
(* and the blocks stay.                                                     *)
DecodeMcu ==
    /\ phase = "decode"
    /\ dec.mcu < NumMcus
    /\ dec.stop => dec.avail < avail
    /\ LET kept(c, blocks) == {blocks[i] : i \in {j \in DOMAIN Sc.comps : Sc.comps[j] = c}}
           decoded(d, r) ==
            /\ dec' = IF r.d.stop THEN Stopped(d)
                      ELSE [r.d EXCEPT !.mcu = @ + 1, !.avail = 0, !.val = 0,
                                       !.restarts_to_go = IF restart_interval > 0 THEN @ - 1 ELSE @]
            /\ coefs' = [c \in Component |-> [coefs[c] EXCEPT ![dec.mcu] =
                    IF kept(c, r.blocks) = {} THEN @ ELSE CHOOSE b \in kept(c, r.blocks) : TRUE]]
           started(d) ==
            IF d.stop THEN dec' = d /\ UNCHANGED coefs
            ELSE decoded(d, decode_mcu(d, [i \in DOMAIN Sc.comps |-> coefs[Sc.comps[i]][dec.mcu]]))
           begin(d) == started(IF restart_interval > 0 /\ d.restarts_to_go = 0
                               THEN process_restart(d) ELSE d)
       IN  begin([dec EXCEPT !.avail = avail, !.stop = FALSE])
    /\ UNCHANGED <<plan, scan, phase, mcu, enc, counts, tables, derived, avail, stream, lost>>

NextScan ==
    /\ phase = "decode"
    /\ dec.mcu = NumMcus
    /\ avail = Len(stream)
    /\ IF scan = Len(plan.scans) \/ lost # {}
       THEN /\ phase' = "end"
            /\ UNCHANGED <<scan, mcu, enc, counts, avail, stream, dec, lost>>
       ELSE /\ phase' = IF plan.optimize THEN "gather" ELSE "encode"
            /\ scan' = scan + 1
            /\ mcu' = 0
            /\ enc' = EncoderStart
            /\ counts' = NoCounts
            /\ avail' = 0
            /\ stream' = <<>>
            /\ dec' = DecoderStart
            /\ lost' = {}
    /\ UNCHANGED <<plan, tables, derived, coefs>>

ScanNext ==
    \/ GatherMcu
    \/ FinishGather
    \/ EncodeMcu
    \/ FinishScan
    \/ LoseSegments
    \/ Deliver
    \/ DecodeMcu
    \/ NextScan

ScanSpec == ScanInit /\ [][ScanNext]_scan_vars

-----------------------------------------------------------------------------
(* Properties.                                                             *)

(* The bit position below which scans 1..n leave coefficient k of component *)
(* c open; -1 if none of them has coded it.                                 *)
OpenBits(c, k, n) ==
    LET codes(i) == /\ \E j \in DOMAIN plan.scans[i].comps : plan.scans[i].comps[j] = c
                    /\ k \in plan.scans[i].Ss..plan.scans[i].Se
    IN  Iterate(n, LAMBDA al, i : IF codes(i) THEN plan.scans[i].Al ELSE al, -1)

(* What a decoder must know of a block after n scans.                       *)
KnownBlock(c, m, n) ==
    LET known(k) ==
            LET v == plan.image[c][m][natural_order[k]]
                Al == OpenBits(c, k, n)
            IN  IF Al < 0 THEN 0
                ELSE IF k = 0 THEN DcTransform(v, Al) * 2^Al ELSE AcTransform(v, Al) * 2^Al
    IN  [p \in 0..63 |-> IF \E k \in 0..lim_Se : natural_order[k] = p
                         THEN known(CHOOSE k \in 0..lim_Se : natural_order[k] = p) ELSE 0]

(* The decoder rebuilds exactly what the scans so far have coded, in blocks *)
(* whose segment was not lost, wherever it had to suspend and whatever the  *)
(* runs of zeros, end-of-band runs, correction bits and restarts were; it   *)
(* never touches a block it has not reached.                                *)
DecodedIsEncoded ==
    phase \in {"decode", "end"} => \A c \in Component, m \in 0..(NumMcus - 1) :
        LET inScan == \E i \in DOMAIN Sc.comps : Sc.comps[i] = c
            done == phase = "end" \/ (phase = "decode" /\ (m < dec.mcu \/ ~inScan))
        IN  \/ m \in lost
            \/ phase = "decode" /\ m = dec.mcu
            \/ coefs[c][m] = KnownBlock(c, m, IF done THEN scan ELSE scan - 1)

(* The statistics pass counts exactly what the output pass emits: no symbol *)
(* is left without a code in the optimal table ("This process MUST agree    *)
(* with the code above", jchuff.c).                                         *)
NoMissingCode == ~enc.error

(* The optimal tables are code trees with at most 16 bits per code, without *)
(* the code of all ones, which padding could be taken for; the encoder's    *)
(* own check of them succeeds.                                              *)
OptimalTablesLegal ==
    (phase = "encode" /\ mcu = 0) => \A t \in 0..1 : LegalTable(tables.dc[t], 15) /\ LegalTable(tables.ac[t], 255)

(* Whatever is lost, delayed or cut off, a decoder that has all the bytes   *)
(* of the scan never waits for more: every MCU is decoded, and decoding     *)
(* comes to an end.                                                         *)
NeverStarves == phase = "decode" => ~(dec.stop /\ dec.avail = Len(stream))
=============================================================================
