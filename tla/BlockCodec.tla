----------------------------- MODULE BlockCodec -----------------------------
(***************************************************************************)
(* The way of one block through libjpeg: forward DCT and quantisation      *)
(* (jcdctmgr.c), Huffman coding, decoding with the coefficients that the   *)
(* wanted output size does not need discarded, dequantisation and inverse  *)
(* DCT (jddctmgr.c).  A block of h x v samples is coded as 8 x 8           *)
(* coefficients and may be reconstructed at another size.                  *)
(***************************************************************************)
EXTENDS HuffmanCode, ForwardDct, InverseDct

CONSTANTS
    Jobs        \* records [enc, dec (<<h, v>>), image (rows of samples), quality, tbl_no]

VARIABLES
    job,                \* the block, its sizes and its quality
    stage,              \* the routine that is next
    workspace,          \* between the passes of a transform
    coef_block,         \* quantised coefficients, natural order
    bits_out,           \* the bytes of the block
    decoded_block,      \* coefficients the decoder has kept
    output              \* reconstructed samples, before the range limit

block_vars == <<job, stage, workspace, coef_block, bits_out, decoded_block, output>>

natural_order_8 == jpeg_natural_order[DCTSIZE]
NoCoefs == [i \in 0..(DCTSIZE2 - 1) |-> 0]

(* The quantisation table jpeg_set_quality(quality, TRUE) installs.         *)
quantval == jpeg_set_quality(job.quality, TRUE)[job.tbl_no]
AsRows(tbl) == [j \in 0..(DCTSIZE - 1) |-> [k \in 0..(DCTSIZE - 1) |-> tbl[DCTSIZE * j + k]]]

BlockStart ==
    /\ stage = "fdct_rows"
    /\ workspace = <<>>
    /\ coef_block = NoCoefs
    /\ bits_out = <<>>
    /\ decoded_block = NoCoefs
    /\ output = <<>>

BlockInit == job \in Jobs /\ BlockStart

-----------------------------------------------------------------------------
(* The encoder.                                                            *)

FdctFirstPass ==
    /\ stage = "fdct_rows"
    /\ workspace' = FdctRows(do_dct(job.enc[1], job.enc[2])[1], job.image)
    /\ stage' = "fdct_columns"
    /\ UNCHANGED <<job, coef_block, bits_out, decoded_block, output>>

FdctSecondPass ==
    /\ stage = "fdct_columns"
    /\ workspace' = FdctColumns(do_dct(job.enc[1], job.enc[2])[2], workspace)
    /\ stage' = "quantise"
    /\ UNCHANGED <<job, coef_block, bits_out, decoded_block, output>>

(* Mutant: no rounding.                                                     *)
DivideBy_Truncating(temp, qval) == IF temp < 0 THEN -(-temp \div qval) ELSE temp \div qval

(* Rounded to the nearest, halves away from zero.                           *)
DivideBy(temp, qval) ==
    IF temp < 0 THEN -((-temp + qval \div 2) \div qval) ELSE (temp + qval \div 2) \div qval

(* Mutant: the factor of 8 of the forward transforms stays in.              *)
divisors_Unscaled(tbl) == tbl
divisors(tbl) == [i \in DOMAIN tbl |-> 8 * tbl[i]]

forward_DCT ==
    /\ stage = "quantise"
    /\ LET quantised(d) == [i \in 0..(DCTSIZE2 - 1) |->
                                DivideBy(workspace[i \div DCTSIZE][i % DCTSIZE], d[i])]
       IN  coef_block' = quantised(divisors(quantval))
    /\ workspace' = <<>>
    /\ stage' = "encode"
    /\ UNCHANGED <<job, bits_out, decoded_block, output>>

(* A coefficient without a category stops the encoder; the marker behind    *)
(* the scan follows the padded data.                                        *)
EncodeBlock ==
    /\ stage = "encode"
    /\ Encodable(coef_block, 0)
    /\ LET tbl == [dc |-> jpeg_make_c_derived_tbl(std_huff_tables.dc[job.tbl_no]),
                   ac |-> jpeg_make_c_derived_tbl(std_huff_tables.ac[job.tbl_no])]
           coded(t) == emit_items([out |-> <<>>, put_bits |-> <<>>],
                                  encode_one_block(coef_block, 0, natural_order_8, DCTSIZE2 - 1), t)
       IN  bits_out' = flush_bits(coded(tbl)).out \o <<255, 217>>
    /\ stage' = "decode"
    /\ UNCHANGED <<job, workspace, coef_block, decoded_block, output>>

-----------------------------------------------------------------------------
(* The decoder.                                                            *)

AtMost8(n) == IF n > DCTSIZE THEN DCTSIZE ELSE n

(* Mutant: one coefficient too few.                                         *)
coef_limit_Short(h, v) == jpeg_zigzag_order[DCTSIZE][<<AtMost8(v) - 1, AtMost8(h) - 1>>]

(* How many coefficients, in zigzag order, an output size needs.            *)
coef_limit(h, v) == 1 + jpeg_zigzag_order[DCTSIZE][<<AtMost8(v) - 1, AtMost8(h) - 1>>]

DecodeBlock ==
    /\ stage = "decode"
    /\ LET ac(r) == DecodeBlockAc(r, bits_out, jpeg_make_d_derived_tbl(std_huff_tables.ac[job.tbl_no]),
                                  [NoCoefs EXCEPT ![0] = r.val], coef_limit(job.dec[1], job.dec[2]),
                                  DCTSIZE2 - 1, natural_order_8)
           reader == [get |-> <<>>, next |-> 1, avail |-> Len(bits_out), marker |-> 0,
                      short |-> FALSE, stop |-> FALSE, val |-> 0, last_dc_val |-> <<0>>]
       IN  decoded_block' = ac(DecodeDc(reader, bits_out,
                               jpeg_make_d_derived_tbl(std_huff_tables.dc[job.tbl_no]), 1)).block
    /\ stage' = "idct_columns"
    /\ UNCHANGED <<job, workspace, coef_block, bits_out, output>>

(* Mutant: dequantisation by the divisors of the encoder.                   *)
FirstPassOf_Divisors(coefs) ==
    IdctColumns(inverse_DCT(job.dec[1], job.dec[2])[1], AtMost8(job.dec[1]), AsRows(coefs),
                AsRows(divisors(quantval)))
FirstPassOf(coefs) ==
    IdctColumns(inverse_DCT(job.dec[1], job.dec[2])[1], AtMost8(job.dec[1]), AsRows(coefs), AsRows(quantval))

SecondPassOf(ws) == IdctRows(inverse_DCT(job.dec[1], job.dec[2])[2], ws)

IdctFirstPass ==
    /\ stage = "idct_columns"
    /\ workspace' = FirstPassOf(decoded_block)
    /\ stage' = "idct_rows"
    /\ UNCHANGED <<job, coef_block, bits_out, decoded_block, output>>

IdctSecondPass ==
    /\ stage = "idct_rows"
    /\ output' = SecondPassOf(workspace)
    /\ workspace' = <<>>
    /\ stage' = "done"
    /\ UNCHANGED <<job, coef_block, bits_out, decoded_block>>

BlockNext ==
    \/ FdctFirstPass
    \/ FdctSecondPass
    \/ forward_DCT
    \/ EncodeBlock
    \/ DecodeBlock
    \/ IdctFirstPass
    \/ IdctSecondPass

BlockSpec == BlockInit /\ [][BlockNext]_block_vars

-----------------------------------------------------------------------------
(* Properties.                                                             *)

(* Whatever the size and the samples, no coefficient is too large for the   *)
(* Huffman coder (JERR_BAD_DCT_COEF, jchuff.c): the gain of every pair of   *)
(* kernels is that of the 8 x 8 transform, and a quantiser is at least 1.   *)
AlwaysEncodable == stage = "encode" => Encodable(coef_block, 0)

(* "cK represents sqrt(2) * cos(K*pi/...)" (jfdctint.c, at every kernel):   *)
(* coefficient k weighs point x of n by the cK whose angle is that of       *)
(* k(2x + 1), up to its sign, so all weights of one angle are one constant, *)
(* but for the rounding of the FIX() values they are sums of.               *)
AbsOf(n) == IF n < 0 THEN -n ELSE n

AngleOf(n, k, x) ==
    LET K == (k * (2 * x + 1)) % (2 * n) IN IF K > n THEN 2 * n - K ELSE K

OneConstantPerAngle ==
    LET n == job.enc[1]
        kernel == do_dct(job.enc[1], job.enc[2])[1].kernel
        halved(k, x) == IF Len(kernel[k + 1]) > Half(n) /\ x \in {1, 4} THEN kernel[k + 1][9] \div 2 ELSE 0
        weight(k, x) == AbsOf(kernel[k + 1][x + 1] + halved(k, x))
        entries == (1..(Len(kernel) - 1)) \X (0..(n \div 2 - 1))
    IN  stage = "fdct_rows" => \A a, b \in entries :
            AngleOf(n, a[1], a[2]) = AngleOf(n, b[1], b[2]) =>
                weight(a[1], a[2]) - weight(b[1], b[2]) \in -4..4

(* The coefficients the decoder discards for a reduced output size are ones *)
(* its inverse transform does not use.                                      *)
DiscardedCoefsUnused ==
    stage = "done" => output = SecondPassOf(FirstPassOf(coef_block))

(* At quality 100 a block comes back at its own size within Tolerance of    *)
(* its samples.  Blocks above 8 points are smooth ones, as their higher     *)
(* frequencies are not coded; not those of widths 12 and 14, whose forward  *)
(* routines are at fault (OneConstantPerAngle): these are flat ones only.   *)
Tolerance == 2

ComesBack ==
    (stage = "done" /\ job.quality = 100 /\ job.enc = job.dec) =>
        \A y \in DOMAIN output, x \in DOMAIN output[0] :
            range_limit(output[y][x]) - job.image[y][x] \in -Tolerance..Tolerance

(* Before the range limit, the mean brightness is the block's at every      *)
(* output size, up to the quantisation of its DC coefficient and rounding;  *)
(* of widths 12 and 14 the blocks are flat or irregular ones.               *)
Total(h, v, image) == SumOver(v, LAMBDA y : SumOver(h, LAMBDA x : image[y][x]))

MeanKept ==
    stage = "done" =>
        LET points(size) == size[1] * size[2]
            difference == points(job.enc) * Total(job.dec[1], job.dec[2], output)
                        - points(job.dec) * (Total(job.enc[1], job.enc[2], job.image)
                                               - CENTERJSAMPLE * points(job.enc))
        IN  16 * AbsOf(difference) <= (quantval[0] + 16) * points(job.enc) * points(job.dec)

(* A reconstructed sample is in the range that the range limit table holds. *)
WithinLimitTable ==
    \A y \in DOMAIN output : \A x \in DOMAIN output[y] : output[y][x] \in -512..511
=============================================================================
