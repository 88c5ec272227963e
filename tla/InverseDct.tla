----------------------------- MODULE InverseDct -----------------------------
(***************************************************************************)
(* The inverse DCT routines of jidctint.c.  A routine jpeg_idct_HxV makes   *)
(* a block of V rows of H samples from the lowest coefficients of a block.  *)
(* Row x + 1 of IdctN holds the weights of the coefficients in point x of   *)
(* an N-point pass.                                                         *)
(***************************************************************************)
EXTENDS DctCommon

(* jpeg_idct_islow tests for a column or a row without AC terms.            *)
ShortcutPass(kernel, points, shift) ==
    [Pass(kernel, points, shift) EXCEPT !.form = "shortcut"]

(* The 4-point first pass rounds the odd part before it adds the even part. *)
SplitPass(kernel, points, shift) ==
    [Pass(kernel, points, shift) EXCEPT !.form = "split"]

Point(p, x, in) ==
    LET row == p.kernel[IF x < Half(p.points) THEN x + 1 ELSE p.points - x]
        even == SumOver(Half(Len(row)), LAMBDA i : row[2 * i + 1] * in[2 * i])
        odd == SumOver(Len(row) \div 2, LAMBDA i : row[2 * i + 2] * in[2 * i + 1])
    IN  IF x < Half(p.points) THEN Descale(even + odd, p.shift)
        ELSE IF p.form = "split" THEN Descale(even, p.shift) - Descale(odd, p.shift)
        ELSE Descale(even - odd, p.shift)

NoAcTerms(in) == \A k \in DOMAIN in \ {0} : in[k] = 0

(* Pass 1: dequantise and transform each column.                            *)
IdctColumns(p, width, coef_block, quantval) ==
    LET column(k) == [j \in 0..(DCTSIZE - 1) |-> coef_block[j][k] * quantval[j][k]]
    IN  [y \in 0..(p.points - 1) |-> [k \in 0..(width - 1) |->
            IF p.form = "shortcut" /\ NoAcTerms([j \in 0..(DCTSIZE - 1) |-> coef_block[j][k]])
            THEN 4 * coef_block[0][k] * quantval[0][k]
            ELSE Point(p, y, column(k))]]

(* The post-IDCT part of the table that prepare_range_limit_table() fills:  *)
(* an index is taken modulo RANGE_MASK + 1, the upper half stands for       *)
(* negative numbers, and legal samples lie around 0.                        *)
RANGE_MASK == MAXJSAMPLE * 4 + 3

range_limit(i) ==
    LET x == i % (RANGE_MASK + 1)
    IN  IF x < CENTERJSAMPLE THEN x + CENTERJSAMPLE
        ELSE IF x < 2 * (MAXJSAMPLE + 1) THEN MAXJSAMPLE
        ELSE IF x < 4 * (MAXJSAMPLE + 1) - CENTERJSAMPLE THEN 0
        ELSE x - (4 * (MAXJSAMPLE + 1) - CENTERJSAMPLE)

(* Pass 2 before the range limit: transform each row.                       *)
IdctRows(p, workspace) ==
    [y \in DOMAIN workspace |-> [x \in 0..(p.points - 1) |->
        IF p.form = "shortcut" /\ NoAcTerms(workspace[y])
        THEN Descale(workspace[y][0], 5)
        ELSE Point(p, x, workspace[y])]]

LimitedSamples(block) ==
    [y \in DOMAIN block |-> [x \in DOMAIN block[y] |-> range_limit(block[y][x])]]

Idct2 == <<
    <<1, 1>> >>

Idct3 == <<
    <<8192, 10033, 5793>>, <<8192, 0, -11586>> >>

Idct4 == <<
    <<8192, 10703, 8192, 4433>>, <<8192, 4433, -8192, -10704>> >>

Idct5 == <<
    <<8192, 11019, 9372, 6810, 3580>>, <<8192, 6810, -3580, -11018, -9372>>,
    <<8192, 0, -11584, 0, 11584>> >>

Idct6 == <<
    <<8192, 11190, 10033, 8192, 5793, 2998>>, <<8192, 8192, 0, -8192, -11586, -8192>>,
    <<8192, 2998, -10033, -8192, 5793, 11190>> >>

Idct7 == <<
    <<8192, 11295, 10438, 9058, 7223, 5027, 2578>>,
    <<8192, 9058, 2578, -5027, -10438, -11295, -7223>>,
    <<8192, 5027, -7223, -11295, -2578, 9058, 10438>>, <<8192, 0, -11585, 0, 11585, 0, -11585>> >>

Idct8 == <<
    <<8192, 11363, 10703, 9633, 8192, 6437, 4433, 2260>>,
    <<8192, 9633, 4433, -2259, -8192, -11362, -10704, -6436>>,
    <<8192, 6437, -4433, -11362, -8192, 2261, 10704, 9633>>,
    <<8192, 2260, -10703, -6436, 8192, 9633, -4433, -11363>> >>

Idct9 == <<
    <<8192, 11409, 10887, 10033, 8875, 7447, 5793, 3962>>,
    <<8192, 10033, 5793, 0, -5793, -10033, -11586, -10033>>,
    <<8192, 7447, -2012, -10033, -10887, -3962, 5793, 11409>>,
    <<8192, 3962, -8875, -10033, 2012, 11409, 5793, -7447>>,
    <<8192, 0, -11586, 0, 11586, 0, -11586, 0>> >>

Idct10 == <<
    <<8192, 11443, 11019, 10322, 9373, 8192, 6810, 5260>>,
    <<8192, 10323, 6810, 1812, -3580, -8192, -11018, -11442>>,
    <<8192, 8192, 0, -8192, -11586, -8192, 0, 8192>>,
    <<8192, 5260, -6810, -11442, -3580, 8192, 11018, 1812>>,
    <<8192, 1812, -11019, -5260, 9373, 8192, -6810, -10322>> >>

Idct11 == <<
    <<8192, 11468, 11116, 10538, 9746, 8756, 7587, 6264>>,
    <<8192, 10538, 7587, 3264, -1649, -6263, -9746, -11467>>,
    <<8192, 8756, 1649, -6263, -11116, -10537, -4812, 3264>>,
    <<8192, 6264, -4812, -11467, -7587, 3264, 11116, 8756>>,
    <<8192, 3264, -9746, -8755, 4813, 11467, 1649, -10538>>,
    <<8192, 0, -11585, 0, 11585, 0, -11585, 0>> >>

Idct12 == <<
    <<8192, 11487, 11190, 10703, 10033, 9192, 8192, 7053>>,
    <<8192, 10703, 8192, 4433, 0, -4433, -8192, -10703>>,
    <<8192, 9192, 2998, -4433, -10033, -11485, -8192, -1512>>,
    <<8192, 7053, -2998, -10703, -10033, -1512, 8192, 11486>>,
    <<8192, 4433, -8192, -10704, 0, 10704, 8192, -4433>>,
    <<8192, 1513, -11190, -4433, 10033, 7053, -8192, -9191>> >>

Idct13 == <<
    <<8192, 11499, 11249, 10832, 10258, 9534, 8672, 7682>>,
    <<8192, 10832, 8672, 5384, 1397, -2773, -6581, -9534>>,
    <<8192, 9534, 4108, -2773, -8672, -11502, -10258, -5384>>,
    <<8192, 7682, -1396, -9534, -11248, -5384, 4108, 10832>>,
    <<8192, 5384, -6581, -11500, -4108, 7682, 11248, 2773>>,
    <<8192, 2773, -10258, -7682, 6581, 10832, -1397, -11500>>,
    <<8192, 0, -11585, 0, 11585, 0, -11585, 0>> >>

Idct14 == <<
    <<8192, 11513, 11295, 10935, 10438, 9810, 9058, 8192>>,
    <<8192, 10935, 9058, 6164, 2578, -1297, -5026, -8192>>,
    <<8192, 9810, 5027, -1297, -7223, -10934, -11295, -8192>>,
    <<8192, 8192, 0, -8192, -11586, -8192, 0, 8192>>,
    <<8192, 6164, -5027, -11512, -7223, 3826, 11295, 8192>>,
    <<8192, 3826, -9058, -9809, 2578, 11512, 5026, -8192>>,
    <<8192, 1297, -11295, -3826, 10438, 6164, -9058, -8192>> >>

Idct15 == <<
    <<8192, 11522, 11332, 11018, 10584, 10033, 9373, 8609>>,
    <<8192, 11019, 9372, 6810, 3580, 0, -3580, -6810>>,
    <<8192, 10033, 5792, 0, -5792, -10033, -11586, -10033>>,
    <<8192, 8609, 1211, -6810, -11332, -10033, -3580, 4712>>,
    <<8192, 6810, -3580, -11018, -9372, 0, 9373, 11018>>,
    <<8192, 4712, -7753, -11018, -1211, 10033, 9373, -2409>>,
    <<8192, 2409, -10584, -6810, 7753, 10033, -3580, -11522>>,
    <<8192, 0, -11584, 0, 11584, 0, -11586, 0>> >>

Idct16 == <<
    <<8192, 11529, 11363, 11086, 10703, 10217, 9632, 8956>>,
    <<8192, 11086, 9633, 7350, 4433, 1136, -2260, -5461>>,
    <<8192, 10217, 6437, 1136, -4433, -8955, -11363, -11086>>,
    <<8192, 8956, 2260, -5461, -10703, -11086, -6436, 1137>>,
    <<8192, 7350, -2260, -10217, -10703, -3363, 6436, 11529>>,
    <<8192, 5461, -6437, -11529, -4433, 7349, 11363, 3363>>,
    <<8192, 3363, -9633, -8955, 4433, 11529, 2260, -10217>>,
    <<8192, 1136, -11363, -3363, 10703, 5461, -9632, -7350>> >>

Idct1 == << <<1>> >>

(***************************************************************************)
(* The two passes of each routine of jidctint.c: columns, then rows.       *)
(***************************************************************************)
jpeg_idct_islow_columns == ShortcutPass(Idct8, 8, 11)
jpeg_idct_islow_rows == ShortcutPass(Idct8, 8, 18)
jpeg_idct_7x7_columns == Pass(Idct7, 7, 11)
jpeg_idct_7x7_rows == Pass(Idct7, 7, 18)
jpeg_idct_6x6_columns == Pass(Idct6, 6, 11)
jpeg_idct_6x6_rows == Pass(Idct6, 6, 18)
jpeg_idct_5x5_columns == Pass(Idct5, 5, 11)
jpeg_idct_5x5_rows == Pass(Idct5, 5, 18)
jpeg_idct_4x4_columns == SplitPass(Idct4, 4, 11)
jpeg_idct_4x4_rows == Pass(Idct4, 4, 18)
jpeg_idct_3x3_columns == Pass(Idct3, 3, 11)
jpeg_idct_3x3_rows == Pass(Idct3, 3, 18)
jpeg_idct_2x2_columns == Pass(Idct2, 2, 0)
jpeg_idct_2x2_rows == Pass(Idct2, 2, 3)
jpeg_idct_1x1_columns == Pass(Idct1, 1, 0)
jpeg_idct_1x1_rows == Pass(Idct1, 1, 3)
jpeg_idct_9x9_columns == Pass(Idct9, 9, 11)
jpeg_idct_9x9_rows == Pass(Idct9, 9, 18)
jpeg_idct_10x10_columns == Pass(Idct10, 10, 11)
jpeg_idct_10x10_rows == Pass(Idct10, 10, 18)
jpeg_idct_11x11_columns == Pass(Idct11, 11, 11)
jpeg_idct_11x11_rows == Pass(Idct11, 11, 18)
jpeg_idct_12x12_columns == Pass(Idct12, 12, 11)
jpeg_idct_12x12_rows == Pass(Idct12, 12, 18)
jpeg_idct_13x13_columns == Pass(Idct13, 13, 11)
jpeg_idct_13x13_rows == Pass(Idct13, 13, 18)
jpeg_idct_14x14_columns == Pass(Idct14, 14, 11)
jpeg_idct_14x14_rows == Pass(Idct14, 14, 18)
jpeg_idct_15x15_columns == Pass(Idct15, 15, 11)
jpeg_idct_15x15_rows == Pass(Idct15, 15, 18)
jpeg_idct_16x16_columns == Pass(Idct16, 16, 11)
jpeg_idct_16x16_rows == Pass(Idct16, 16, 18)
jpeg_idct_16x8_columns == Pass(Idct8, 8, 11)
(* Mutant: the extra bits of pass 1 are not taken off.                      *)
jpeg_idct_16x8_rows_Unshifted == Pass(Idct16, 16, 16)
jpeg_idct_16x8_rows == Pass(Idct16, 16, 18)
jpeg_idct_14x7_columns == Pass(Idct7, 7, 11)
jpeg_idct_14x7_rows == Pass(Idct14, 14, 18)
jpeg_idct_12x6_columns == Pass(Idct6, 6, 11)
jpeg_idct_12x6_rows == Pass(Idct12, 12, 18)
jpeg_idct_10x5_columns == Pass(Idct5, 5, 11)
jpeg_idct_10x5_rows == Pass(Idct10, 10, 18)
jpeg_idct_8x4_columns == SplitPass(Idct4, 4, 11)
jpeg_idct_8x4_rows == Pass(Idct8, 8, 18)
jpeg_idct_6x3_columns == Pass(Idct3, 3, 11)
jpeg_idct_6x3_rows == Pass(Idct6, 6, 18)
jpeg_idct_4x2_columns == Pass(Idct2, 2, 0)
jpeg_idct_4x2_rows == Pass(Idct4, 4, 16)
jpeg_idct_2x1_columns == Pass(Idct1, 1, 0)
jpeg_idct_2x1_rows == Pass(Idct2, 2, 3)
jpeg_idct_8x16_columns == Pass(Idct16, 16, 11)
jpeg_idct_8x16_rows == Pass(Idct8, 8, 18)
jpeg_idct_7x14_columns == Pass(Idct14, 14, 11)
jpeg_idct_7x14_rows == Pass(Idct7, 7, 18)
jpeg_idct_6x12_columns == Pass(Idct12, 12, 11)
jpeg_idct_6x12_rows == Pass(Idct6, 6, 18)
jpeg_idct_5x10_columns == Pass(Idct10, 10, 11)
jpeg_idct_5x10_rows == Pass(Idct5, 5, 18)
jpeg_idct_4x8_columns == Pass(Idct8, 8, 11)
jpeg_idct_4x8_rows == Pass(Idct4, 4, 18)
jpeg_idct_3x6_columns == Pass(Idct6, 6, 11)
jpeg_idct_3x6_rows == Pass(Idct3, 3, 18)
jpeg_idct_2x4_columns == Pass(Idct4, 4, 0)
jpeg_idct_2x4_rows == Pass(Idct2, 2, 16)
jpeg_idct_1x2_columns == Pass(Idct2, 2, 0)
jpeg_idct_1x2_rows == Pass(Idct1, 1, 3)

(* The routine start_pass() chooses for a component, by its scaled size.     *)
inverse_DCT(h, v) ==
    CASE h = 8 /\ v = 8 -> <<jpeg_idct_islow_columns, jpeg_idct_islow_rows>>
      [] h = 7 /\ v = 7 -> <<jpeg_idct_7x7_columns, jpeg_idct_7x7_rows>>
      [] h = 6 /\ v = 6 -> <<jpeg_idct_6x6_columns, jpeg_idct_6x6_rows>>
      [] h = 5 /\ v = 5 -> <<jpeg_idct_5x5_columns, jpeg_idct_5x5_rows>>
      [] h = 4 /\ v = 4 -> <<jpeg_idct_4x4_columns, jpeg_idct_4x4_rows>>
      [] h = 3 /\ v = 3 -> <<jpeg_idct_3x3_columns, jpeg_idct_3x3_rows>>
      [] h = 2 /\ v = 2 -> <<jpeg_idct_2x2_columns, jpeg_idct_2x2_rows>>
      [] h = 1 /\ v = 1 -> <<jpeg_idct_1x1_columns, jpeg_idct_1x1_rows>>
      [] h = 9 /\ v = 9 -> <<jpeg_idct_9x9_columns, jpeg_idct_9x9_rows>>
      [] h = 10 /\ v = 10 -> <<jpeg_idct_10x10_columns, jpeg_idct_10x10_rows>>
      [] h = 11 /\ v = 11 -> <<jpeg_idct_11x11_columns, jpeg_idct_11x11_rows>>
      [] h = 12 /\ v = 12 -> <<jpeg_idct_12x12_columns, jpeg_idct_12x12_rows>>
      [] h = 13 /\ v = 13 -> <<jpeg_idct_13x13_columns, jpeg_idct_13x13_rows>>
      [] h = 14 /\ v = 14 -> <<jpeg_idct_14x14_columns, jpeg_idct_14x14_rows>>
      [] h = 15 /\ v = 15 -> <<jpeg_idct_15x15_columns, jpeg_idct_15x15_rows>>
      [] h = 16 /\ v = 16 -> <<jpeg_idct_16x16_columns, jpeg_idct_16x16_rows>>
      [] h = 16 /\ v = 8 -> <<jpeg_idct_16x8_columns, jpeg_idct_16x8_rows>>
      [] h = 14 /\ v = 7 -> <<jpeg_idct_14x7_columns, jpeg_idct_14x7_rows>>
      [] h = 12 /\ v = 6 -> <<jpeg_idct_12x6_columns, jpeg_idct_12x6_rows>>
      [] h = 10 /\ v = 5 -> <<jpeg_idct_10x5_columns, jpeg_idct_10x5_rows>>
      [] h = 8 /\ v = 4 -> <<jpeg_idct_8x4_columns, jpeg_idct_8x4_rows>>
      [] h = 6 /\ v = 3 -> <<jpeg_idct_6x3_columns, jpeg_idct_6x3_rows>>
      [] h = 4 /\ v = 2 -> <<jpeg_idct_4x2_columns, jpeg_idct_4x2_rows>>
      [] h = 2 /\ v = 1 -> <<jpeg_idct_2x1_columns, jpeg_idct_2x1_rows>>
      [] h = 8 /\ v = 16 -> <<jpeg_idct_8x16_columns, jpeg_idct_8x16_rows>>
      [] h = 7 /\ v = 14 -> <<jpeg_idct_7x14_columns, jpeg_idct_7x14_rows>>
      [] h = 6 /\ v = 12 -> <<jpeg_idct_6x12_columns, jpeg_idct_6x12_rows>>
      [] h = 5 /\ v = 10 -> <<jpeg_idct_5x10_columns, jpeg_idct_5x10_rows>>
      [] h = 4 /\ v = 8 -> <<jpeg_idct_4x8_columns, jpeg_idct_4x8_rows>>
      [] h = 3 /\ v = 6 -> <<jpeg_idct_3x6_columns, jpeg_idct_3x6_rows>>
      [] h = 2 /\ v = 4 -> <<jpeg_idct_2x4_columns, jpeg_idct_2x4_rows>>
      [] h = 1 /\ v = 2 -> <<jpeg_idct_1x2_columns, jpeg_idct_1x2_rows>>

=============================================================================
