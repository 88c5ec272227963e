----------------------------- MODULE ForwardDct -----------------------------
(***************************************************************************)
(* The forward DCT routines of jfdctint.c.  A routine jpeg_fdct_HxV takes   *)
(* a block of V rows of H samples and returns the DCTSIZE x DCTSIZE lowest  *)
(* coefficients, scaled up by 8.  Row k + 1 of a kernel holds the weights   *)
(* of coefficient k.  RowsN is the kernel of an N-point first pass; where   *)
(* the second pass folds the factor 8/N into its constants, ColumnsN is     *)
(* the kernel of the second.                                                *)
(***************************************************************************)
EXTENDS DctCommon

(* The even part works on sums, the odd part on differences, of a sample    *)
(* and its mirror image.                                                    *)
Folded(n, k, in, x) ==
    IF 2 * x + 1 = n THEN in[x]
    ELSE IF k % 2 = 0 THEN in[x] + in[n - 1 - x] ELSE in[x] - in[n - 1 - x]

(* The 15-point even part halves one of its sums before it multiplies: the  *)
(* ninth weight of its kernel belongs to that rounded half.                 *)
HalvedSum(in) == (Folded(15, 0, in, 1) + Folded(15, 0, in, 4)) \div 2

Coefficient(p, k, in) ==
    LET row == p.kernel[k + 1]
    IN  SumOver(Half(p.points), LAMBDA x : row[x + 1] * Folded(p.points, k, in, x))
          + (IF Len(row) > Half(p.points) THEN row[Len(row)] * HalvedSum(in) ELSE 0)

(* Pass 1.  The unsigned samples become signed in coefficient 0 only.       *)
FdctRows(p, sample_data) ==
    [y \in DOMAIN sample_data |-> [k \in 0..(Len(p.kernel) - 1) |->
        Descale(Coefficient(p, k, sample_data[y])
                  - (IF k = 0 THEN p.points * CENTERJSAMPLE * p.kernel[1][1] ELSE 0),
                p.shift)]]

(* Pass 2.  What the passes do not compute was zeroed beforehand.           *)
FdctColumns(p, workspace) ==
    [j \in 0..(DCTSIZE - 1) |-> [k \in 0..(DCTSIZE - 1) |->
        IF j < Len(p.kernel) /\ k \in DOMAIN workspace[0]
        THEN Descale(Coefficient(p, j, [y \in DOMAIN workspace |-> workspace[y][k]]), p.shift)
        ELSE 0]]

Rows1 == <<
    <<8192>> >>

Rows2 == <<
    <<8192>>, <<8192>> >>

Rows3 == <<
    <<8192, 8192>>, <<10033, 0>>, <<5793, -11586>> >>

Columns3 == <<
    <<14564, 14564>>, <<17837, 0>>, <<10298, -20596>> >>

Rows4 == <<
    <<8192, 8192>>, <<10703, 4433>>, <<8192, -8192>>, <<4433, -10704>> >>

Rows5 == <<
    <<8192, 8192, 8192>>, <<11019, 6810, 0>>, <<9372, -3580, -11584>>, <<6810, -11018, 0>>,
    <<3580, -9372, 11584>> >>

Columns5 == <<
    <<10486, 10486, 10486>>, <<14103, 8716, 0>>, <<11997, -4583, -14828>>, <<8716, -14104, 0>>,
    <<4583, -11997, 14828>> >>

Rows6 == <<
    <<8192, 8192, 8192>>, <<11190, 8192, 2998>>, <<10033, 0, -10033>>, <<8192, -8192, -8192>>,
    <<5793, -11586, 5793>>, <<2998, -8192, 11190>> >>

Columns6 == <<
    <<14564, 14564, 14564>>, <<19895, 14564, 5331>>, <<17837, 0, -17837>>,
    <<14564, -14564, -14564>>, <<10298, -20596, 10298>>, <<5331, -14564, 19895>> >>

Rows7 == <<
    <<8192, 8192, 8192, 8192>>, <<11295, 9058, 5027, 0>>, <<10438, 2578, -7224, -11584>>,
    <<9058, -5027, -11295, 0>>, <<7223, -10438, -2578, 11586>>, <<5027, -11295, 9058, 0>>,
    <<2577, -7223, 10438, -11584>> >>

Columns7 == <<
    <<10700, 10700, 10700, 10700>>, <<14752, 11831, 6565, 0>>, <<13633, 3367, -9434, -15132>>,
    <<11831, -6565, -14752, 0>>, <<9434, -13633, -3367, 15132>>, <<6565, -14752, 11830, 0>>,
    <<3367, -9434, 13633, -15132>> >>

Rows8 == <<
    <<8192, 8192, 8192, 8192>>, <<11363, 9633, 6437, 2260>>, <<10703, 4433, -4433, -10703>>,
    <<9633, -2259, -11362, -6436>>, <<8192, -8192, -8192, 8192>>, <<6437, -11362, 2261, 9633>>,
    <<4433, -10704, 10704, -4433>>, <<2260, -6436, 9633, -11363>> >>

Rows9 == <<
    <<8192, 8192, 8192, 8192, 8192>>, <<11409, 10033, 7447, 3962, 0>>,
    <<10887, 5793, -2012, -8875, -11586>>, <<10033, 0, -10033, -10033, 0>>,
    <<8875, -5793, -10887, 2012, 11586>>, <<7447, -10033, -3962, 11409, 0>>,
    <<5793, -11586, 5793, 5793, -11586>>, <<3962, -10033, 11409, -7447, 0>> >>

Columns9 == <<
    <<12945, 12945, 12945, 12945, 12945>>, <<18030, 15855, 11768, 6262, 0>>,
    <<17203, 9154, -3179, -14024, -18308>>, <<15855, 0, -15855, -15855, 0>>,
    <<14024, -9154, -17203, 3179, 18308>>, <<11768, -15855, -6261, 18029, 0>>,
    <<9154, -18308, 9154, 9154, -18308>>, <<6262, -15855, 18029, -11767, 0>> >>

Rows10 == <<
    <<8192, 8192, 8192, 8192, 8192>>, <<11443, 10323, 8192, 5260, 1812>>,
    <<11019, 6810, 0, -6810, -11019>>, <<10322, 1812, -8192, -11442, -5260>>,
    <<9373, -3580, -11586, -3580, 9373>>, <<8192, -8192, -8192, 8192, 8192>>,
    <<6810, -11018, 0, 11018, -6810>>, <<5260, -11442, 8192, 1812, -10322>> >>

Columns10 == <<
    <<10486, 10486, 10486, 10486, 10486>>, <<14647, 13213, 10486, 6732, 2320>>,
    <<14103, 8716, 0, -8716, -14103>>, <<13213, 2320, -10486, -14646, -6733>>,
    <<11997, -4582, -14830, -4582, 11997>>, <<10486, -10486, -10486, 10486, 10486>>,
    <<8716, -14104, 0, 14104, -8716>>, <<6733, -14646, 10486, 2320, -13213>> >>

Rows11 == <<
    <<8192, 8192, 8192, 8192, 8192, 8192>>, <<11467, 10538, 8756, 6263, 3264, 0>>,
    <<11116, 7587, 1649, -4813, -9746, -11586>>, <<10538, 3264, -6263, -11467, -8756, 0>>,
    <<9746, -1648, -11116, -7587, 4813, 11584>>, <<8756, -6263, -10537, 3264, 11467, 0>>,
    <<7587, -9746, -4812, 11116, 1649, -11588>>, <<6263, -11467, 3264, 8755, -10538, 0>> >>

Columns11 == <<
    <<8666, 8666, 8666, 8666, 8666, 8666>>, <<12131, 11148, 9262, 6626, 3453, 0>>,
    <<11759, 8026, 1744, -5092, -10310, -12254>>, <<11148, 3452, -6626, -12131, -9262, 0>>,
    <<10310, -1744, -11759, -8026, 5091, 12256>>, <<9262, -6626, -11148, 3453, 12131, 0>>,
    <<8026, -10310, -5091, 11759, 1744, -12256>>, <<6626, -12131, 3453, 9262, -11148, 0>> >>

Rows12 == <<
    <<8192, 8192, 8192, 8192, 8192, 8192>>, <<11486, 10703, 9191, 7053, 4433, 1512>>,
    <<11190, 1, 11189, -11189, -1, -11190>>, <<10703, 4433, -4433, -10703, -10704, -4433>>,
    <<10033, 0, -10033, -10033, 0, 10033>>, <<9191, -4433, -11486, -1512, 10704, 7053>>,
    <<8192, -8192, -8192, 8192, 8192, -8192>>, <<7053, -10703, -1512, 11487, -4433, -9191>> >>

Columns12 == <<
    <<7282, 7282, 7282, 7282, 7282, 7282>>, <<10210, 9514, 8170, 6269, 3941, 1344>>,
    <<9947, 7282, 2665, -2665, -7282, -9947>>, <<9514, 3941, -3941, -9514, -9514, -3941>>,
    <<8918, 0, -8918, -8918, 0, 8918>>, <<8170, -3941, -10210, -1344, 9514, 6269>>,
    <<7282, -7282, -7282, 7282, 7282, -7282>>, <<6269, -9514, -1344, 10210, -3941, -8170>> >>

Rows13 == <<
    <<8192, 8192, 8192, 8192, 8192, 8192, 8192>>, <<11499, 10832, 9534, 7682, 5384, 2773, 0>>,
    <<11249, 8672, 4108, -1396, -6581, -10258, -11588>>,
    <<10832, 5384, -2773, -9534, -11501, -7682, 0>>,
    <<10258, 1397, -8672, -11248, -4108, 6581, 11584>>,
    <<9534, -2773, -11502, -5384, 7682, 10833, 0>>,
    <<8672, -6581, -10258, 4108, 11248, -1397, -11584>>,
    <<7682, -9534, -5384, 10832, 2773, -11500, 0>> >>

Columns13 == <<
    <<6205, 6205, 6205, 6205, 6205, 6205, 6205>>, <<8710, 8204, 7221, 5819, 4078, 2100, 0>>,
    <<8520, 6568, 3112, -1058, -4985, -7770, -8774>>,
    <<8204, 4078, -2100, -7221, -8710, -5819, 0>>,
    <<7770, 1058, -6568, -8520, -3112, 4984, 8776>>,
    <<7221, -2100, -8711, -4078, 5819, 8204, 0>>,
    <<6568, -4984, -7770, 3112, 8520, -1058, -8776>>,
    <<5819, -7221, -4078, 8205, 2100, -8711, 0>> >>

Rows14 == <<
    <<8192, 8192, 8192, 8192, 8192, 8192, 8192>>,
    <<11513, 10935, 9810, 8192, 6164, 3826, -6893>>,
    <<11295, 9058, 5027, 0, -5027, -9058, -11295>>,
    <<10935, 6164, -1297, -8192, -11512, -9810, -3826>>,
    <<10438, 2578, -7223, -11586, -7223, 2578, 10438>>,
    <<9810, -1297, -10934, -8192, 3827, 11512, 6164>>,
    <<9058, -5026, -11295, 0, 11295, 5026, -9058>>,
    <<8192, -8192, -8192, 8192, 8192, -8192, -8192>> >>

Columns14 == <<
    <<5350, 5350, 5350, 5350, 5350, 5350, 5350>>, <<7518, 7141, 6406, 5350, 4025, 2499, 847>>,
    <<7376, 5915, 3283, 0, -3283, -5915, -7376>>,
    <<7141, 4025, -847, -5350, -7518, -6406, -2499>>,
    <<6817, 1684, -4717, -7568, -4717, 1684, 6817>>,
    <<6406, -847, -7141, -5350, 2499, 7518, 4025>>, <<5915, -3283, -7376, 0, 7376, 3283, -5915>>,
    <<5350, -5350, -5350, 5350, 5350, -5350, -5350>> >>

Rows15 == <<
    <<8192, 8192, 8192, 8192, 8192, 8192, 8192, 8192, 0>>,
    <<11522, 11018, 10033, 8609, 6809, 4712, 2408, 0, 0>>,
    <<11332, 6476, 5793, 1211, -6476, -7752, -10584, -11586, 5793>>,
    <<11018, 6810, 0, -6810, -11018, -11018, -6810, 0, 0>>,
    <<10584, 6476, -5793, -11332, -6476, -1211, 7752, 11586, -5793>>,
    <<10033, 0, -10033, -10033, 0, 10033, 10033, 0, 0>>,
    <<9373, -3580, -11586, -3580, 9373, 9373, -3580, -11586, 0>>,
    <<8610, -6810, -10033, 4712, 11018, -2409, -11522, 0, 0>> >>

Columns15 == <<
    <<9321, 9321, 9321, 9321, 9321, 9321, 9321, 9321, 0>>,
    <<13109, 12536, 11415, 9795, 7748, 5361, 2741, 0, 0>>,
    <<12893, 7369, 6591, 1378, -7369, -8820, -12042, -13182, 6591>>,
    <<12536, 7748, 0, -7748, -12536, -12536, -7748, 0, 0>>,
    <<12041, 7369, -6590, -12893, -7369, -1378, 8820, 13180, -6590>>,
    <<11415, 0, -11415, -11415, 0, 11415, 11415, 0, 0>>,
    <<10664, -4073, -13182, -4073, 10664, 10664, -4073, -13182, 0>>,
    <<9795, -7748, -11415, 5361, 12536, -2741, -13109, 0, 0>> >>

Rows16 == <<
    <<8192, 8192, 8192, 8192, 8192, 8192, 8192, 8192>>,
    <<11529, 11086, 10217, 8956, 7350, 5461, 3363, 1135>>,
    <<11363, 9633, 6436, 2260, -2260, -6436, -9633, -11363>>,
    <<11086, 7350, 1136, -5461, -10217, -11529, -8956, -3363>>,
    <<10703, 4433, -4433, -10703, -10703, -4433, 4433, 10703>>,
    <<10217, 1136, -8955, -11086, -3363, 7350, 11529, 5461>>,
    <<9633, -2260, -11363, -6437, 6437, 11363, 2260, -9633>>,
    <<8956, -5461, -11086, 1137, 11530, 3363, -10217, -7350>> >>

(***************************************************************************)
(* The two passes of each routine of jfdctint.c: rows, then columns.       *)
(***************************************************************************)
jpeg_fdct_islow_rows == Pass(Rows8, 8, 11)
jpeg_fdct_islow_columns == Pass(Rows8, 8, 15)
jpeg_fdct_7x7_rows == Pass(Rows7, 7, 11)
jpeg_fdct_7x7_columns == Pass(Columns7, 7, 15)
jpeg_fdct_6x6_rows == Pass(Rows6, 6, 11)
jpeg_fdct_6x6_columns == Pass(Columns6, 6, 15)
jpeg_fdct_5x5_rows == Pass(Rows5, 5, 10)
jpeg_fdct_5x5_columns == Pass(Columns5, 5, 15)
jpeg_fdct_4x4_rows == Pass(Rows4, 4, 9)
jpeg_fdct_4x4_columns == Pass(Rows4, 4, 15)
jpeg_fdct_3x3_rows == Pass(Rows3, 3, 9)
jpeg_fdct_3x3_columns == Pass(Columns3, 3, 15)
jpeg_fdct_2x2_rows == Pass(Rows2, 2, 13)
jpeg_fdct_2x2_columns == Pass(Rows2, 2, 9)
jpeg_fdct_1x1_rows == Pass(Rows1, 1, 13)
jpeg_fdct_1x1_columns == Pass(Rows1, 1, 7)
jpeg_fdct_9x9_rows == Pass(Rows9, 9, 12)
jpeg_fdct_9x9_columns == Pass(Columns9, 9, 15)
jpeg_fdct_10x10_rows == Pass(Rows10, 10, 12)
jpeg_fdct_10x10_columns == Pass(Columns10, 10, 15)
jpeg_fdct_11x11_rows == Pass(Rows11, 11, 12)
jpeg_fdct_11x11_columns == Pass(Columns11, 11, 15)
jpeg_fdct_12x12_rows == Pass(Rows12, 12, 13)
jpeg_fdct_12x12_columns == Pass(Columns12, 12, 14)
jpeg_fdct_13x13_rows == Pass(Rows13, 13, 13)
jpeg_fdct_13x13_columns == Pass(Columns13, 13, 14)
jpeg_fdct_14x14_rows == Pass(Rows14, 14, 13)
jpeg_fdct_14x14_columns == Pass(Columns14, 14, 14)
jpeg_fdct_15x15_rows == Pass(Rows15, 15, 13)
jpeg_fdct_15x15_columns == Pass(Columns15, 15, 15)
jpeg_fdct_16x16_rows == Pass(Rows16, 16, 11)
jpeg_fdct_16x16_columns == Pass(Rows16, 16, 17)
jpeg_fdct_16x8_rows == Pass(Rows16, 16, 11)
jpeg_fdct_16x8_columns == Pass(Rows8, 8, 16)
jpeg_fdct_14x7_rows == Pass(Rows14, 14, 11)
jpeg_fdct_14x7_columns == Pass(Columns7, 7, 16)
jpeg_fdct_12x6_rows == Pass(Rows12, 12, 11)
jpeg_fdct_12x6_columns == Pass(Columns6, 6, 16)
jpeg_fdct_10x5_rows == Pass(Rows10, 10, 11)
jpeg_fdct_10x5_columns == Pass(Columns5, 5, 15)
jpeg_fdct_8x4_rows == Pass(Rows8, 8, 10)
jpeg_fdct_8x4_columns == Pass(Rows4, 4, 15)
jpeg_fdct_6x3_rows == Pass(Rows6, 6, 10)
jpeg_fdct_6x3_columns == Pass(Columns3, 3, 15)
jpeg_fdct_4x2_rows == Pass(Rows4, 4, 8)
jpeg_fdct_4x2_columns == Pass(Rows2, 2, 15)
jpeg_fdct_2x1_rows == Pass(Rows2, 2, 8)
jpeg_fdct_2x1_columns == Pass(Rows1, 1, 13)
jpeg_fdct_8x16_rows == Pass(Rows8, 8, 11)
jpeg_fdct_8x16_columns == Pass(Rows16, 16, 16)
jpeg_fdct_7x14_rows == Pass(Rows7, 7, 11)
jpeg_fdct_7x14_columns == Pass(Columns14, 14, 15)
jpeg_fdct_6x12_rows == Pass(Rows6, 6, 11)
jpeg_fdct_6x12_columns == Pass(Columns12, 12, 15)
jpeg_fdct_5x10_rows == Pass(Rows5, 5, 11)
jpeg_fdct_5x10_columns == Pass(Columns10, 10, 15)
jpeg_fdct_4x8_rows == Pass(Rows4, 4, 10)
jpeg_fdct_4x8_columns == Pass(Rows8, 8, 15)
jpeg_fdct_3x6_rows == Pass(Rows3, 3, 10)
jpeg_fdct_3x6_columns == Pass(Columns6, 6, 15)
jpeg_fdct_2x4_rows == Pass(Rows2, 2, 10)
jpeg_fdct_2x4_columns == Pass(Rows4, 4, 13)
jpeg_fdct_1x2_rows == Pass(Rows1, 1, 13)
jpeg_fdct_1x2_columns == Pass(Rows2, 2, 8)

(* The routine start_pass_fdctmgr() chooses for a component, by its scaled   *)
(* block size.                                                               *)
do_dct(h, v) ==
    CASE h = 8 /\ v = 8 -> <<jpeg_fdct_islow_rows, jpeg_fdct_islow_columns>>
      [] h = 7 /\ v = 7 -> <<jpeg_fdct_7x7_rows, jpeg_fdct_7x7_columns>>
      [] h = 6 /\ v = 6 -> <<jpeg_fdct_6x6_rows, jpeg_fdct_6x6_columns>>
      [] h = 5 /\ v = 5 -> <<jpeg_fdct_5x5_rows, jpeg_fdct_5x5_columns>>
      [] h = 4 /\ v = 4 -> <<jpeg_fdct_4x4_rows, jpeg_fdct_4x4_columns>>
      [] h = 3 /\ v = 3 -> <<jpeg_fdct_3x3_rows, jpeg_fdct_3x3_columns>>
      [] h = 2 /\ v = 2 -> <<jpeg_fdct_2x2_rows, jpeg_fdct_2x2_columns>>
      [] h = 1 /\ v = 1 -> <<jpeg_fdct_1x1_rows, jpeg_fdct_1x1_columns>>
      [] h = 9 /\ v = 9 -> <<jpeg_fdct_9x9_rows, jpeg_fdct_9x9_columns>>
      [] h = 10 /\ v = 10 -> <<jpeg_fdct_10x10_rows, jpeg_fdct_10x10_columns>>
      [] h = 11 /\ v = 11 -> <<jpeg_fdct_11x11_rows, jpeg_fdct_11x11_columns>>
      [] h = 12 /\ v = 12 -> <<jpeg_fdct_12x12_rows, jpeg_fdct_12x12_columns>>
      [] h = 13 /\ v = 13 -> <<jpeg_fdct_13x13_rows, jpeg_fdct_13x13_columns>>
      [] h = 14 /\ v = 14 -> <<jpeg_fdct_14x14_rows, jpeg_fdct_14x14_columns>>
      [] h = 15 /\ v = 15 -> <<jpeg_fdct_15x15_rows, jpeg_fdct_15x15_columns>>
      [] h = 16 /\ v = 16 -> <<jpeg_fdct_16x16_rows, jpeg_fdct_16x16_columns>>
      [] h = 16 /\ v = 8 -> <<jpeg_fdct_16x8_rows, jpeg_fdct_16x8_columns>>
      [] h = 14 /\ v = 7 -> <<jpeg_fdct_14x7_rows, jpeg_fdct_14x7_columns>>
      [] h = 12 /\ v = 6 -> <<jpeg_fdct_12x6_rows, jpeg_fdct_12x6_columns>>
      [] h = 10 /\ v = 5 -> <<jpeg_fdct_10x5_rows, jpeg_fdct_10x5_columns>>
      [] h = 8 /\ v = 4 -> <<jpeg_fdct_8x4_rows, jpeg_fdct_8x4_columns>>
      [] h = 6 /\ v = 3 -> <<jpeg_fdct_6x3_rows, jpeg_fdct_6x3_columns>>
      [] h = 4 /\ v = 2 -> <<jpeg_fdct_4x2_rows, jpeg_fdct_4x2_columns>>
      [] h = 2 /\ v = 1 -> <<jpeg_fdct_2x1_rows, jpeg_fdct_2x1_columns>>
      [] h = 8 /\ v = 16 -> <<jpeg_fdct_8x16_rows, jpeg_fdct_8x16_columns>>
      [] h = 7 /\ v = 14 -> <<jpeg_fdct_7x14_rows, jpeg_fdct_7x14_columns>>
      [] h = 6 /\ v = 12 -> <<jpeg_fdct_6x12_rows, jpeg_fdct_6x12_columns>>
      [] h = 5 /\ v = 10 -> <<jpeg_fdct_5x10_rows, jpeg_fdct_5x10_columns>>
      [] h = 4 /\ v = 8 -> <<jpeg_fdct_4x8_rows, jpeg_fdct_4x8_columns>>
      [] h = 3 /\ v = 6 -> <<jpeg_fdct_3x6_rows, jpeg_fdct_3x6_columns>>
      [] h = 2 /\ v = 4 -> <<jpeg_fdct_2x4_rows, jpeg_fdct_2x4_columns>>
      [] h = 1 /\ v = 2 -> <<jpeg_fdct_1x2_rows, jpeg_fdct_1x2_columns>>
=============================================================================
