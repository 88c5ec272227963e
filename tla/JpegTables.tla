----------------------------- MODULE JpegTables -----------------------------
(***************************************************************************)
(* The constant tables of libjpeg: the orders of the coefficients (jutils.c*)
(* and jdhuff.c), the standard quantization tables with the quality scale, *)
(* and the standard Huffman tables (jcparam.c).  A block has DCTSIZE2      *)
(* coefficients in natural order 0..63: 8 * row + column.                  *)
(***************************************************************************)
EXTENDS Integers, Sequences, FiniteSets

DCTSIZE2 == 64

(* The zigzag walks the diagonals of an n x n block, the odd ones downwards *)
(* and the even ones upwards.                                               *)
Before(p, q) ==
    \/ p[1] + p[2] < q[1] + q[2]
    \/ /\ p[1] + p[2] = q[1] + q[2]
       /\ IF (p[1] + p[2]) % 2 = 1 THEN p[1] < q[1] ELSE p[1] > q[1]

(* jpeg_zigzag_orderN: the zigzag index of the coefficient in (row, column). *)
jpeg_zigzag_order ==
    [n \in 1..8 |-> [p \in (0..(n - 1)) \X (0..(n - 1)) |->
        Cardinality({q \in (0..(n - 1)) \X (0..(n - 1)) : Before(q, p)})]]

(* jpeg_natural_orderN: the inverse, with 16 extra entries 63 for a decoder *)
(* whose zero run leaves the block.                                         *)
jpeg_natural_order ==
    [n \in 1..8 |-> [k \in 0..(n * n + 15) |->
        IF k < n * n
        THEN LET p == CHOOSE p \in DOMAIN jpeg_zigzag_order[n] : jpeg_zigzag_order[n][p] = k
             IN  8 * p[1] + p[2]
        ELSE 63]]

-----------------------------------------------------------------------------
(* Quantization.                                                           *)

std_luminance_quant_tbl == <<
    16, 11, 10, 16, 24, 40, 51, 61,
    12, 12, 14, 19, 26, 58, 60, 55,
    14, 13, 16, 24, 40, 57, 69, 56,
    14, 17, 22, 29, 51, 87, 80, 62,
    18, 22, 37, 56, 68, 109, 103, 77,
    24, 35, 55, 64, 81, 104, 113, 92,
    49, 64, 78, 87, 103, 121, 120, 101,
    72, 92, 95, 98, 112, 100, 103, 99 >>

std_chrominance_quant_tbl == <<
    17, 18, 24, 47, 99, 99, 99, 99,
    18, 21, 26, 66, 99, 99, 99, 99,
    24, 26, 56, 99, 99, 99, 99, 99,
    47, 66, 99, 99, 99, 99, 99, 99,
    99, 99, 99, 99, 99, 99, 99, 99,
    99, 99, 99, 99, 99, 99, 99, 99,
    99, 99, 99, 99, 99, 99, 99, 99,
    99, 99, 99, 99, 99, 99, 99, 99 >>

(* The quality rating as a percentage: 50 takes the tables as they are.     *)
jpeg_quality_scaling(quality) ==
    LET q == IF quality <= 0 THEN 1 ELSE IF quality > 100 THEN 100 ELSE quality
    IN  IF q < 50 THEN 5000 \div q ELSE 200 - q * 2

(* A scaled table, as function of the natural order.                        *)
jpeg_add_quant_table(basic_table, scale_factor, force_baseline) ==
    LET limit == IF force_baseline THEN 255 ELSE 32767
        scaled(i) == (basic_table[i + 1] * scale_factor + 50) \div 100
    IN  [i \in 0..(DCTSIZE2 - 1) |->
            IF scaled(i) <= 0 THEN 1 ELSE IF scaled(i) > limit THEN limit ELSE scaled(i)]

(* Table 0 quantizes the luminance, table 1 the chrominance.                *)
jpeg_set_quality(quality, force_baseline) ==
    [t \in 0..1 |->
        jpeg_add_quant_table(
            IF t = 0 THEN std_luminance_quant_tbl ELSE std_chrominance_quant_tbl,
            jpeg_quality_scaling(quality), force_baseline)]

-----------------------------------------------------------------------------
(* The standard Huffman tables: bits[l] codes of length l, and the symbols *)
(* in the order of their codes.                                            *)

DcLuminance == [bits |-> <<0, 1, 5, 1, 1, 1, 1, 1, 1, 0, 0, 0, 0, 0, 0, 0>>,
  huffval |-> <<
    0, 1, 2, 3, 4, 5, 6, 7, 8, 9, 10, 11 >>]

DcChrominance == [bits |-> <<0, 3, 1, 1, 1, 1, 1, 1, 1, 1, 1, 0, 0, 0, 0, 0>>,
  huffval |-> <<
    0, 1, 2, 3, 4, 5, 6, 7, 8, 9, 10, 11 >>]

AcLuminance == [bits |-> <<0, 2, 1, 3, 3, 2, 4, 3, 5, 5, 4, 4, 0, 0, 1, 125>>,
  huffval |-> <<
    1, 2, 3, 0, 4, 17, 5, 18, 33, 49, 65, 6, 19, 81, 97, 7, 34, 113,
    20, 50, 129, 145, 161, 8, 35, 66, 177, 193, 21, 82, 209, 240, 36, 51, 98, 114,
    130, 9, 10, 22, 23, 24, 25, 26, 37, 38, 39, 40, 41, 42, 52, 53, 54, 55,
    56, 57, 58, 67, 68, 69, 70, 71, 72, 73, 74, 83, 84, 85, 86, 87, 88, 89,
    90, 99, 100, 101, 102, 103, 104, 105, 106, 115, 116, 117, 118, 119, 120, 121, 122, 131,
    132, 133, 134, 135, 136, 137, 138, 146, 147, 148, 149, 150, 151, 152, 153, 154, 162, 163,
    164, 165, 166, 167, 168, 169, 170, 178, 179, 180, 181, 182, 183, 184, 185, 186, 194, 195,
    196, 197, 198, 199, 200, 201, 202, 210, 211, 212, 213, 214, 215, 216, 217, 218, 225, 226,
    227, 228, 229, 230, 231, 232, 233, 234, 241, 242, 243, 244, 245, 246, 247, 248, 249, 250 >>]

AcChrominance == [bits |-> <<0, 2, 1, 2, 4, 4, 3, 4, 7, 5, 4, 4, 0, 1, 2, 119>>,
  huffval |-> <<
    0, 1, 2, 3, 17, 4, 5, 33, 49, 6, 18, 65, 81, 7, 97, 113, 19, 34,
    50, 129, 8, 20, 66, 145, 161, 177, 193, 9, 35, 51, 82, 240, 21, 98, 114, 209,
    10, 22, 36, 52, 225, 37, 241, 23, 24, 25, 26, 38, 39, 40, 41, 42, 53, 54,
    55, 56, 57, 58, 67, 68, 69, 70, 71, 72, 73, 74, 83, 84, 85, 86, 87, 88,
    89, 90, 99, 100, 101, 102, 103, 104, 105, 106, 115, 116, 117, 118, 119, 120, 121, 122,
    130, 131, 132, 133, 134, 135, 136, 137, 138, 146, 147, 148, 149, 150, 151, 152, 153, 154,
    162, 163, 164, 165, 166, 167, 168, 169, 170, 178, 179, 180, 181, 182, 183, 184, 185, 186,
    194, 195, 196, 197, 198, 199, 200, 201, 202, 210, 211, 212, 213, 214, 215, 216, 217, 218,
    226, 227, 228, 229, 230, 231, 232, 233, 234, 242, 243, 244, 245, 246, 247, 248, 249, 250 >>]

std_huff_tables == [dc |-> [t \in 0..1 |-> IF t = 0 THEN DcLuminance ELSE DcChrominance],
                    ac |-> [t \in 0..1 |-> IF t = 0 THEN AcLuminance ELSE AcChrominance]]
=============================================================================
