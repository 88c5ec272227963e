--------------------------- MODULE JpegParameters ---------------------------
(***************************************************************************)
(* What libjpeg makes of its compression parameters: the components of a   *)
(* colour space and the progressive scan script (jcparam.c), the           *)
(* dimensions of the image and of every component, the check of a scan     *)
(* script and the layout of a scan (jcmaster.c).                           *)
(*                                                                         *)
(* Parameters p: [image_width, image_height, scale_num, scale_denom,       *)
(* block_size, do_fancy_downsampling, smoothing_factor, optimize_coding,   *)
(* restart_interval, restart_in_rows, comps, write_JFIF_header,            *)
(* write_Adobe_marker, script]; a script without scans stands for          *)
(* scan_info = NULL.                                                       *)
(***************************************************************************)
EXTENDS Integers, Sequences, FiniteSets

MAX_COMPONENTS == 10
MAX_COMPS_IN_SCAN == 4
MAX_SAMP_FACTOR == 4
C_MAX_BLOCKS_IN_MCU == 10
JPEG_MAX_DIMENSION == 65500
MAX_AH_AL == 10

jdiv_round_up(a, b) == (a + b - 1) \div b
jround_up(a, b) == jdiv_round_up(a, b) * b

SmallestOf(S) == CHOOSE n \in S : \A k \in S : n <= k
LargestOf(S) == CHOOSE n \in S : \A k \in S : n >= k

-----------------------------------------------------------------------------
(* Colour spaces.                                                          *)

SET_COMP(id, hsamp, vsamp, quant, dctbl, actbl) ==
    [component_id |-> id, h_samp_factor |-> hsamp, v_samp_factor |-> vsamp,
     quant_tbl_no |-> quant, dc_tbl_no |-> dctbl, ac_tbl_no |-> actbl]

Full(id) == SET_COMP(id, 1, 1, 0, 0, 0)
Luma(id) == SET_COMP(id, 2, 2, 0, 0, 0)
Chroma(id) == SET_COMP(id, 1, 1, 1, 1, 1)

jpeg_set_colorspace(colorspace, input_components) ==
    CASE colorspace = "GRAYSCALE" -> <<Full(1)>>
      [] colorspace = "RGB" -> <<Full(82), Full(71), Full(66)>>
      [] colorspace = "YCbCr" -> <<Luma(1), Chroma(2), Chroma(3)>>
      [] colorspace = "CMYK" -> <<Full(67), Full(77), Full(89), Full(75)>>
      [] colorspace = "YCCK" -> <<Luma(1), Chroma(2), Chroma(3), Luma(4)>>
      [] colorspace = "UNKNOWN" -> [ci \in 1..input_components |-> Full(ci - 1)]

WritesJfif(colorspace) == colorspace \in {"GRAYSCALE", "YCbCr"}
WritesAdobe(colorspace) == colorspace \in {"RGB", "CMYK", "YCCK"}

jpeg_default_colorspace(in_color_space) ==
    IF in_color_space = "RGB" THEN "YCbCr" ELSE in_color_space

jpeg_set_defaults(width, height, input_components, in_color_space) ==
    LET colorspace == jpeg_default_colorspace(in_color_space)
    IN  [image_width |-> width, image_height |-> height, scale_num |-> 1, scale_denom |-> 1,
         block_size |-> 8, do_fancy_downsampling |-> TRUE, smoothing_factor |-> 0,
         optimize_coding |-> FALSE, restart_interval |-> 0, restart_in_rows |-> 0,
         comps |-> jpeg_set_colorspace(colorspace, input_components),
         write_JFIF_header |-> WritesJfif(colorspace), write_Adobe_marker |-> WritesAdobe(colorspace),
         script |-> <<>>]

-----------------------------------------------------------------------------
(* Scan scripts.  A scan names its components by their index from 1.       *)

Scan(comps, Ss, Se, Ah, Al) == [comps |-> comps, Ss |-> Ss, Se |-> Se, Ah |-> Ah, Al |-> Al]

fill_a_scan(ci, Ss, Se, Ah, Al) == <<Scan(<<ci>>, Ss, Se, Ah, Al)>>

fill_scans(ncomps, Ss, Se, Ah, Al) == [ci \in 1..ncomps |-> Scan(<<ci>>, Ss, Se, Ah, Al)]

fill_dc_scans(ncomps, Ah, Al) ==
    IF ncomps <= MAX_COMPS_IN_SCAN THEN <<Scan([ci \in 1..ncomps |-> ci], 0, 0, Ah, Al)>>
    ELSE fill_scans(ncomps, 0, 0, Ah, Al)

(* The number of scans that jpeg_simple_progression allots space for.       *)
ScansAllotted(ncomps, colorspace) ==
    IF ncomps = 3 /\ colorspace = "YCbCr" THEN 10
    ELSE IF ncomps > MAX_COMPS_IN_SCAN THEN 6 * ncomps ELSE 2 + 4 * ncomps

jpeg_simple_progression(ncomps, colorspace) ==
    IF ncomps = 3 /\ colorspace = "YCbCr"
    THEN fill_dc_scans(ncomps, 0, 1) \o fill_a_scan(1, 1, 5, 0, 2)
            \o fill_a_scan(3, 1, 63, 0, 1) \o fill_a_scan(2, 1, 63, 0, 1)
            \o fill_a_scan(1, 6, 63, 0, 2) \o fill_a_scan(1, 1, 63, 2, 1)
            \o fill_dc_scans(ncomps, 1, 0)
            \o fill_a_scan(3, 1, 63, 1, 0) \o fill_a_scan(2, 1, 63, 1, 0)
            \o fill_a_scan(1, 1, 63, 1, 0)
    ELSE fill_dc_scans(ncomps, 0, 1)
            \o fill_scans(ncomps, 1, 5, 0, 2) \o fill_scans(ncomps, 6, 63, 0, 2)
            \o fill_scans(ncomps, 1, 63, 2, 1)
            \o fill_dc_scans(ncomps, 1, 0) \o fill_scans(ncomps, 1, 63, 1, 0)

ProgressiveScript(script) == script # <<>> /\ (script[1].Ss # 0 \/ script[1].Se # 63)

ComponentsOf(scan) == {scan.comps[i] : i \in DOMAIN scan.comps}

(* The scans up to n that send coefficient k of component ci, and the bit   *)
(* position the last of them stops at.                                      *)
SentBy(script, n, ci, k) ==
    {i \in 1..n : ci \in ComponentsOf(script[i]) /\ k \in script[i].Ss..script[i].Se}

last_bitpos(script, n, ci, k) ==
    IF SentBy(script, n, ci, k) = {} THEN -1 ELSE script[LargestOf(SentBy(script, n, ci, k))].Al

ValidComponents(scan, num_components) ==
    /\ Len(scan.comps) \in 1..MAX_COMPS_IN_SCAN
    /\ \A i \in DOMAIN scan.comps : scan.comps[i] \in 1..num_components
    /\ \A i \in 2..Len(scan.comps) : scan.comps[i] > scan.comps[i - 1]

ValidProgression(script, n) ==
    LET scan == script[n]
    IN  /\ 0 <= scan.Ss /\ scan.Ss <= scan.Se /\ scan.Se <= 63
        /\ scan.Ah \in 0..MAX_AH_AL /\ scan.Al \in 0..MAX_AH_AL
        /\ IF scan.Ss = 0 THEN scan.Se = 0 ELSE Len(scan.comps) = 1
        /\ \A ci \in ComponentsOf(scan) :
            /\ scan.Ss # 0 => last_bitpos(script, n - 1, ci, 0) >= 0
            /\ \A k \in scan.Ss..scan.Se :
                IF last_bitpos(script, n - 1, ci, k) < 0 THEN scan.Ah = 0
                ELSE scan.Ah = last_bitpos(script, n - 1, ci, k) /\ scan.Al = scan.Ah - 1

ValidSequential(script, n) ==
    LET scan == script[n]
    IN  /\ scan.Ss = 0 /\ scan.Se = 63 /\ scan.Ah = 0 /\ scan.Al = 0
        /\ \A ci \in ComponentsOf(scan) : SentBy(script, n - 1, ci, 0) = {}

validate_script(script, num_components) ==
    /\ Len(script) > 0
    /\ \A n \in DOMAIN script :
        /\ ValidComponents(script[n], num_components)
        /\ IF ProgressiveScript(script) THEN ValidProgression(script, n)
           ELSE ValidSequential(script, n)
    /\ \A ci \in 1..num_components : SentBy(script, Len(script), ci, 0) # {}

(* Mutant: a scan that crosses the end goes as a whole.                     *)
reduce_script_Whole(script, lim_Se) == SelectSeq(script, LAMBDA scan : scan.Se <= lim_Se)

(* Scans beyond the end of a small block go, the others stop at it.         *)
reduce_script(script, lim_Se) ==
    LET kept == SelectSeq(script, LAMBDA scan : scan.Ss <= lim_Se)
    IN  [n \in DOMAIN kept |->
            [kept[n] EXCEPT !.Se = IF @ > lim_Se THEN lim_Se ELSE @]]

-----------------------------------------------------------------------------
(* Dimensions.                                                             *)

(* The smallest transform of scale n, 1..16, that is large enough.          *)
min_DCT_scaled_size(p) ==
    SmallestOf({n \in 1..16 : p.scale_num * n >= p.scale_denom * p.block_size} \cup {16})

jpeg_calc_jpeg_dimensions(p) ==
    <<jdiv_round_up(p.image_width * p.block_size, min_DCT_scaled_size(p)),
      jdiv_round_up(p.image_height * p.block_size, min_DCT_scaled_size(p))>>

MaxSampling(comps, factor) == LargestOf({comps[ci][factor] : ci \in DOMAIN comps} \cup {1})

(* A component that is subsampled by a power of 2 is scaled by its DCT as   *)
(* long as the transform does not grow beyond 16 points.                    *)
ssize(p, samp_factor, max_samp_factor) ==
    LET largest == IF p.do_fancy_downsampling THEN 8 ELSE 4
        grows(n) == min_DCT_scaled_size(p) * n <= largest /\ max_samp_factor % (samp_factor * n * 2) = 0
    IN  SmallestOf({n \in {1, 2, 4, 8, 16} : ~grows(n)})

AtMostTwice(a, b) == IF a > b * 2 THEN b * 2 ELSE a

(* What initial_setup computes of component ci.                             *)
ComponentSetup(p, ci) ==
    LET comp == p.comps[ci]
        max_h == MaxSampling(p.comps, "h_samp_factor")
        max_v == MaxSampling(p.comps, "v_samp_factor")
        h == min_DCT_scaled_size(p) * ssize(p, comp.h_samp_factor, max_h)
        v == min_DCT_scaled_size(p) * ssize(p, comp.v_samp_factor, max_v)
        jpeg == jpeg_calc_jpeg_dimensions(p)
    IN  [component_id |-> comp.component_id, quant_tbl_no |-> comp.quant_tbl_no,
         dc_tbl_no |-> comp.dc_tbl_no, ac_tbl_no |-> comp.ac_tbl_no,
         h_samp_factor |-> comp.h_samp_factor, v_samp_factor |-> comp.v_samp_factor,
         DCT_h_scaled_size |-> AtMostTwice(h, v), DCT_v_scaled_size |-> AtMostTwice(v, h),
         width_in_blocks |-> jdiv_round_up(jpeg[1] * comp.h_samp_factor, max_h * p.block_size),
         height_in_blocks |-> jdiv_round_up(jpeg[2] * comp.v_samp_factor, max_v * p.block_size)]

(* The errors of initial_setup.                                             *)
SetupError(p) ==
    \/ p.block_size \notin 1..16
    \/ jpeg_calc_jpeg_dimensions(p)[1] \notin 1..JPEG_MAX_DIMENSION
    \/ jpeg_calc_jpeg_dimensions(p)[2] \notin 1..JPEG_MAX_DIMENSION
    \/ Len(p.comps) \notin 1..MAX_COMPONENTS
    \/ \E ci \in DOMAIN p.comps : \/ p.comps[ci].h_samp_factor \notin 1..MAX_SAMP_FACTOR
                                  \/ p.comps[ci].v_samp_factor \notin 1..MAX_SAMP_FACTOR
    \/ p.script # <<>> /\ ~validate_script(p.script, Len(p.comps))

initial_setup(p) ==
    LET lim_Se == IF p.block_size < 8 THEN p.block_size * p.block_size - 1 ELSE 63
        max_v == MaxSampling(p.comps, "v_samp_factor")
        progressive == ProgressiveScript(p.script)
    IN  [jpeg |-> jpeg_calc_jpeg_dimensions(p),
         min_DCT |-> min_DCT_scaled_size(p),
         lim_Se |-> lim_Se,
         max_h |-> MaxSampling(p.comps, "h_samp_factor"),
         max_v |-> max_v,
         comps |-> [ci \in DOMAIN p.comps |-> ComponentSetup(p, ci)],
         total_iMCU_rows |-> jdiv_round_up(jpeg_calc_jpeg_dimensions(p)[2], max_v * p.block_size),
         progressive_mode |-> progressive,
         script |-> IF p.block_size < 8 THEN reduce_script(p.script, lim_Se) ELSE p.script,
         optimize_coding |-> p.optimize_coding \/ progressive \/ p.block_size < 8]

-----------------------------------------------------------------------------
(* The layout of a scan of the image d = initial_setup(p).                 *)

(* What remains of n blocks in the last MCU of width or height size.        *)
LastPart(n, size) == IF n % size = 0 THEN size ELSE n % size

MaxMcuBlocks(d, scan) ==
    LET blocks == {<<i, y, x>> \in (1..Len(scan.comps)) \X (1..4) \X (1..4) :
                        /\ y <= d.comps[scan.comps[i]].v_samp_factor
                        /\ x <= d.comps[scan.comps[i]].h_samp_factor}
    IN  IF Len(scan.comps) = 1 THEN 1 ELSE Cardinality(blocks)

per_scan_setup(p, d, scan) ==
    LET single == Len(scan.comps) = 1
        comp == d.comps[scan.comps[1]]
        across == IF single THEN comp.width_in_blocks ELSE jdiv_round_up(d.jpeg[1], d.max_h * p.block_size)
        nominal == p.restart_in_rows * across
    IN  [MCUs_per_row |-> across,
         MCU_rows_in_scan |-> IF single THEN comp.height_in_blocks ELSE d.total_iMCU_rows,
         MCU |-> [i \in DOMAIN scan.comps |->
            LET c == d.comps[scan.comps[i]]
            IN  IF single
                THEN [width |-> 1, height |-> 1, last_col_width |-> 1,
                      last_row_height |-> LastPart(c.height_in_blocks, c.v_samp_factor)]
                ELSE [width |-> c.h_samp_factor, height |-> c.v_samp_factor,
                      last_col_width |-> LastPart(c.width_in_blocks, c.h_samp_factor),
                      last_row_height |-> LastPart(c.height_in_blocks, c.v_samp_factor)]],
         restart_interval |-> IF p.restart_in_rows = 0 THEN p.restart_interval
                              ELSE IF nominal > 65535 THEN 65535 ELSE nominal,
         too_large |-> Len(scan.comps) > MAX_COMPS_IN_SCAN \/ MaxMcuBlocks(d, scan) > C_MAX_BLOCKS_IN_MCU]

(* The scan of a given number: from the script, or all components at once.  *)
select_scan_parameters(p, d, n) ==
    LET all == Scan([ci \in DOMAIN d.comps |-> ci], 0, p.block_size * p.block_size - 1, 0, 0)
    IN  IF p.script = <<>> THEN all
        ELSE IF d.progressive_mode THEN d.script[n + 1]
        ELSE [all EXCEPT !.comps = d.script[n + 1].comps]
=============================================================================
