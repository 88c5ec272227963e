---------------------------- MODULE CameraColours ----------------------------
(***************************************************************************)
(* The colours of a photo: a preview frame, one byte of luma per pixel and *)
(* one pair of V and U per 2x2 pixels, becomes RGB in NativeSavingTask.c   *)
(* and then, line by line, the YCbCr that libjpeg encodes (jccolor.c).     *)
(***************************************************************************)
EXTENDS Integers, Sequences

CONSTANT Frames         \* records [width, height, bytes], bytes indexed from 0

ASSUME FramesAssumption ==
    \A f \in Frames :
        /\ f.width \in Nat \ {0} /\ f.width % 2 = 0
        /\ f.height \in Nat \ {0} /\ f.height % 2 = 0
        /\ f.bytes \in [0..((3 * f.width * f.height) \div 2 - 1) -> 0..255]

VARIABLES
    p_yuv,              \* the frame
    uvp,                \* index of the next pair of V and U
    v, u,               \* the pair in use
    p_rgb,              \* the pixels converted so far
    ycc                 \* the lines converted so far, as one sequence

colour_vars == <<p_yuv, uvp, v, u, p_rgb, ycc>>

frameSize == p_yuv.width * p_yuv.height

ColourStart == uvp = 0 /\ v = 0 /\ u = 0 /\ p_rgb = <<>> /\ ycc = <<>>
ColourInit == p_yuv \in Frames /\ ColourStart

(* Mutant: a channel that is too large wraps around.                        *)
Channel_Wraps(scaled) == (IF scaled < 0 THEN 0 ELSE scaled \div 1024) % 256

(* A channel scaled by 1024, limited to 18 bits and shifted to 8.           *)
Channel(scaled) == (IF scaled < 0 THEN 0 ELSE IF scaled > 262143 THEN 262143 ELSE scaled) \div 1024

ToRgb(y, vv, uu) ==
    <<Channel(1192 * y + 1634 * vv), Channel(1192 * y - 833 * vv - 400 * uu), Channel(1192 * y + 2066 * uu)>>

(* One pixel of YUV420P_2_RGB888; every second one takes the next pair.     *)
ConvertPixel ==
    /\ Len(p_rgb) < frameSize
    /\ LET i == Len(p_rgb) % p_yuv.width
           j == Len(p_rgb) \div p_yuv.width
           luma == p_yuv.bytes[Len(p_rgb)] - 16
           pair == IF i = 0 THEN frameSize + (j \div 2) * p_yuv.width ELSE uvp
       IN  /\ IF i % 2 = 0
              THEN /\ v' = p_yuv.bytes[pair] - 128
                   /\ u' = p_yuv.bytes[pair + 1] - 128
                   /\ uvp' = pair + 2
              ELSE UNCHANGED <<v, u, uvp>>
           /\ p_rgb' = Append(p_rgb, ToRgb(IF luma < 0 THEN 0 ELSE luma, v', u'))
    /\ UNCHANGED <<p_yuv, ycc>>

SCALEBITS == 65536
ONE_HALF == SCALEBITS \div 2
CBCR_OFFSET == 128 * SCALEBITS

(* FIX(0.299) and so on, with the rounding of rgb_ycc_start.                *)
ToYcc(rgb) ==
    LET sum(r, g, b, rest) == (r * rgb[1] + g * rgb[2] + b * rgb[3] + rest) \div SCALEBITS
    IN  <<sum(19595, 38470, 7471, ONE_HALF),
          sum(-11059, -21709, 32768, CBCR_OFFSET + ONE_HALF - 1),
          sum(32768, -27439, -5329, CBCR_OFFSET + ONE_HALF - 1)>>

(* jpeg_write_scanlines converts the finished frame line by line.           *)
rgb_ycc_convert ==
    /\ Len(p_rgb) = frameSize
    /\ Len(ycc) < frameSize
    /\ ycc' = ycc \o [col \in 1..p_yuv.width |-> ToYcc(p_rgb[Len(ycc) + col])]
    /\ UNCHANGED <<p_yuv, uvp, v, u, p_rgb>>

ColourNext == ConvertPixel \/ rgb_ycc_convert

ColourSpec == ColourInit /\ [][ColourNext]_colour_vars

-----------------------------------------------------------------------------
(* The reference: BT.601 in millionths, limited to a byte, then the JFIF    *)
(* equations in thousandths.                                                *)

Limited(micro) == (IF micro < 0 THEN 0 ELSE IF micro > 255000000 THEN 255000000 ELSE micro) \div 1000

ExactYcc(y, vv, uu) ==
    LET r == Limited(1164383 * y + 1596027 * vv)
        g == Limited(1164383 * y - 812968 * vv - 391762 * uu)
        b == Limited(1164383 * y + 2017232 * uu)
    IN  <<(299 * r + 587 * g + 114 * b) \div 1000,
          128000 + (-1687 * r - 3313 * g + 5000 * b) \div 10000,
          128000 + (5000 * r - 4187 * g - 813 * b) \div 10000>>

(* Of pixel p, counted from 1: its luma above the footroom, the place of    *)
(* the V and U of its 2x2 block, and these two.                             *)
LumaOf(p) == IF p_yuv.bytes[p - 1] < 16 THEN 0 ELSE p_yuv.bytes[p - 1] - 16
PairOf(p) ==
    LET x == (p - 1) % p_yuv.width
        y == (p - 1) \div p_yuv.width
    IN  frameSize + (y \div 2) * p_yuv.width + 2 * (x \div 2)
VOf(p) == p_yuv.bytes[PairOf(p)] - 128
UOf(p) == p_yuv.bytes[PairOf(p) + 1] - 128

Within2(level, exact) == level * 1000 - exact \in -2000..2000

(* Every pixel that reaches the encoder has the colour of its own luma and  *)
(* of the chroma of its own 2x2 block, within 2 of 255 in each component,   *)
(* saturated where RGB cannot hold it (NativeSavingTask.c, jccolor.c).      *)
ColoursKept ==
    \A p \in 1..Len(ycc) :
        LET exact == ExactYcc(LumaOf(p), VOf(p), UOf(p))
        IN  \A c \in 1..3 : Within2(ycc[p][c], exact[c])

-----------------------------------------------------------------------------
(* The inductive invariant behind ColoursKept.                              *)

Byte == 0..255

ColourTypes ==
    /\ p_yuv \in Frames
    /\ p_rgb \in Seq(Byte \X Byte \X Byte) /\ Len(p_rgb) <= frameSize
    /\ ycc \in Seq(Int \X Int \X Int)

(* v, u and uvp, which go from pixel to pixel, belong to the block of the   *)
(* last pixel, although only every second pixel moves them.                 *)
PairInv ==
    p_rgb # <<>> =>
        LET last == Len(p_rgb)
        IN  uvp = PairOf(last) + 2 /\ v = VOf(last) /\ u = UOf(last)

RgbInv == \A p \in 1..Len(p_rgb) : p_rgb[p] = ToRgb(LumaOf(p), VOf(p), UOf(p))

(* Whole lines of a finished frame are converted.                           *)
LineInv ==
    /\ ycc # <<>> => Len(p_rgb) = frameSize
    /\ \E lines \in 0..p_yuv.height : Len(ycc) = lines * p_yuv.width
    /\ \A p \in 1..Len(ycc) : ycc[p] = ToYcc(p_rgb[p])

ColourInv == ColourTypes /\ PairInv /\ RgbInv /\ LineInv
=============================================================================
