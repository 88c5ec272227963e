------------------------ MODULE CameraColours_proofs ------------------------
(***************************************************************************)
(* The colours of every frame of every even size stay within 2 of 255 in   *)
(* each component, whatever its bytes are.                                 *)
(***************************************************************************)
EXTENDS CameraColours, SequenceTheorems, TLAPS

-----------------------------------------------------------------------------
(* Arithmetic.                                                              *)

(* If a channel scaled by 1024 and one in millionths differ by 0.3 of 255   *)
(* levels at most, so do they, limited and rounded, by 1.3.                 *)
LEMMA ChannelClose ==
    ASSUME NEW s \in Int, NEW m \in Int,
           1024 * m - 1000000 * s >= -300000000,
           1024 * m - 1000000 * s <= 300000000
    PROVE  /\ Channel(s) \in Byte
           /\ Limited(m) \in Int
           /\ 1000 * Channel(s) - Limited(m) >= -1300
           /\ 1000 * Channel(s) - Limited(m) <= 300
  BY SMTT(60) DEF Channel, Limited, Byte

(* Three channels within 1.3 give luma and chroma within 2.                 *)
LEMMA YccClose ==
    ASSUME NEW r \in Int, NEW g \in Int, NEW b \in Int,
           NEW rgb \in Byte \X Byte \X Byte,
           1000 * rgb[1] - r >= -1300, 1000 * rgb[1] - r <= 300,
           1000 * rgb[2] - g >= -1300, 1000 * rgb[2] - g <= 300,
           1000 * rgb[3] - b >= -1300, 1000 * rgb[3] - b <= 300,
           NEW exact,
           exact = <<(299 * r + 587 * g + 114 * b) \div 1000,
                     128000 + (-1687 * r - 3313 * g + 5000 * b) \div 10000,
                     128000 + (5000 * r - 4187 * g - 813 * b) \div 10000>>
    PROVE  /\ ToYcc(rgb) \in Int \X Int \X Int
           /\ \A c \in 1..3 : Within2(ToYcc(rgb)[c], exact[c])
  <1> DEFINE R == rgb[1]
             G == rgb[2]
             B == rgb[3]
             SumY == 19595 * R + 38470 * G + 7471 * B + 32768
             SumCb == -11059 * R + -21709 * G + 32768 * B + 8421375
             SumCr == 32768 * R + -27439 * G + -5329 * B + 8421375
             Y == SumY \div 65536
             Cb == SumCb \div 65536
             Cr == SumCr \div 65536
             PartsY == 299 * r + 587 * g + 114 * b
             PartsCb == -1687 * r - 3313 * g + 5000 * b
             PartsCr == 5000 * r - 4187 * g - 813 * b
             ExactY == PartsY \div 1000
             ExactCb == 128000 + PartsCb \div 10000
             ExactCr == 128000 + PartsCr \div 10000
  <1>1. R \in Byte /\ G \in Byte /\ B \in Byte
    BY SMT
  <1>2. ToYcc(rgb) = <<Y, Cb, Cr>>
    BY <1>1, SMT DEF ToYcc, SCALEBITS, ONE_HALF, CBCR_OFFSET, Byte
  <1>3. /\ 1000 * R - r >= -1300 /\ 1000 * R - r <= 300
        /\ 1000 * G - g >= -1300 /\ 1000 * G - g <= 300
        /\ 1000 * B - b >= -1300 /\ 1000 * B - b <= 300
    BY SMT
  <1>4. exact = <<ExactY, ExactCb, ExactCr>>
    BY SMT
  <1>5. /\ R \in Int /\ R >= 0 /\ R <= 255
        /\ G \in Int /\ G >= 0 /\ G <= 255
        /\ B \in Int /\ B >= 0 /\ B <= 255
    BY <1>1, SMT DEF Byte
  <1> HIDE DEF R, G, B
  <1>6. Y \in Int /\ Within2(Y, ExactY)
    <2>1. /\ SumY \in Int /\ PartsY \in Int
          /\ 10000000 * SumY - 655360 * PartsY >= -654704640000
          /\ 10000000 * SumY - 655360 * PartsY <= 1310064640000
      BY <1>5, <1>3, SMTT(30)
    <2> HIDE DEF SumY, PartsY
    <2> QED
      BY <2>1, SMTT(30) DEF Within2
  <1>7. Cb \in Int /\ Within2(Cb, ExactCb)
    <2>1. /\ SumCb \in Int /\ PartsCb \in Int
          /\ 10000000 * SumCb - 65536 * PartsCb - 83886080000000 >= -654704640000
          /\ 10000000 * SumCb - 65536 * PartsCb - 83886080000000 <= 1310064640000
      BY <1>5, <1>3, SMTT(30)
    <2> HIDE DEF SumCb, PartsCb
    <2> QED
      BY <2>1, SMTT(30) DEF Within2
  <1>8. Cr \in Int /\ Within2(Cr, ExactCr)
    <2>1. /\ SumCr \in Int /\ PartsCr \in Int
          /\ 10000000 * SumCr - 65536 * PartsCr - 83886080000000 >= -654704640000
          /\ 10000000 * SumCr - 65536 * PartsCr - 83886080000000 <= 1310064640000
      BY <1>5, <1>3, SMTT(30)
    <2> HIDE DEF SumCr, PartsCr
    <2> QED
      BY <2>1, SMTT(30) DEF Within2
  <1> HIDE DEF Y, Cb, Cr, ExactY, ExactCb, ExactCr
  <1>9. /\ ToYcc(rgb) \in Int \X Int \X Int
        /\ ToYcc(rgb)[1] = Y /\ ToYcc(rgb)[2] = Cb /\ ToYcc(rgb)[3] = Cr
    BY <1>2, <1>6, <1>7, <1>8, SMT
  <1>10. exact[1] = ExactY /\ exact[2] = ExactCb /\ exact[3] = ExactCr
    BY <1>4, SMT
  <1>11. ASSUME NEW c \in 1..3
         PROVE  Within2(ToYcc(rgb)[c], exact[c])
    <2>1. c = 1 \/ c = 2 \/ c = 3
      BY SMT
    <2> QED
      BY <1>6, <1>7, <1>8, <1>9, <1>10, <2>1
  <1> QED
    BY <1>9, <1>11

(* Luma and chroma made from bytes come out within 2 of the exact ones,     *)
(* because each channel of ToRgb is within 1.3 of BT.601.                   *)
LEMMA ColourClose ==
    ASSUME NEW y \in Int, NEW vv \in Int, NEW uu \in Int,
           y >= 0, y <= 239, vv >= -128, vv <= 127, uu >= -128, uu <= 127
    PROVE  \A c \in 1..3 : Within2(ToYcc(ToRgb(y, vv, uu))[c], ExactYcc(y, vv, uu)[c])
  <1> DEFINE R == 1192 * y + 1634 * vv
             G == 1192 * y - 833 * vv - 400 * uu
             B == 1192 * y + 2066 * uu
             ExactR == 1164383 * y + 1596027 * vv
             ExactG == 1164383 * y - 812968 * vv - 391762 * uu
             ExactB == 1164383 * y + 2017232 * uu
  <1>1. /\ R \in Int /\ ExactR \in Int
        /\ 1024 * ExactR - 1000000 * R >= -300000000
        /\ 1024 * ExactR - 1000000 * R <= 300000000
    BY SMT
  <1>2. /\ G \in Int /\ ExactG \in Int
        /\ 1024 * ExactG - 1000000 * G >= -300000000
        /\ 1024 * ExactG - 1000000 * G <= 300000000
    BY SMT
  <1>3. /\ B \in Int /\ ExactB \in Int
        /\ 1024 * ExactB - 1000000 * B >= -300000000
        /\ 1024 * ExactB - 1000000 * B <= 300000000
    BY SMT
  <1> DEFINE rgb == ToRgb(y, vv, uu)
             exact == ExactYcc(y, vv, uu)
             r == Limited(ExactR)
             g == Limited(ExactG)
             b == Limited(ExactB)
  <1>4. rgb = <<Channel(R), Channel(G), Channel(B)>>
    BY SMT DEF ToRgb
  <1>5. exact = <<(299 * r + 587 * g + 114 * b) \div 1000,
                  128000 + (-1687 * r - 3313 * g + 5000 * b) \div 10000,
                  128000 + (5000 * r - 4187 * g - 813 * b) \div 10000>>
    BY SMT DEF ExactYcc
  <1> HIDE DEF R, G, B, ExactR, ExactG, ExactB, rgb, exact
  <1>6. /\ Channel(R) \in Byte /\ Limited(ExactR) \in Int
        /\ 1000 * Channel(R) - Limited(ExactR) >= -1300
        /\ 1000 * Channel(R) - Limited(ExactR) <= 300
    BY <1>1, ChannelClose, SMT
  <1>7. /\ Channel(G) \in Byte /\ Limited(ExactG) \in Int
        /\ 1000 * Channel(G) - Limited(ExactG) >= -1300
        /\ 1000 * Channel(G) - Limited(ExactG) <= 300
    BY <1>2, ChannelClose, SMT
  <1>8. /\ Channel(B) \in Byte /\ Limited(ExactB) \in Int
        /\ 1000 * Channel(B) - Limited(ExactB) >= -1300
        /\ 1000 * Channel(B) - Limited(ExactB) <= 300
    BY <1>3, ChannelClose, SMT
  <1>9. /\ rgb \in Byte \X Byte \X Byte
        /\ rgb[1] = Channel(R) /\ rgb[2] = Channel(G) /\ rgb[3] = Channel(B)
    BY <1>4, <1>6, <1>7, <1>8, SMT
  <1>10. /\ r \in Int /\ 1000 * rgb[1] - r >= -1300 /\ 1000 * rgb[1] - r <= 300
         /\ g \in Int /\ 1000 * rgb[2] - g >= -1300 /\ 1000 * rgb[2] - g <= 300
         /\ b \in Int /\ 1000 * rgb[3] - b >= -1300 /\ 1000 * rgb[3] - b <= 300
    BY <1>6, <1>7, <1>8, <1>9
  <1> HIDE DEF r, g, b
  <1>11. \A c \in 1..3 : Within2(ToYcc(rgb)[c], exact[c])
    BY <1>9, <1>5, <1>10, YccClose, SMT
  <1> QED
    BY <1>11 DEF rgb, exact

-----------------------------------------------------------------------------
(* The places of luma and chroma.                                           *)

(* The bytes of a frame of even size: a line of V and U for two of luma.    *)
FrameBytes == frameSize + (p_yuv.height \div 2) * p_yuv.width

(* A frame of even size has frameSize bytes of luma and half as many of V   *)
(* and U.                                                                   *)
LEMMA FrameSizes ==
    ASSUME p_yuv \in Frames
    PROVE  /\ p_yuv.width \in Nat \ {0} /\ p_yuv.width % 2 = 0
           /\ p_yuv.height \in Nat \ {0} /\ p_yuv.height % 2 = 0
           /\ frameSize \in Nat \ {0}
           /\ FrameBytes \in Nat /\ frameSize <= FrameBytes
           /\ p_yuv.bytes \in [0..(FrameBytes - 1) -> Byte]
  <1> DEFINE w == p_yuv.width
             h == p_yuv.height
             half == h \div 2
  <1>1. /\ w \in Nat \ {0} /\ w % 2 = 0
        /\ h \in Nat \ {0} /\ h % 2 = 0
        /\ p_yuv.bytes \in [0..((3 * w * h) \div 2 - 1) -> Byte]
    BY FramesAssumption DEF Byte
  <1> HIDE DEF w, h
  <1>2. half \in Nat /\ h = 2 * half
    BY <1>1, SMT
  <1>3. w * h \in Nat \ {0}
    BY <1>1, SMT
  <1> HIDE DEF half
  <1>4. w * half \in Nat /\ w * h = 2 * (w * half) /\ half * w = w * half
    <2>1. w * (2 * half) = 2 * (w * half)
      BY <1>1, <1>2, SMT
    <2> QED
      BY <1>1, <1>2, <2>1, SMT
  <1>5. 3 * w * h = 3 * (w * h)
    BY <1>1, <1>2, SMT
  <1> DEFINE pixels == w * h
             pairs == w * half
  <1>6. pairs \in Nat /\ pixels = 2 * pairs /\ half * w = pairs
    BY <1>4
  <1>7. 3 * w * h = 3 * pixels
    BY <1>5
  <1>8. frameSize = pixels /\ FrameBytes = pixels + half * w
    BY DEF frameSize, FrameBytes, w, h, half
  <1> DEFINE size == (3 * w * h) \div 2
  <1> HIDE DEF pixels, pairs
  <1>9. size = FrameBytes /\ FrameBytes \in Nat /\ frameSize <= FrameBytes
    BY <1>6, <1>7, <1>8, SMT
  <1>10. p_yuv.bytes \in [0..(FrameBytes - 1) -> Byte]
    <2>1. p_yuv.bytes \in [0..(size - 1) -> Byte]
      BY <1>1
    <2> HIDE DEF size
    <2> QED
      BY <1>9, <2>1
  <1>11. frameSize \in Nat \ {0}
    BY <1>3, <1>8 DEF pixels
  <1> QED
    BY <1>1, <1>9, <1>10, <1>11, Zenon DEF w, h

(* Line and column of the pixel that follows n others.                      *)
LEMMA LineAndColumn ==
    ASSUME NEW w \in Nat \ {0}, NEW h \in Nat \ {0}, NEW n \in 0..(w * h - 1)
    PROVE  n % w \in 0..(w - 1) /\ n \div w \in 0..(h - 1)
  <1>1. n \in Nat /\ w * h \in Nat /\ n < w * h
    BY SMT
  <1>2. n % w \in 0..(w - 1) /\ n \div w \in Nat /\ n = w * (n \div w) + (n % w)
    BY <1>1, SMT
  <1>3. ASSUME n \div w >= h
        PROVE  FALSE
    <2>1. w * (n \div w) >= w * h
      BY <1>2, <1>3, SMT
    <2> QED
      BY <1>1, <1>2, <2>1, SMT
  <1> QED
    BY <1>2, <1>3, SMT

(* Within a line the line stays and the column grows by one.                *)
LEMMA SameLine ==
    ASSUME NEW w \in Nat \ {0}, NEW n \in Nat \ {0}, n % w # 0
    PROVE  (n - 1) % w = (n % w) - 1 /\ (n - 1) \div w = n \div w
  BY SMTT(30)

(* The V and U of a pixel lie in the frame, behind the luma.                *)
LEMMA PairInFrame ==
    ASSUME p_yuv \in Frames, NEW p \in 1..frameSize
    PROVE  /\ PairOf(p) \in Nat
           /\ PairOf(p) + 1 <= FrameBytes - 1
  <1> DEFINE w == p_yuv.width
             h == p_yuv.height
             x == (p - 1) % w
             y == (p - 1) \div w
  <1>1. /\ w \in Nat \ {0} /\ w % 2 = 0
        /\ h \in Nat \ {0} /\ h % 2 = 0
        /\ frameSize = w * h /\ w * h \in Nat
    BY FrameSizes DEF frameSize
  <1>2. PairOf(p) = frameSize + (y \div 2) * w + 2 * (x \div 2)
    BY DEF PairOf
  <1> HIDE DEF w, h
  <1>3. p - 1 \in 0..(w * h - 1)
    BY <1>1, SMT
  <1>4. x \in 0..(w - 1) /\ y \in 0..(h - 1)
    BY <1>1, <1>3, LineAndColumn
  <1> HIDE DEF x, y
  <1>5. 2 * (x \div 2) \in 0..(w - 2)
    BY <1>1, <1>4, SMT
  <1>6. y \div 2 \in 0..((h \div 2) - 1) /\ h \div 2 \in Nat
    BY <1>1, <1>4, SMT
  <1> DEFINE a == y \div 2
             b == h \div 2
  <1> HIDE DEF a, b
  <1>7. a * w \in Nat /\ b * w \in Int /\ a * w + w <= b * w
    <2>1. a \in Nat /\ b \in Nat /\ a + 1 <= b
      BY <1>6, SMT DEF a, b
    <2>2. (a + 1) * w <= b * w
      BY <1>1, <2>1, SMT
    <2> QED
      BY <1>1, <2>1, <2>2, SMT
  <1>8. PairOf(p) = w * h + a * w + 2 * (x \div 2)
    BY <1>1, <1>2 DEF a
  <1>9. PairOf(p) \in Nat /\ PairOf(p) + 1 <= w * h + b * w - 1
    BY <1>1, <1>5, <1>7, <1>8, SMT
  <1>10. FrameBytes = w * h + b * w
    BY <1>1 DEF FrameBytes, w, h, b
  <1> QED
    BY <1>1, <1>7, <1>9, <1>10, SMT

(* Luma above the footroom and chroma around zero.                          *)
LEMMA Samples ==
    ASSUME p_yuv \in Frames, NEW p \in 1..frameSize
    PROVE  /\ LumaOf(p) \in Int /\ LumaOf(p) >= 0 /\ LumaOf(p) <= 239
           /\ VOf(p) \in Int /\ VOf(p) >= -128 /\ VOf(p) <= 127
           /\ UOf(p) \in Int /\ UOf(p) >= -128 /\ UOf(p) <= 127
  <1> DEFINE top == FrameBytes - 1
  <1>1. /\ p_yuv.bytes \in [0..top -> Byte]
        /\ frameSize \in Nat /\ FrameBytes \in Nat /\ frameSize <= FrameBytes
    BY FrameSizes, Zenon
  <1>2. p - 1 \in 0..top
    BY <1>1, SMT
  <1>3. PairOf(p) \in 0..top /\ PairOf(p) + 1 \in 0..top
    <2>1. PairOf(p) \in Nat /\ PairOf(p) + 1 <= top
      BY PairInFrame, Zenon
    <2> QED
      BY <1>1, <2>1, SMT
  <1> HIDE DEF top
  <1>4. /\ p_yuv.bytes[p - 1] \in Byte
        /\ p_yuv.bytes[PairOf(p)] \in Byte
        /\ p_yuv.bytes[PairOf(p) + 1] \in Byte
    BY <1>1, <1>2, <1>3
  <1>5. ASSUME NEW k \in Byte
        PROVE  /\ k \in Int /\ k >= 0 /\ k <= 255
               /\ k - 16 <= 239 /\ k - 128 >= -128 /\ k - 128 <= 127
    BY SMT DEF Byte
  <1>6. LumaOf(p) \in Int /\ LumaOf(p) >= 0 /\ LumaOf(p) <= 239
    BY <1>4, <1>5, SMT DEF LumaOf
  <1> QED
    BY <1>4, <1>5, <1>6, SMT DEF VOf, UOf

(* The pair of the pixel that follows n others: the first of its line of    *)
(* chroma, the one after the last pixel's, or the last pixel's.             *)
LEMMA NextPair ==
    ASSUME p_yuv \in Frames, NEW n \in 0..(frameSize - 1)
    PROVE  LET w == p_yuv.width
               x == n % w
           IN  /\ x = 0 => PairOf(n + 1) = frameSize + ((n \div w) \div 2) * w
               /\ x # 0 /\ x % 2 = 0 => PairOf(n + 1) = PairOf(n) + 2
               /\ x % 2 # 0 => n # 0 /\ PairOf(n + 1) = PairOf(n)
               /\ x # 0 => n # 0
  <1> DEFINE w == p_yuv.width
             x == n % w
             y == n \div w
             line == frameSize + (y \div 2) * w
  <1>1. w \in Nat \ {0} /\ w % 2 = 0 /\ frameSize \in Nat /\ n \in Nat
    BY FrameSizes, SMT
  <1>2. (n + 1) - 1 = n
    BY <1>1, SMT
  <1>3. PairOf(n + 1) = line + 2 * (x \div 2)
    BY <1>2 DEF PairOf
  <1>4. PairOf(n) = frameSize + (((n - 1) \div w) \div 2) * w + 2 * (((n - 1) % w) \div 2)
    BY DEF PairOf
  <1> HIDE DEF w
  <1>5. x \in Nat /\ y \in Nat
    BY <1>1, SMT
  <1>6. x # 0 => n # 0
    BY <1>1, SMT
  <1>7. ASSUME x # 0
        PROVE  PairOf(n) = line + 2 * ((x - 1) \div 2)
    BY <1>1, <1>4, <1>6, <1>7, SameLine
  <1>8. line \in Int
    BY <1>1, <1>5, SMT
  <1> HIDE DEF line, x, y
  <1>9. x = 0 => PairOf(n + 1) = line
    BY <1>3, <1>8, SMT
  <1>10. x # 0 /\ x % 2 = 0 => PairOf(n + 1) = PairOf(n) + 2
    BY <1>3, <1>5, <1>7, <1>8, SMT
  <1>11. x % 2 # 0 => x # 0 /\ PairOf(n + 1) = PairOf(n)
    <2>1. x % 2 # 0 => x # 0
      BY <1>5, SMT
    <2> QED
      BY <2>1, <1>3, <1>5, <1>7, <1>8, SMT
  <1> QED
    BY <1>6, <1>9, <1>10, <1>11 DEF w, x, y, line

-----------------------------------------------------------------------------
(* The invariant.                                                           *)

(* Each pixel becomes three bytes.                                          *)
LEMMA RgbTyped ==
    ASSUME NEW y \in Int, NEW vv \in Int, NEW uu \in Int
    PROVE  ToRgb(y, vv, uu) \in Byte \X Byte \X Byte
  <1>1. ASSUME NEW s \in Int
        PROVE  Channel(s) \in Byte
    BY SMT DEF Channel, Byte
  <1>2. /\ 1192 * y + 1634 * vv \in Int
        /\ 1192 * y - 833 * vv - 400 * uu \in Int
        /\ 1192 * y + 2066 * uu \in Int
    BY SMT
  <1> QED
    BY <1>1, <1>2, SMT DEF ToRgb

(* Where luma and chroma are depends on the frame only.                     *)
LEMMA SameFrame ==
    ASSUME p_yuv' = p_yuv
    PROVE  /\ frameSize' = frameSize
           /\ \A p : /\ LumaOf(p)' = LumaOf(p)
                     /\ PairOf(p)' = PairOf(p)
                     /\ VOf(p)' = VOf(p)
                     /\ UOf(p)' = UOf(p)
  BY DEF frameSize, LumaOf, PairOf, VOf, UOf

(* The next pixel is made from its own luma and the pair of its own block.  *)
LEMMA PixelConverted ==
    ASSUME ColourTypes, PairInv, ConvertPixel
    PROVE  LET p == Len(p_rgb) + 1
           IN  /\ v' = VOf(p) /\ u' = UOf(p) /\ uvp' = PairOf(p) + 2
               /\ p_rgb' = Append(p_rgb, ToRgb(LumaOf(p), VOf(p), UOf(p)))
  <1> DEFINE n == Len(p_rgb)
             w == p_yuv.width
             x == n % w
             y == n \div w
             luma == p_yuv.bytes[n] - 16
             pair == IF x = 0 THEN frameSize + (y \div 2) * w ELSE uvp
  <1>1. p_yuv \in Frames /\ frameSize \in Nat /\ n \in Nat /\ n < frameSize
    BY FrameSizes, SMT DEF ColourTypes, ConvertPixel
  <1>2. n \in 0..(frameSize - 1) /\ n + 1 \in 1..frameSize /\ (n + 1) - 1 = n
    BY <1>1, SMT
  <1>3. /\ x = 0 => PairOf(n + 1) = frameSize + (y \div 2) * w
        /\ x # 0 /\ x % 2 = 0 => PairOf(n + 1) = PairOf(n) + 2
        /\ x % 2 # 0 => n # 0 /\ PairOf(n + 1) = PairOf(n)
        /\ x # 0 => n # 0
    BY <1>1, <1>2, NextPair
  <1>4. n # 0 => uvp = PairOf(n) + 2 /\ v = VOf(n) /\ u = UOf(n)
    BY <1>1, SMT DEF ColourTypes, PairInv
  <1>5. IF x % 2 = 0
        THEN /\ v' = p_yuv.bytes[pair] - 128
             /\ u' = p_yuv.bytes[pair + 1] - 128
             /\ uvp' = pair + 2
        ELSE UNCHANGED <<v, u, uvp>>
    BY DEF ConvertPixel
  <1>6. p_rgb' = Append(p_rgb, ToRgb(IF luma < 0 THEN 0 ELSE luma, v', u'))
    BY DEF ConvertPixel
  <1>7. (IF luma < 0 THEN 0 ELSE luma) = LumaOf(n + 1)
    <2>1. p_yuv.bytes[n] \in Byte
      <3>1. FrameBytes \in Nat /\ frameSize <= FrameBytes
        BY <1>1, FrameSizes, Zenon
      <3>2. n \in 0..(FrameBytes - 1)
        BY <1>1, <3>1, SMT
      <3> QED
        BY <1>1, <3>2, FrameSizes
    <2>2. LumaOf(n + 1) = IF p_yuv.bytes[n] < 16 THEN 0 ELSE p_yuv.bytes[n] - 16
      BY <1>2 DEF LumaOf
    <2> DEFINE level == p_yuv.bytes[n]
    <2>3. luma = level - 16 /\ LumaOf(n + 1) = IF level < 16 THEN 0 ELSE level - 16
      BY <2>2
    <2> HIDE DEF level, luma
    <2>4. level \in 0..255
      BY <2>1 DEF level, Byte
    <2> QED
      BY <2>3, <2>4, SMT
  <1> HIDE DEF luma
  <1>8. v' = VOf(n + 1) /\ u' = UOf(n + 1) /\ uvp' = PairOf(n + 1) + 2
    <2> HIDE DEF x, n
    <2>1. CASE x % 2 = 0
      <3>1. pair = PairOf(n + 1)
        BY <2>1, <1>3, <1>4
      <3> HIDE DEF pair
      <3> QED
        BY <2>1, <1>5, <3>1 DEF VOf, UOf
    <2>2. CASE x % 2 # 0
      BY <2>2, <1>3, <1>4, <1>5 DEF VOf, UOf
    <2> QED
      BY <2>1, <2>2
  <1> QED
    BY <1>6, <1>7, <1>8

(* ConvertPixel adds one pixel; no line is converted before the last.       *)
LEMMA ConvertPixelPreserves ==
    ASSUME ColourInv, ConvertPixel
    PROVE  ColourInv'
  <1> DEFINE n == Len(p_rgb)
             pixel == ToRgb(LumaOf(n + 1), VOf(n + 1), UOf(n + 1))
  <1>1. /\ p_yuv' = p_yuv /\ p_yuv \in Frames /\ ycc' = ycc
        /\ p_rgb \in Seq(Byte \X Byte \X Byte) /\ n \in Nat /\ frameSize \in Nat
        /\ n < frameSize
    BY FrameSizes DEF ColourInv, ColourTypes, ConvertPixel
  <1>2. /\ v' = VOf(n + 1) /\ u' = UOf(n + 1) /\ uvp' = PairOf(n + 1) + 2
        /\ p_rgb' = Append(p_rgb, pixel)
    BY PixelConverted DEF ColourInv
  <1>3. pixel \in Byte \X Byte \X Byte
    <2>1. n + 1 \in 1..frameSize
      BY <1>1, SMT
    <2>2. LumaOf(n + 1) \in Int /\ VOf(n + 1) \in Int /\ UOf(n + 1) \in Int
      BY <1>1, <2>1, Samples, Zenon
    <2> QED
      BY <2>2, RgbTyped
  <1> HIDE DEF pixel
  <1>4. /\ p_rgb' \in Seq(Byte \X Byte \X Byte)
        /\ Len(p_rgb') = n + 1
        /\ \A p \in 1..n : p_rgb'[p] = p_rgb[p]
        /\ p_rgb'[n + 1] = pixel
    BY <1>1, <1>2, <1>3, SMT
  <1>5. ycc = <<>>
    BY <1>1, SMT DEF ColourInv, LineInv
  <1>6. ColourTypes'
    <2>1. Len(p_rgb') <= frameSize
      BY <1>1, <1>4, SMT
    <2> QED
      BY <1>1, <1>4, <2>1, SameFrame DEF ColourInv, ColourTypes
  <1>7. PairInv'
    BY <1>1, <1>2, <1>4, SameFrame DEF PairInv
  <1>8. RgbInv'
    <2> SUFFICES ASSUME NEW p \in 1..(n + 1)
                 PROVE  p_rgb'[p] = ToRgb(LumaOf(p), VOf(p), UOf(p))
      BY <1>1, <1>4, SameFrame DEF RgbInv
    <2>1. CASE p \in 1..n
      BY <2>1, <1>4 DEF ColourInv, RgbInv
    <2>2. CASE p = n + 1
      BY <2>2, <1>4 DEF pixel
    <2> QED
      BY <1>1, <2>1, <2>2, SMT
  <1>9. LineInv'
    <2>1. \A p \in 1..Len(ycc) : FALSE
      BY <1>5, SMT
    <2>2. \E lines \in 0..p_yuv.height : Len(ycc) = lines * p_yuv.width
      BY DEF ColourInv, LineInv
    <2> QED
      BY <1>1, <1>5, <2>1, <2>2 DEF LineInv
  <1> QED
    BY <1>6, <1>7, <1>8, <1>9 DEF ColourInv

(* A converted pixel is three integers.                                     *)
LEMMA YccTyped ==
    ASSUME NEW rgb \in Byte \X Byte \X Byte
    PROVE  ToYcc(rgb) \in Int \X Int \X Int
  <1>1. rgb[1] \in Byte /\ rgb[2] \in Byte /\ rgb[3] \in Byte
    BY SMT
  <1> DEFINE r == 1000 * rgb[1]
             g == 1000 * rgb[2]
             b == 1000 * rgb[3]
             exact == <<(299 * r + 587 * g + 114 * b) \div 1000,
                        128000 + (-1687 * r - 3313 * g + 5000 * b) \div 10000,
                        128000 + (5000 * r - 4187 * g - 813 * b) \div 10000>>
  <1>2. /\ r \in Int /\ 1000 * rgb[1] - r >= -1300 /\ 1000 * rgb[1] - r <= 300
        /\ g \in Int /\ 1000 * rgb[2] - g >= -1300 /\ 1000 * rgb[2] - g <= 300
        /\ b \in Int /\ 1000 * rgb[3] - b >= -1300 /\ 1000 * rgb[3] - b <= 300
    BY <1>1, SMT DEF Byte
  <1> HIDE DEF r, g, b
  <1>3. exact = <<(299 * r + 587 * g + 114 * b) \div 1000,
                  128000 + (-1687 * r - 3313 * g + 5000 * b) \div 10000,
                  128000 + (5000 * r - 4187 * g - 813 * b) \div 10000>>
    BY SMT
  <1> HIDE DEF exact
  <1> QED
    BY <1>2, <1>3, YccClose, SMT

(* A whole line fits, and its pixels are converted one by one.              *)
LEMMA LineConverted ==
    ASSUME ColourInv, rgb_ycc_convert
    PROVE  ColourInv'
  <1> DEFINE w == p_yuv.width
             h == p_yuv.height
             done == Len(ycc)
             line == [col \in 1..w |-> ToYcc(p_rgb[done + col])]
  <1>1. /\ p_yuv \in Frames
        /\ p_rgb \in Seq(Byte \X Byte \X Byte) /\ ycc \in Seq(Int \X Int \X Int)
        /\ Len(p_rgb) = frameSize /\ done < frameSize /\ done \in Nat
        /\ ycc' = ycc \o line
        /\ UNCHANGED <<p_yuv, uvp, v, u, p_rgb>>
    BY DEF ColourInv, ColourTypes, rgb_ycc_convert
  <1>2. /\ w \in Nat \ {0} /\ h \in Nat \ {0} /\ frameSize = w * h
    BY <1>1, FrameSizes DEF frameSize
  <1>3. PICK lines \in 0..h : done = lines * w
    BY DEF ColourInv, LineInv
  <1>4. lines + 1 \in 0..h /\ done + w = (lines + 1) * w /\ done + w <= frameSize
    <2>1. (lines + 1) * w = lines * w + w /\ lines * w \in Nat /\ w * h = h * w
      BY <1>2, <1>3, SMT
    <2>2. lines < h
      BY <1>1, <1>2, <1>3, <2>1, SMT
    <2>3. (lines + 1) * w <= h * w
      BY <1>2, <1>3, <2>2, SMT
    <2> QED
      BY <1>1, <1>2, <1>3, <2>1, <2>2, <2>3, SMT
  <1>5. ASSUME NEW col \in 1..w
        PROVE  ToYcc(p_rgb[done + col]) \in Int \X Int \X Int
    <2>1. done + col \in 1..Len(p_rgb)
      BY <1>1, <1>2, <1>4, SMT
    <2>2. p_rgb[done + col] \in Byte \X Byte \X Byte
      BY <1>1, <2>1, SMT
    <2> QED
      BY <2>2, YccTyped
  <1> DEFINE T == Int \X Int \X Int
  <1>6. line \in Seq(T) /\ Len(line) = w
    <2>1. line \in [1..w -> T]
      BY <1>5
    <2> HIDE DEF line, T
    <2> QED
      BY <1>2, <2>1, SMT
  <1>7. Len(line) = w /\ \A col \in 1..w : line[col] = ToYcc(p_rgb[done + col])
    BY <1>6
  <1> HIDE DEF line
  <1>8. /\ ycc' \in Seq(Int \X Int \X Int)
        /\ Len(ycc') = done + w
        /\ \A p \in 1..done : ycc'[p] = ycc[p]
        /\ \A p \in (done + 1)..(done + w) : ycc'[p] = line[p - done]
    <2>1. ycc \in Seq(T) /\ line \in Seq(T)
      BY <1>1, <1>6
    <2> HIDE DEF T
    <2>2. /\ ycc \o line \in Seq(T)
          /\ Len(ycc \o line) = done + w
          /\ \A p \in 1..done : (ycc \o line)[p] = ycc[p]
          /\ \A p \in (done + 1)..(done + w) : (ycc \o line)[p] = line[p - done]
      BY <1>6, <2>1, ConcatProperties
    <2> QED
      BY <1>1, <2>2 DEF T
  <1>9. ASSUME NEW p \in 1..(done + w)
        PROVE  ycc'[p] = ToYcc(p_rgb[p])
    <2>1. CASE p \in 1..done
      BY <2>1, <1>8 DEF ColourInv, LineInv
    <2>2. CASE p \in (done + 1)..(done + w)
      <3>1. p - done \in 1..w /\ done + (p - done) = p
        BY <2>2, <1>1, <1>2, SMT
      <3> QED
        BY <2>2, <3>1, <1>7, <1>8
    <2>3. p \in 1..done \/ p \in (done + 1)..(done + w)
      BY <1>1, <1>2, SMT
    <2> QED
      BY <2>1, <2>2, <2>3
  <1>10. ColourTypes'
    BY <1>1, <1>8, SameFrame DEF ColourInv, ColourTypes
  <1>11. PairInv' /\ RgbInv'
    BY <1>1, SameFrame DEF ColourInv, PairInv, RgbInv
  <1>12. LineInv'
    <2>1. Len(p_rgb') = frameSize'
      BY <1>1, SameFrame
    <2>2. \E k \in 0..p_yuv'.height : Len(ycc') = k * p_yuv'.width
      BY <1>1, <1>4, <1>8
    <2>3. \A p \in 1..Len(ycc') : ycc'[p] = ToYcc(p_rgb'[p])
      BY <1>1, <1>8, <1>9
    <2> QED
      BY <2>1, <2>2, <2>3 DEF LineInv
  <1> QED
    BY <1>10, <1>11, <1>12 DEF ColourInv

(* The pair in use belongs to the last pixel, every pixel is made from its  *)
(* own luma and pair, and whole lines are converted: YUV420P_2_RGB888 and   *)
(* the loop over jpeg_write_scanlines.                                      *)
THEOREM ColourInvHolds == ColourSpec => []ColourInv
  <1>1. ColourInit => ColourInv
    <2> SUFFICES ASSUME ColourInit
                 PROVE  ColourInv
      OBVIOUS
    <2>1. p_yuv \in Frames /\ p_rgb = <<>> /\ ycc = <<>>
      BY DEF ColourInit, ColourStart
    <2>2. /\ Len(p_rgb) = 0 /\ Len(ycc) = 0
          /\ p_rgb \in Seq(Byte \X Byte \X Byte) /\ ycc \in Seq(Int \X Int \X Int)
      BY <2>1, SMT
    <2>3. frameSize \in Nat /\ 0 \in 0..p_yuv.height /\ 0 = 0 * p_yuv.width
      BY <2>1, FrameSizes, SMT
    <2>4. \A p \in 1..0 : FALSE
      BY SMT
    <2>5. ColourTypes
      BY <2>1, <2>2, <2>3, SMT DEF ColourTypes
    <2>6. PairInv /\ RgbInv
      BY <2>1, <2>2, <2>4 DEF PairInv, RgbInv
    <2>7. LineInv
      BY <2>1, <2>2, <2>3, <2>4 DEF LineInv
    <2> QED
      BY <2>5, <2>6, <2>7 DEF ColourInv
  <1>2. ColourInv /\ [ColourNext]_colour_vars => ColourInv'
    <2> SUFFICES ASSUME ColourInv, [ColourNext]_colour_vars
                 PROVE  ColourInv'
      OBVIOUS
    <2>1. CASE ConvertPixel
      BY <2>1, ConvertPixelPreserves
    <2>2. CASE rgb_ycc_convert
      BY <2>2, LineConverted
    <2>3. CASE UNCHANGED colour_vars
      <3>1. UNCHANGED <<p_yuv, uvp, v, u, p_rgb, ycc>>
        BY <2>3 DEF colour_vars
      <3> QED
        BY <3>1, SameFrame
        DEF ColourInv, ColourTypes, PairInv, RgbInv, LineInv
    <2> QED
      BY <2>1, <2>2, <2>3 DEF ColourNext
  <1> QED
    BY <1>1, <1>2, PTL DEF ColourSpec

(* Every pixel that reaches the encoder is within 2 of 255 of the colour of *)
(* its own luma and its own block's chroma: NativeSavingTask.c, jccolor.c.  *)
THEOREM ColoursAreKept == ColourSpec => []ColoursKept
  <1>1. ColourInv => ColoursKept
    <2> SUFFICES ASSUME ColourInv, NEW p \in 1..Len(ycc)
                 PROVE  LET exact == ExactYcc(LumaOf(p), VOf(p), UOf(p))
                        IN  \A c \in 1..3 : Within2(ycc[p][c], exact[c])
      BY DEF ColoursKept
    <2> DEFINE y == LumaOf(p)
               vv == VOf(p)
               uu == UOf(p)
    <2>1. /\ p_yuv \in Frames /\ p \in 1..Len(p_rgb) /\ p \in 1..frameSize
      <3>1. ycc # <<>>
        BY SMT DEF ColourInv, ColourTypes
      <3>2. Len(p_rgb) = frameSize /\ frameSize \in Nat
        BY <3>1, FrameSizes DEF ColourInv, ColourTypes, LineInv
      <3>3. \E lines \in 0..p_yuv.height : Len(ycc) = lines * p_yuv.width
        BY DEF ColourInv, LineInv
      <3>4. Len(ycc) <= frameSize
        BY <3>3, FrameSizes, SMT DEF ColourInv, ColourTypes, frameSize
      <3> QED
        BY <3>2, <3>4, SMT DEF ColourInv, ColourTypes
    <2>2. /\ y \in Int /\ y >= 0 /\ y <= 239
          /\ vv \in Int /\ vv >= -128 /\ vv <= 127
          /\ uu \in Int /\ uu >= -128 /\ uu <= 127
      BY <2>1, Samples, Zenon
    <2>3. ycc[p] = ToYcc(ToRgb(y, vv, uu))
      BY <2>1, Zenon DEF ColourInv, RgbInv, LineInv
    <2> HIDE DEF y, vv, uu
    <2>4. \A c \in 1..3 : Within2(ToYcc(ToRgb(y, vv, uu))[c], ExactYcc(y, vv, uu)[c])
      BY <2>2, ColourClose, SMT
    <2> QED
      BY <2>3, <2>4 DEF y, vv, uu
  <1> QED
    BY <1>1, ColourInvHolds, PTL
=============================================================================
