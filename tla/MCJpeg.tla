------------------------------- MODULE MCJpeg -------------------------------
(* The parts of libjpeg side by side: a behaviour exercises one of them and *)
(* the others rest, so that one run covers them all.                        *)
EXTENDS EntropyScan, BlockCodec, JpegMemory, JpegEncoder, CameraColours

VARIABLE part       \* the part that is exercised

-----------------------------------------------------------------------------
(* EntropyScan.  A block is given by its coefficients in zigzag order.      *)

BlockOf(zigzag) == [p \in 0..63 |->
    IF \E k \in DOMAIN zigzag : natural_order[k] = p
    THEN zigzag[CHOOSE k \in DOMAIN zigzag : natural_order[k] = p] ELSE 0]

NoBlock == BlockOf(<<>>)
Largest == BlockOf(0 :> 1023 @@ 1 :> -1023 @@ 20 :> 3)
LongRun == BlockOf(0 :> -1024 @@ 1 :> 6 @@ 2 :> -5 @@ 19 :> -1 @@ 22 :> 1 @@ 24 :> 6)
Dense == BlockOf([k \in 0..24 |-> IF k % 3 = 0 THEN k + 1 ELSE IF k % 3 = 1 THEN -2 ELSE 3])
NoDc == BlockOf(3 :> -2 @@ 5 :> 7)
LateBits == BlockOf(0 :> -1 @@ 1 :> 2 @@ 18 :> -1)

Image1 == [c \in 0..1 |-> IF c = 0 THEN (0 :> Largest @@ 1 :> LongRun @@ 2 :> NoDc)
                          ELSE (0 :> LateBits @@ 1 :> NoBlock @@ 2 :> Dense)]
Image2 == [c \in 0..1 |-> IF c = 0 THEN (0 :> NoDc @@ 1 :> NoBlock @@ 2 :> NoBlock)
                          ELSE (0 :> Dense @@ 1 :> Dense @@ 2 :> LateBits)]

BothAtOnce == <<Scan(<<0, 1>>, 0, 24, 0, 0)>>
BitByBit ==
    <<Scan(<<0, 1>>, 0, 0, 0, 1), Scan(<<0>>, 1, 24, 0, 2), Scan(<<1>>, 1, 24, 0, 1),
      Scan(<<0>>, 1, 24, 2, 1), Scan(<<0, 1>>, 0, 0, 1, 0), Scan(<<1>>, 1, 24, 1, 0),
      Scan(<<0>>, 1, 24, 1, 0)>>

(* Frequencies whose code would be longer than 16 bits.                     *)
Skewed == [s \in 1..20 |-> 2^s]

Plan(image) ==
    [image |-> image, scans |-> BothAtOnce, progressive |-> FALSE, optimize |-> TRUE,
     restart_interval |-> 0, tbl_no |-> <<0, 0>>, lossy |-> FALSE, chunks |-> {1}, history |-> <<>>]
Progression(image) == [Plan(image) EXCEPT !.scans = BitByBit, !.progressive = TRUE]

MCPlans ==
    {[Plan(Image1) EXCEPT !.optimize = FALSE, !.tbl_no = <<0, 1>>, !.chunks = {1, 2, 7}],
     [Plan(Image2) EXCEPT !.restart_interval = 1],
     [Plan(Image1) EXCEPT !.history = Skewed],
     [Progression(Image1) EXCEPT !.tbl_no = <<0, 1>>],
     [Progression(Image2) EXCEPT !.restart_interval = 2],
     [Progression(Image1) EXCEPT !.restart_interval = 1, !.lossy = TRUE, !.chunks = {100}],
     [Plan(Image2) EXCEPT !.optimize = FALSE, !.tbl_no = <<0, 1>>, !.restart_interval = 1,
                          !.lossy = TRUE, !.chunks = {100}]}

RestingPlan == Plan(Image1)

-----------------------------------------------------------------------------
(* BlockCodec: every pair of sizes, extreme, periodic, smooth and irregular *)
(* blocks, and blocks that are the inverse transform of a full spectrum.    *)

Sizes == {<<n, n>> : n \in 1..16} \cup {<<2 * n, n>> : n \in 1..8} \cup {<<n, 2 * n>> : n \in 1..8}

Samples(size, f(_, _)) == [y \in 0..(size[2] - 1) |-> [x \in 0..(size[1] - 1) |-> f(x, y)]]
White(s) == Samples(s, LAMBDA x, y : 255)
Black(s) == Samples(s, LAMBDA x, y : 0)
Ramp(s) == Samples(s, LAMBDA x, y : (255 * (2 * x + y)) \div (2 * s[1] + s[2] - 2))
Checks(s) == Samples(s, LAMBDA x, y : 255 * ((x + y) % 2))
Noise(s) == Samples(s, LAMBDA x, y : (37 * x * x + 91 * y * y + 13 * x * y + 7 * x) % 256)

Spectrum(s) == [i \in 0..63 |->
    IF i \div 8 >= s[2] \/ i % 8 >= s[1] THEN 0
    ELSE IF i = 0 THEN 40 ELSE ((37 * i * i + 11 * i) % 101) - 50]
Waves(s) ==
    LET ones == [j \in 0..7 |-> [k \in 0..7 |-> 1]]
        columns == IdctColumns(inverse_DCT(s[1], s[2])[1], AtMost8(s[1]), AsRows(Spectrum(s)), ones)
    IN  LimitedSamples(IdctRows(inverse_DCT(s[1], s[2])[2], columns))

(* The row passes of these widths are wrong (see the run jpeg_fdct).        *)
FaultyWidths == {12, 14}

Job(from, to, image, quality, tbl_no) ==
    [enc |-> from, dec |-> to, image |-> image, quality |-> quality, tbl_no |-> tbl_no]

MCJobs ==
    UNION {{Job(s, s, White(s), 100, 0), Job(s, s, Black(s), 100, 0), Job(s, s, Black(s), 1, 1),
            Job(s, <<8, 8>>, Noise(s), 50, 1), Job(<<8, 8>>, s, Checks(<<8, 8>>), 50, 0), Job(<<8, 8>>, s, Noise(<<8, 8>>), 1, 0)} : s \in Sizes}
    \cup {Job(s, s, Noise(s), 100, 0) : s \in {t \in Sizes : t[1] <= 8 /\ t[2] <= 8}}
    \cup UNION {{Job(s, s, Ramp(s), 100, 1), Job(s, s, Waves(s), 100, 1)} : s \in {t \in Sizes : t[1] \notin FaultyWidths}}

RestingJob == Job(<<1, 1>>, <<1, 1>>, <<>>, 100, 0)

-----------------------------------------------------------------------------
(* JpegMemory: no swapping, swapping of one or both arrays, a limit set by  *)
(* the application, a full disk, and small objects in little memory.        *)

Request(kind, pre_zero, width, numrows, maxaccess) ==
    [kind |-> kind, pre_zero |-> pre_zero, width |-> width, numrows |-> numrows, maxaccess |-> maxaccess]

Setting(heap, disk, limit, objects, requests) ==
    [heap |-> heap, disk |-> disk, max_memory_to_use |-> limit, objects |-> objects, requests |-> requests]

MCSettings ==
    {Setting(400, 10, 0, 0, <<Request("sarray", FALSE, 4, 4, 2), Request("barray", TRUE, 2, 2, 1)>>),
     Setting(400, 3, 0, 0, <<Request("barray", TRUE, 5, 4, 2)>>),
     Setting(400, 10, 0, 0, <<Request("sarray", FALSE, 20, 4, 2)>>),
     Setting(120, 10, 0, 0, <<Request("sarray", TRUE, 4, 4, 1), Request("barray", TRUE, 2, 3, 1)>>),
     Setting(400, 10, 400, 0, <<Request("sarray", FALSE, 12, 3, 1)>>),
     Setting(400, 0, 0, 0, <<Request("sarray", TRUE, 4, 5, 2)>>),
     Setting(140, 0, 0, 4, <<>>),
     Setting(80, 0, 0, 4, <<>>)}

MCFirstSlop == [pool \in 0..1 |-> 16]
MCExtraSlop == [pool \in 0..1 |-> 8 * pool]

RestingSetting == Setting(80, 0, 0, 4, <<>>)

-----------------------------------------------------------------------------
(* JpegEncoder: the application with a disk that is large enough, full at a *)
(* write or full at the flush, and clients of the library's other features. *)

Photo(width, height) == jpeg_set_defaults(width, height, 3, "RGB")

(* One sample per block: many blocks and MCUs in a small image.             *)
Tiny(p) == [p EXCEPT !.scale_num = 8]
TinyPhoto == Tiny(Photo(3, 5))
Coarse(p) == [p EXCEPT !.do_fancy_downsampling = FALSE]
TinyGrey == [Tiny(jpeg_set_defaults(3, 5, 1, "GRAYSCALE"))
                EXCEPT !.comps[1].h_samp_factor = 2, !.comps[1].v_samp_factor = 2]
TinyCmyk == Tiny(jpeg_set_defaults(2, 2, 4, "CMYK"))
LumaFirst == <<Scan(<<1>>, 0, 63, 0, 0), Scan(<<2, 3>>, 0, 63, 0, 0)>>
Gradual(p, colorspace) == [p EXCEPT !.script = jpeg_simple_progression(Len(p.comps), colorspace)]

Client(p) ==
    [p |-> p, dest |-> "stdio", capacity |-> 5, disk |-> 1000, late |-> FALSE, returns |-> FALSE,
     lines |-> 1, images |-> 1, tables |-> FALSE, abbreviated |-> FALSE, comment |-> FALSE,
     raw |-> FALSE, requant |-> FALSE, aborts |-> FALSE]
Application(p) == [Client(p) EXCEPT !.returns = TRUE]
Suspending(p, size, num_lines) ==
    [Client(p) EXCEPT !.dest = "suspending", !.capacity = size, !.lines = num_lines]

MCClients ==
    {Application(Photo(17, 17)),
     [Application(TinyPhoto) EXCEPT !.disk = 12],
     [Application(TinyPhoto) EXCEPT !.disk = 12, !.late = TRUE],
     [Client(Coarse(Photo(17, 19))) EXCEPT !.lines = 3],
     [Client(TinyPhoto) EXCEPT !.dest = "mem", !.disk = 12],
     [Client(TinyPhoto) EXCEPT !.dest = "mem", !.aborts = TRUE, !.lines = 3],
     Suspending(TinyPhoto, 11, 2),
     Suspending([Coarse(Photo(17, 19)) EXCEPT !.smoothing_factor = 50], 11, 8),
     [Client([TinyPhoto EXCEPT !.script = LumaFirst, !.restart_in_rows = 1]) EXCEPT !.images = 2],
     Suspending([TinyPhoto EXCEPT !.script = LumaFirst], 11, 1),
     Client(Gradual(TinyPhoto, "YCbCr")),
     Client([Gradual(TinyPhoto, "YCbCr") EXCEPT !.block_size = 4, !.scale_num = 4]),
     Client([TinyPhoto EXCEPT !.optimize_coding = TRUE, !.smoothing_factor = 1]),
     [Suspending(TinyGrey, 9, 1) EXCEPT !.comment = TRUE],
     Client(Gradual(TinyCmyk, "CMYK")),
     [Client(Coarse(Photo(17, 17))) EXCEPT !.raw = TRUE],
     [Client(TinyPhoto) EXCEPT !.tables = TRUE, !.abbreviated = TRUE, !.images = 2, !.requant = TRUE]}

RestingClient == Client(TinyPhoto)

-----------------------------------------------------------------------------
(* CameraColours: each of the 4x4 pixels meets footroom, headroom and the   *)
(* levels between, with every pair of seven values of V and U.              *)

Lumas == <<0, 15, 16, 60, 128, 200, 235, 255>>
Chromas == <<0, 16, 64, 128, 192, 240, 255>>

Frame(n) ==
    LET pair(k) == (4 * n + k) % 49
        byte(k) == IF k < 16 THEN Lumas[1 + ((k + (k \div 8) + n) % 8)]
                   ELSE IF k % 2 = 0 THEN Chromas[1 + (pair((k - 16) \div 2) \div 7)]
                   ELSE Chromas[1 + (pair((k - 16) \div 2) % 7)]
    IN  [width |-> 4, height |-> 4, bytes |-> [k \in 0..23 |-> byte(k)]]

MCFrames == {Frame(n) : n \in 0..97}
RestingFrame == Frame(0)

-----------------------------------------------------------------------------
JpegInit ==
    /\ part \in {"scan", "block", "memory", "encoder", "colours"}
    /\ IF part = "scan" THEN plan \in Plans ELSE plan = RestingPlan
    /\ IF part = "block" THEN job \in Jobs ELSE job = RestingJob
    /\ IF part = "memory" THEN setting \in Settings ELSE setting = RestingSetting
    /\ IF part = "encoder" THEN EncoderInit ELSE cinfo = jpeg_CreateCompress(RestingClient)
    /\ IF part = "colours" THEN p_yuv \in Frames ELSE p_yuv = RestingFrame
    /\ ColourStart
    /\ ScanStart
    /\ BlockStart
    /\ MemoryStart

JpegNext ==
    /\ UNCHANGED part
    /\ \/ part = "scan" /\ ScanNext /\ UNCHANGED <<block_vars, memory_vars, cinfo, colour_vars>>
       \/ part = "block" /\ BlockNext /\ UNCHANGED <<scan_vars, memory_vars, cinfo, colour_vars>>
       \/ part = "memory" /\ MemoryNext /\ UNCHANGED <<scan_vars, block_vars, cinfo, colour_vars>>
       \/ part = "encoder" /\ EncoderNext /\ UNCHANGED <<scan_vars, block_vars, memory_vars, colour_vars>>
       \/ part = "colours" /\ ColourNext /\ UNCHANGED <<scan_vars, block_vars, memory_vars, cinfo>>

JpegSpec == JpegInit /\ [][JpegNext]_<<part, scan_vars, block_vars, memory_vars, cinfo, colour_vars>>
=============================================================================
