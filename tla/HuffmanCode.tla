----------------------------- MODULE HuffmanCode -----------------------------
(***************************************************************************)
(* The Huffman coder of libjpeg without its control: the code tables of    *)
(* jchuff.c and jdhuff.c, the optimal tables, and the bit buffers of the   *)
(* two sides.  A bit string is a sequence of 0 and 1; a byte is 0..255.    *)
(*                                                                         *)
(* The encoder describes a block by a sequence of items: <<"dc", s>> and   *)
(* <<"ac", s>> are Huffman symbols, <<"raw", v, n>> the low n bits of v.   *)
(***************************************************************************)
EXTENDS JpegTables, Loops

MAX_COEF_BITS == 10
HUFF_LOOKAHEAD == 8
MIN_GET_BITS == 25

(* The number of bits of a magnitude.                                       *)
NBits(v) ==
    LET abs == IF v < 0 THEN -v ELSE v
    IN  CHOOSE n \in 0..16 : abs < 2^n /\ (n = 0 \/ abs >= 2^(n - 1))

(* The appended bits are v, or the complement of its magnitude.             *)
RawBits(v) == <<"raw", IF v < 0 THEN v - 1 ELSE v, NBits(v)>>

BitsOf(v, n) == [i \in 1..n |-> ((v % 2^n) \div 2^(n - i)) % 2]

ValueOf(bits) == Iterate(Len(bits), LAMBDA v, i : 2 * v + bits[i], 0)

-----------------------------------------------------------------------------
(* Derived tables.                                                         *)

HuffSize(htbl) == Iterate(16, LAMBDA s, l : s \o [i \in 1..htbl.bits[l] |-> l], <<>>)

(* How many codes have at most l bits.                                      *)
Upto(htbl, l) == Iterate(l, LAMBDA n, i : n + htbl.bits[i], 0)

(* The first code of every size: the code behind the last one of a size     *)
(* gets a zero bit for the next.                                            *)
FirstCode(htbl) == Iterate(15, LAMBDA c, l : Append(c, (c[l] + htbl.bits[l]) * 2), <<0>>)

(* Consecutive codes of one size.                                           *)
HuffCode(htbl) ==
    LET codes(size, first) ==
            [p \in 1..Len(size) |-> first[size[p]] + p - 1 - Upto(htbl, size[p] - 1)]
    IN  With(HuffSize(htbl), LAMBDA size : With(FirstCode(htbl), LAMBDA first : codes(size, first)))

(* The checks of jpeg_make_c_derived_tbl: the counts form a code tree, no   *)
(* code is all ones, no symbol occurs twice.                                *)
LegalTable(htbl, maxsymbol) ==
    LET size == HuffSize(htbl)
        code == HuffCode(htbl)
    IN  /\ Len(size) <= 256
        /\ \A p \in 1..Len(size) : code[p] + 1 < 2^size[p]
        /\ \A p \in 1..Len(size) : htbl.huffval[p] \in 0..maxsymbol
        /\ \A p, q \in 1..Len(size) : htbl.huffval[p] = htbl.huffval[q] => p = q

(* The bit string of every symbol that has a code.                          *)
CodeOf(htbl, size, code) ==
    [s \in {htbl.huffval[p] : p \in 1..Len(size)} |->
        With(CHOOSE p \in 1..Len(size) : htbl.huffval[p] = s,
             LAMBDA p : BitsOf(code[p], size[p]))]

jpeg_make_c_derived_tbl(htbl) ==
    With(HuffSize(htbl), LAMBDA size : With(HuffCode(htbl), LAMBDA code : CodeOf(htbl, size, code)))

(* Per code length the largest code and the offset of its first symbol.     *)
jpeg_make_d_derived_tbl(htbl) ==
    LET derived(code) ==
            [maxcode |-> [l \in 1..17 |->
                IF l = 17 THEN 1048575 ELSE IF htbl.bits[l] = 0 THEN -1 ELSE code[Upto(htbl, l)]],
             valoffset |-> [l \in 1..16 |->
                IF htbl.bits[l] = 0 THEN 0
                ELSE Upto(htbl, l - 1) + 1 - code[Upto(htbl, l - 1) + 1]],
             huffval |-> htbl.huffval]
    IN  With(HuffCode(htbl), derived)

-----------------------------------------------------------------------------
(* Optimal tables.  freq gives the count of every symbol that occurred.    *)

(* Two trees with the smallest counts, the larger symbol number first, are  *)
(* merged until one is left.  Symbol 256 has a count of 1 so that no real   *)
(* symbol gets the code of all ones.                                        *)
CodeSizes(freq) ==
    LET symbols == DOMAIN freq \cup {256}
        smallest(t, S) == CHOOSE c \in S : \A d \in S :
                            t.freq[c] < t.freq[d] \/ (t.freq[c] = t.freq[d] /\ c >= d)
        join(t, c1, c2) ==
            [freq |-> [t.freq EXCEPT ![c1] = @ + t.freq[c2], ![c2] = 0],
             branch |-> [t.branch EXCEPT ![c1] = @ \cup t.branch[c2]],
             codesize |-> [s \in symbols |->
                t.codesize[s] + (IF s \in t.branch[c1] \cup t.branch[c2] THEN 1 ELSE 0)]]
        merge(t, i) ==
            With({c \in symbols : t.freq[c] # 0}, LAMBDA roots :
                With(smallest(t, roots), LAMBDA c1 : join(t, c1, smallest(t, roots \ {c1}))))
    IN  Iterate(Cardinality(symbols) - 1, merge,
                [freq |-> [s \in symbols |-> IF s = 256 THEN 1 ELSE freq[s]],
                 branch |-> [s \in symbols |-> {s}],
                 codesize |-> [s \in symbols |-> 0]]).codesize

LongestCode(bits) == CHOOSE l \in 1..32 : bits[l] > 0 /\ \A m \in (l + 1)..32 : bits[m] = 0

WithoutPseudoSymbol(bits) == [bits EXCEPT ![LongestCode(bits)] = @ - 1]

(* Two codes of length i are given up: one takes their prefix, the other    *)
(* shares the place of a shorter code, of length j.                         *)
SharePrefix(bits, i, j) ==
    [l \in 1..32 |->
        bits[l] + (IF l = i THEN -2 ELSE 0) + (IF l = i - 1 THEN 1 ELSE 0)
                + (IF l = j + 1 THEN 2 ELSE 0) + (IF l = j THEN -1 ELSE 0)]

(* Mutant: lengths above 16 are just counted as 16.                         *)
LimitLengths_Clamped(bits) ==
    WithoutPseudoSymbol([l \in 1..32 |->
        IF l < 16 THEN bits[l] ELSE IF l > 16 THEN 0
        ELSE Iterate(17, LAMBDA n, i : n + bits[15 + i], 0)])

(* Lengths above 16 are given up, the longest first.                        *)
LimitLengths(bits) ==
    LET next(b, i) == CHOOSE j \in 1..(i - 2) : b[j] > 0 /\ \A m \in (j + 1)..(i - 2) : b[m] = 0
        shorten(b, n) ==
            With(LongestCode(b), LAMBDA i : IF i <= 16 THEN b ELSE SharePrefix(b, i, next(b, i)))
        excess == Iterate(16, LAMBDA n, l : n + l * bits[16 + l], 0)    \* each step reduces it
    IN  WithoutPseudoSymbol(Iterate(excess, shorten, bits))

(* Symbols in the order of their first code sizes.                          *)
CodeTable(freq, size, bits) ==
    LET before(s, t) == size[s] < size[t] \/ (size[s] = size[t] /\ s < t)
    IN  [bits |-> [l \in 1..16 |-> bits[l]],
         huffval |-> [p \in 1..Cardinality(DOMAIN freq) |->
            CHOOSE s \in DOMAIN freq :
                Cardinality({t \in DOMAIN freq : before(t, s)}) = p - 1]]

jpeg_gen_optimal_table(freq) ==
    LET counted(size) == [l \in 1..32 |-> Cardinality({s \in DOMAIN size : size[s] = l})]
    IN  With(CodeSizes(freq),
             LAMBDA size : CodeTable(freq, size, LimitLengths(counted(size))))

-----------------------------------------------------------------------------
(* Output: e.put_bits are the bits that do not fill a byte yet.            *)

(* A byte 0xFF in the data is followed by a stuffed zero.                   *)
emit_bits(e, bits) ==
    LET byte(out, c) == IF c = 255 THEN out \o <<c, 0>> ELSE Append(out, c)
        emitted(all, whole) ==
            [e EXCEPT !.out = @ \o Iterate(whole,
                          LAMBDA out, i : byte(out, ValueOf(SubSeq(all, 8 * i - 7, 8 * i))), <<>>),
                      !.put_bits = SubSeq(all, 8 * whole + 1, Len(all))]
    IN  With(e.put_bits \o bits, LAMBDA all : emitted(all, Len(all) \div 8))

(* A partial byte is filled with ones.                                      *)
flush_bits(e) == [emit_bits(e, <<1, 1, 1, 1, 1, 1, 1>>) EXCEPT !.put_bits = <<>>]

(* The items' bits; tbl.dc and tbl.ac are encoder tables.                   *)
ItemBits(item, tbl) ==
    IF item[1] = "raw" THEN BitsOf(item[2], item[3])
    ELSE IF item[1] = "dc" THEN tbl.dc[item[2]] ELSE tbl.ac[item[2]]

HasCode(item, tbl) ==
    /\ item[1] = "dc" => item[2] \in DOMAIN tbl.dc
    /\ item[1] = "ac" => item[2] \in DOMAIN tbl.ac

emit_items(e, items, tbl) ==
    emit_bits(e, Iterate(Len(items), LAMBDA b, i : b \o ItemBits(items[i], tbl), <<>>))

-----------------------------------------------------------------------------
(* One block of a sequential scan.                                         *)

(* A coefficient after r zeros; a run above 15 needs symbols 0xF0.          *)
RunItems(r, v) ==
    [i \in 1..(r \div 16) |-> <<"ac", 240>>] \o <<<<"ac", 16 * (r % 16) + NBits(v)>>, RawBits(v)>>

DcItems(diff) ==
    IF diff = 0 THEN <<<<"dc", 0>>>> ELSE <<<<"dc", NBits(diff)>>, RawBits(diff)>>

encode_one_block(block, last_dc_val, natural_order, lim_Se) ==
    LET coefficient(s, k) ==
            IF block[natural_order[k]] = 0 THEN [s EXCEPT !.r = @ + 1]
            ELSE [r |-> 0, items |-> s.items \o RunItems(s.r, block[natural_order[k]])]
        withEob(ac) == ac.items \o (IF ac.r > 0 THEN <<<<"ac", 0>>>> ELSE <<>>)
    IN  DcItems(block[0] - last_dc_val)
            \o withEob(Iterate(lim_Se, coefficient, [r |-> 0, items |-> <<>>]))

(* JERR_BAD_DCT_COEF is not raised.                                         *)
Encodable(block, last_dc_val) ==
    /\ NBits(block[0] - last_dc_val) <= MAX_COEF_BITS + 1
    /\ \A i \in 1..(DCTSIZE2 - 1) : NBits(block[i]) <= MAX_COEF_BITS

(* Mutant: the statistics pass forgets the symbols for 16 zeros.            *)
ZrlCount_None(run, lim_Se) == 0
ZrlCount(run, lim_Se) ==
    Iterate(lim_Se, LAMBDA n, k : n + (IF k \in DOMAIN run THEN run[k] \div 16 ELSE 0), 0)

(* The statistics pass: how often the block needs each symbol.              *)
htest_one_block(block, last_dc_val, natural_order, lim_Se) ==
    LET last(nonzero, k) == CHOOSE j \in {0} \cup nonzero :
                                j < k /\ \A i \in nonzero : i < k => i <= j
        runs(nonzero) == [k \in nonzero |-> k - last(nonzero, k) - 1]
        symbol(run, k) == 16 * (run[k] % 16) + NBits(block[natural_order[k]])
        uses(run, s) == Cardinality({k \in DOMAIN run : symbol(run, k) = s})
        need(run) ==
            [s \in {0, 240} \cup {symbol(run, k) : k \in DOMAIN run} |->
                IF s = 240 THEN ZrlCount(run, lim_Se)
                ELSE IF s = 0 THEN (IF lim_Se \in {0} \cup DOMAIN run THEN 0 ELSE 1)
                ELSE uses(run, s)]
    IN  [dc |-> [s \in {NBits(block[0] - last_dc_val)} |-> 1],
         ac |-> With(runs({k \in 1..lim_Se : block[natural_order[k]] # 0}), need)]

-----------------------------------------------------------------------------
(* Input: r.get are the bits fetched and not used, r.next the next byte of *)
(* src, r.avail the bytes the source holds so far, r.marker the marker met *)
(* (0: none), r.short that data ran out, r.stop that the decoder suspends. *)

Stopped(r) == [r EXCEPT !.stop = TRUE]

(* One byte of jpeg_fill_bit_buffer.  0xFF is data when 0 follows, and is   *)
(* skipped before anything else but a marker code.                          *)
FetchByte(r, src) ==
    LET first(codes) == CHOOSE i \in codes : \A j \in codes : i <= j
        fetched(i) ==
            IF i = r.next THEN [r EXCEPT !.get = @ \o BitsOf(src[i], 8), !.next = i + 1]
            ELSE IF src[i] = 0 THEN [r EXCEPT !.get = @ \o BitsOf(255, 8), !.next = i + 1]
            ELSE [r EXCEPT !.marker = src[i], !.next = i + 1]
    IN  With({i \in r.next..r.avail : src[i] # 255},
             LAMBDA codes : IF codes = {} THEN Stopped(r) ELSE fetched(first(codes)))

(* Fetches ahead as far as the buffer reaches.  Behind a marker there are   *)
(* only zero bits.                                                          *)
jpeg_fill_bit_buffer(r, src, nbits) ==
    LET fetch(s, i) ==
            IF s.marker # 0 \/ s.stop \/ Len(s.get) >= MIN_GET_BITS THEN s ELSE FetchByte(s, src)
        fill(s) ==
            IF s.stop THEN s
            ELSE IF s.marker # 0 /\ nbits > Len(s.get)
            THEN [s EXCEPT !.short = TRUE,
                           !.get = @ \o [i \in 1..(MIN_GET_BITS - Len(@)) |-> 0]]
            ELSE s
    IN  fill(Iterate(4, fetch, r))

(* GET_BITS: the value in r.val.                                            *)
GetBits(r, src, nbits) ==
    LET get(s) ==
            IF s.stop THEN s
            ELSE [s EXCEPT !.val = ValueOf(SubSeq(s.get, 1, nbits)),
                           !.get = SubSeq(@, nbits + 1, Len(@))]
    IN  get(IF Len(r.get) < nbits THEN jpeg_fill_bit_buffer(r, src, nbits) ELSE r)

HUFF_EXTEND(x, s) == IF s = 0 THEN 0 ELSE IF x < 2^(s - 1) THEN x - (2^s - 1) ELSE x

(* The shortest prefix that is a code.  Codes of up to HUFF_LOOKAHEAD bits  *)
(* are looked up at once while that many bits are there; otherwise bits are *)
(* fetched one by one.  After 16 bits without a code the symbol is 0.       *)
jpeg_huff_decode(r, src, dtbl) ==
    LET isCode(s, l) == ValueOf(SubSeq(s.get, 1, l)) <= dtbl.maxcode[l]
        min_bits(s) ==
            IF Len(s.get) < HUFF_LOOKAHEAD THEN 1
            ELSE CHOOSE l \in 1..(HUFF_LOOKAHEAD + 1) :
                    /\ l <= HUFF_LOOKAHEAD => isCode(s, l)
                    /\ \A m \in 1..(l - 1) : ~isCode(s, m)
        extended(c, t) ==
            IF t.stop THEN [c EXCEPT !.r = t]
            ELSE [r |-> t, l |-> c.l + 1, code |-> 2 * c.code + t.val]
        longer(c, i) ==
            IF c.r.stop \/ c.code <= dtbl.maxcode[c.l] THEN c
            ELSE extended(c, GetBits(c.r, src, 1))
        symbol(c) ==
            IF c.r.stop THEN c.r
            ELSE [c.r EXCEPT !.val =
                    IF c.l > 16 THEN 0 ELSE dtbl.huffval[c.code + dtbl.valoffset[c.l]]]
        from(l, first) == symbol(Iterate(16, longer, [r |-> first, l |-> l, code |-> first.val]))
        lookup(s) ==
            IF s.stop THEN s ELSE With(min_bits(s), LAMBDA l : from(l, GetBits(s, src, l)))
    IN  lookup(IF Len(r.get) < HUFF_LOOKAHEAD THEN jpeg_fill_bit_buffer(r, src, 0) ELSE r)

(* A symbol of s bits and those bits, extended.                             *)
ExtendedBits(r, src, s) ==
    IF s = 0 THEN [r EXCEPT !.val = 0]
    ELSE With(GetBits(r, src, s),
              LAMBDA t : IF t.stop THEN t ELSE [t EXCEPT !.val = HUFF_EXTEND(t.val, s)])

-----------------------------------------------------------------------------
(* The decoder of a block: r also has the predictions, last_dc_val.         *)

(* The difference of a DC coefficient, which updates the prediction.        *)
DecodeDc(r, src, dtbl, c) ==
    LET predicted(diff) ==
            IF diff.stop THEN diff
            ELSE [diff EXCEPT !.last_dc_val[c] = @ + diff.val, !.val = @ + diff.last_dc_val[c]]
        difference(size) ==
            IF size.stop THEN size ELSE predicted(ExtendedBits(size, src, size.val))
    IN  difference(jpeg_huff_decode(r, src, dtbl))

(* The next symbol of a band that has come to s.k, and what it says: a      *)
(* nonzero coefficient after run zeros, sixteen zeros, or the end.          *)
DecodeAc(s, src, dtbl, Se, coefficient(_, _, _), end(_, _)) ==
    LET value(run, r) == IF r.stop THEN [s EXCEPT !.r = r] ELSE coefficient(s, run, r)
        symbol(r) ==
            IF r.stop THEN [s EXCEPT !.r = r]
            ELSE IF r.val % 16 # 0
            THEN value(r.val \div 16, ExtendedBits(r, src, r.val % 16))
            ELSE IF r.val = 240 THEN [s EXCEPT !.r = r, !.k = @ + 16]
            ELSE end(r, r.val \div 16)
    IN  IF s.r.stop \/ s.k > Se THEN s ELSE symbol(jpeg_huff_decode(s.r, src, dtbl))

(* The blocks of a sequential scan.  Only coefficients below limit are      *)
(* kept; the others are passed over.                                        *)
DecodeBlockAc(r, src, dtbl, block, limit, Se, order) ==
    LET coefficient(s, run, t) ==
            [r |-> t, k |-> s.k + run + 1,
             block |-> IF s.k < limit THEN [s.block EXCEPT ![order[s.k + run]] = t.val] ELSE s.block]
        one(s, i) ==
            DecodeAc(s, src, dtbl, Se, coefficient, LAMBDA t, n : [s EXCEPT !.r = t, !.k = Se + 1])
    IN  Iterate(Se, one, [r |-> r, k |-> 1, block |-> block])
=============================================================================
