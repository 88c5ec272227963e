------------------------- MODULE JpegMemory_proofs -------------------------
(***************************************************************************)
(* The memory manager gives out aligned objects that never overlap, and    *)
(* gives back all it took, for every size of the heap and the disk, every  *)
(* slop, chunk and alignment and every sequence of clients' calls.         *)
(***************************************************************************)
EXTENDS JpegMemory, SequenceTheorems, FiniteSetTheorems, WellFoundedInduction, TLAPS

-----------------------------------------------------------------------------
(* Induction and loops.                                                    *)

(* A set of numbers that is not empty has a least element: among the        *)
(* initial segments that end in it, all of them finite, one is minimal.     *)
LEMMA LeastNumber ==
    ASSUME NEW T \in SUBSET Nat, T # {}
    PROVE  \E x \in T : \A y \in T : x <= y
<1>1. PICK n \in T : TRUE
  OBVIOUS
<1> DEFINE R == StrictSubsetOrdering(0..n)
           U == {0..t : t \in {u \in T : u <= n}}
<1>2. IsWellFoundedOn(R, SUBSET (0..n))
  <2>1. IsFiniteSet(0..n)
    BY FS_Interval
  <2>2. FiniteSubsetsOf(0..n) = SUBSET (0..n)
    BY <2>1, FS_FiniteSubsetsOfFinite
  <2>3. IsWellFoundedOn(R, FiniteSubsetsOf(0..n))
    BY FS_StrictSubsetOrderingWellFounded
  <2> QED
    BY <2>2, <2>3
<1>3. U \subseteq SUBSET (0..n) /\ U # {}
  <2>1. 0..n \in U
    OBVIOUS
  <2>2. ASSUME NEW t \in T, t <= n
        PROVE  0..t \in SUBSET (0..n)
    BY <2>2
  <2> QED
    BY <2>1, <2>2
<1>4. PICK A \in U : \A B \in U : ~(<<B, A>> \in R)
  <2> HIDE DEF U, R
  <2> QED
    BY <1>2, <1>3, WFMin
<1>5. PICK x \in T : x <= n /\ A = 0..x
  OBVIOUS
<1>6. ASSUME NEW y \in T, y < x
      PROVE  FALSE
  <2>1. 0..y \in U
    BY <1>5, <1>6
  <2>2. 0..y \subseteq 0..x /\ 0..y # 0..x
    <3>1. x \in 0..x /\ x \notin 0..y
      BY <1>6
    <3>2. ASSUME NEW z \in 0..y
          PROVE  z \in 0..x
      BY <1>6
    <3> QED
      BY <3>1, <3>2
  <2>3. <<0..y, A>> \in R
    <3>1. 0..y \in SUBSET (0..n) /\ 0..x \in SUBSET (0..n)
      BY <1>3, <2>1, <1>5
    <3> QED
      BY <2>2, <1>5, <3>1 DEF StrictSubsetOrdering
  <2> QED
    BY <2>1, <2>3, <1>4
<1> QED
  BY <1>6

(* Induction over the numbers, for a set of them.                           *)
LEMMA Induction ==
    ASSUME NEW S \in SUBSET Nat, 0 \in S, \A n \in S : n + 1 \in S
    PROVE  \A n \in Nat : n \in S
<1> SUFFICES ASSUME Nat \ S # {}
             PROVE  FALSE
  OBVIOUS
<1>1. PICK x \in Nat \ S : \A y \in Nat \ S : x <= y
  BY LeastNumber
<1>2. x - 1 \in S
  BY <1>1
<1> QED
  BY <1>2

(* What holds before a loop and is kept by each of its steps holds after it. *)
LEMMA LoopInvariant ==
    ASSUME NEW n \in Nat, NEW loop, NEW Good,
           loop[0] \in Good,
           \A i \in 1..n : loop[i - 1] \in Good => loop[i] \in Good
    PROVE  \A i \in 0..n : loop[i] \in Good
<1> DEFINE S == {i \in Nat : i <= n => loop[i] \in Good}
<1>1. 0 \in S
  OBVIOUS
<1>2. \A i \in S : i + 1 \in S
  OBVIOUS
<1>3. \A i \in Nat : i \in S
  <2> HIDE DEF S
  <2>1. S \in SUBSET Nat
    BY DEF S
  <2> QED
    BY <1>1, <1>2, <2>1, Induction
<1> QED
  BY <1>3

-----------------------------------------------------------------------------
(* The space of a list of pools.                                           *)

Block ==
    {b \in [bytes_used : Nat, bytes_left : Nat, malloced : Nat] :
        /\ b.bytes_used % ALIGN_TYPE = 0
        /\ b.bytes_used + b.bytes_left + HDR = b.malloced}

Space(list) == Iterate(Len(list), LAMBDA n, k : n + list[k].malloced, 0)
SpaceFreed(list) == Iterate(Len(list), LAMBDA n, k : n + FreedSpace(list[k]), 0)

(* Numbers added up one after the other have sums, and only one each.       *)
LEMMA SumsExist ==
    ASSUME NEW f, NEW n \in Nat, \A k \in 1..n : f[k] \in Nat
    PROVE  \E sum : /\ sum = [k \in 0..n |-> IF k = 0 THEN 0 ELSE sum[k - 1] + f[k]]
                    /\ \A k \in 0..n : sum[k] \in Nat
<1> DEFINE Rec(sum, m) == sum = [k \in 0..m |-> IF k = 0 THEN 0 ELSE sum[k - 1] + f[k]]
           S == {m \in Nat : \E sum : Rec(sum, m)}
<1>1. 0 \in S
  <2>1. Rec([k \in 0..0 |-> 0], 0)
    OBVIOUS
  <2> QED
    BY <2>1
<1>2. ASSUME NEW m \in S
      PROVE  m + 1 \in S
  <2>1. PICK sum : Rec(sum, m)
    OBVIOUS
  <2> DEFINE next == [k \in 0..(m + 1) |-> IF k <= m THEN sum[k] ELSE sum[m] + f[m + 1]]
  <2>2. Rec(next, m + 1)
    <3>1. ASSUME NEW k \in 0..(m + 1)
          PROVE  next[k] = IF k = 0 THEN 0 ELSE next[k - 1] + f[k]
      BY <2>1
    <3> QED
      BY <3>1
  <2> HIDE DEF next
  <2> QED
    BY <2>2
<1>3. n \in S
  <2> HIDE DEF S
  <2>1. S \in SUBSET Nat
    BY DEF S
  <2> QED
    BY <1>1, <1>2, <2>1, Induction
<1>5. PICK sum : sum = [k \in 0..n |-> IF k = 0 THEN 0 ELSE sum[k - 1] + f[k]]
  BY <1>3
<1>6. sum[0] = 0 /\ \A k \in 1..n : sum[k] = sum[k - 1] + f[k]
  BY <1>5
<1>7. \A k \in 0..n : sum[k] \in Nat
  <2> DEFINE Number == Nat
  <2>1. \A k \in 1..n : sum[k - 1] \in Number => sum[k] \in Number
    BY <1>6
  <2>2. sum[0] \in Number
    BY <1>6
  <2> HIDE DEF Number
  <2>3. \A k \in 0..n : sum[k] \in Number
    BY <2>1, <2>2, LoopInvariant
  <2> QED
    BY <2>3 DEF Number
<1> QED
  BY <1>5, <1>7

IsSum(sum, f, n) == sum[0] = 0 /\ \A k \in 1..n : sum[k] = sum[k - 1] + f[k]

LEMMA SumsUnique ==
    ASSUME NEW n \in Nat, NEW f, NEW g, NEW h, IsSum(g, f, n), IsSum(h, f, n)
    PROVE  g[n] = h[n]
<1> USE DEF IsSum
<1> DEFINE S == {k \in Nat : k <= n => g[k] = h[k]}
<1>1. 0 \in S
  OBVIOUS
<1>2. \A k \in S : k + 1 \in S
  <2> SUFFICES ASSUME NEW k \in S, k + 1 <= n
               PROVE  g[k + 1] = h[k + 1]
    OBVIOUS
  <2>1. g[k] = h[k] /\ k + 1 \in 1..n /\ (k + 1) - 1 = k
    OBVIOUS
  <2> QED
    BY <2>1
<1>3. n \in S
  <2> HIDE DEF S
  <2>1. S \in SUBSET Nat
    BY DEF S
  <2> QED
    BY <1>1, <1>2, <2>1, Induction
<1> QED
  BY <1>3

(* The space of a list is the last of its sums, and the space free_pool     *)
(* counts is that which malloc gave.                                        *)
LEMMA SpaceSums ==
    ASSUME NEW list \in Seq(Block)
    PROVE  \E sum : /\ sum[0] = 0
                    /\ \A k \in 1..Len(list) : sum[k] = sum[k - 1] + list[k].malloced
                    /\ \A k \in 0..Len(list) : sum[k] \in Nat
                    /\ sum[Len(list)] = Space(list)
                    /\ sum[Len(list)] = SpaceFreed(list)
<1> DEFINE n == Len(list)
           f == [k \in 1..n |-> list[k].malloced]
           Rec(s) == s = [k \in 0..n |-> IF k = 0 THEN 0 ELSE s[k - 1] + list[k].malloced]
           RecFreed(s) == s = [k \in 0..n |-> IF k = 0 THEN 0 ELSE s[k - 1] + FreedSpace(list[k])]
<1>1. n \in Nat /\ \A k \in 1..n : list[k] \in Block
  OBVIOUS
<1>2. \A k \in 1..n : f[k] \in Nat /\ f[k] = list[k].malloced /\ FreedSpace(list[k]) = list[k].malloced
  BY <1>1, MemoryAssumption DEF Block, FreedSpace
<1> HIDE DEF n, f
<1>3. PICK sum : /\ sum = [k \in 0..n |-> IF k = 0 THEN 0 ELSE sum[k - 1] + f[k]]
                 /\ \A k \in 0..n : sum[k] \in Nat
  BY <1>1, <1>2, SumsExist
<1>4. sum[0] = 0 /\ \A k \in 1..n : sum[k] = sum[k - 1] + list[k].malloced
  BY <1>1, <1>2, <1>3
<1>5. Rec(sum) /\ RecFreed(sum)
  BY <1>1, <1>2, <1>3
<1> DEFINE g == CHOOSE s : Rec(s)
           h == CHOOSE s : RecFreed(s)
<1>6. Rec(g) /\ RecFreed(h)
  BY <1>5
<1>7. Space(list) = g[n] /\ SpaceFreed(list) = h[n]
  BY DEF Space, SpaceFreed, Iterate, n
<1> HIDE DEF g, h
<1>8. /\ g[0] = 0 /\ \A k \in 1..n : g[k] = g[k - 1] + list[k].malloced
      /\ h[0] = 0 /\ \A k \in 1..n : h[k] = h[k - 1] + list[k].malloced
  BY <1>1, <1>2, <1>6
<1> DEFINE m == [k \in 1..n |-> list[k].malloced]
<1>9. g[n] = sum[n] /\ h[n] = sum[n]
  <2>1. IsSum(g, m, n) /\ IsSum(h, m, n) /\ IsSum(sum, m, n)
    BY <1>4, <1>8 DEF IsSum
  <2> HIDE DEF m
  <2> QED
    BY <1>1, <2>1, SumsUnique
<1> QED
  BY <1>3, <1>4, <1>7, <1>9 DEF n

LEMMA SpaceIs ==
    ASSUME NEW list \in Seq(Block), NEW sum, sum[0] = 0,
           \A k \in 1..Len(list) : sum[k] = sum[k - 1] + list[k].malloced
    PROVE  sum[Len(list)] = Space(list)
<1> DEFINE n == Len(list)
           m == [k \in 1..n |-> list[k].malloced]
<1>1. PICK g : /\ g[0] = 0
               /\ \A k \in 1..n : g[k] = g[k - 1] + list[k].malloced
               /\ g[n] = Space(list)
  BY SpaceSums
<1>2. n \in Nat
  OBVIOUS
<1> HIDE DEF n
<1>3. IsSum(g, m, n) /\ IsSum(sum, m, n)
  BY <1>1 DEF n, IsSum
<1> HIDE DEF m
<1>4. g[n] = sum[n]
  BY <1>2, <1>3, SumsUnique
<1> QED
  BY <1>1, <1>4 DEF n

LEMMA SpaceType ==
    ASSUME NEW list \in Seq(Block)
    PROVE  Space(list) \in Nat /\ SpaceFreed(list) = Space(list)
<1>1. PICK sum : /\ \A k \in 0..Len(list) : sum[k] \in Nat
                 /\ sum[Len(list)] = Space(list)
                 /\ sum[Len(list)] = SpaceFreed(list)
  BY SpaceSums
<1> QED
  BY <1>1

LEMMA SpaceOfNothing ==
    Space(<<>>) = 0
<1>1. <<>> \in Seq(Block) /\ Len(<<>>) = 0
  OBVIOUS
<1> QED
  BY <1>1, SpaceSums

LEMMA SpaceOfOne ==
    ASSUME NEW b \in Block
    PROVE  Space(<<b>>) = b.malloced
<1> DEFINE list == <<b>>
<1>1. list \in Seq(Block) /\ Len(list) = 1 /\ list[1] = b /\ b.malloced \in Nat
  BY DEF Block
<1> HIDE DEF list
<1>2. PICK sum : /\ sum[0] = 0
                 /\ \A k \in 1..Len(list) : sum[k] = sum[k - 1] + list[k].malloced
                 /\ sum[Len(list)] = Space(list)
  BY <1>1, SpaceSums
<1> QED
  BY <1>1, <1>2 DEF list

LEMMA SpaceOfBoth ==
    ASSUME NEW a \in Seq(Block), NEW b \in Seq(Block)
    PROVE  Space(a \o b) = Space(a) + Space(b)
<1>1. PICK f : /\ f[0] = 0
               /\ \A k \in 1..Len(a) : f[k] = f[k - 1] + a[k].malloced
               /\ \A k \in 0..Len(a) : f[k] \in Nat
               /\ f[Len(a)] = Space(a)
  BY SpaceSums
<1>2. PICK g : /\ g[0] = 0
               /\ \A k \in 1..Len(b) : g[k] = g[k - 1] + b[k].malloced
               /\ \A k \in 0..Len(b) : g[k] \in Nat
               /\ g[Len(b)] = Space(b)
  BY SpaceSums
<1> DEFINE c == a \o b
           m == Len(a)
           n == Len(b)
           sum == [k \in 0..(m + n) |-> IF k <= m THEN f[k] ELSE f[m] + g[k - m]]
<1>3. /\ c \in Seq(Block) /\ Len(c) = m + n /\ m \in Nat /\ n \in Nat
      /\ \A k \in 1..(m + n) : c[k] = IF k <= m THEN a[k] ELSE b[k - m]
  BY ConcatProperties
<1> HIDE DEF c, m, n
<1>4. sum[0] = 0
  BY <1>1, <1>3
<1>5. ASSUME NEW k \in 1..(m + n)
      PROVE  sum[k] = sum[k - 1] + c[k].malloced
  <2>1. CASE k <= m
    <3>1. k \in 1..m /\ c[k] = a[k] /\ sum[k] = f[k] /\ sum[k - 1] = f[k - 1]
      BY <1>3, <2>1
    <3> QED
      BY <1>1, <3>1 DEF m
  <2>2. CASE k > m
    <3>1. k - m \in 1..n /\ g[k - m] = g[(k - m) - 1] + b[k - m].malloced
      BY <1>2, <1>3, <2>2 DEF n
    <3>2. b[k - m] \in Block
      BY <1>3, <3>1 DEF n
    <3>3. b[k - m].malloced \in Nat
      BY <3>2 DEF Block
    <3>4. sum[k - 1] = f[m] + g[(k - m) - 1]
      <4>1. CASE k - 1 = m
        BY <1>1, <1>2, <1>3, <4>1 DEF m
      <4>2. CASE k - 1 # m
        BY <1>3, <2>2, <4>2
      <4> QED
        BY <4>1, <4>2
    <3>5. f[m] \in Nat /\ g[(k - m) - 1] \in Nat
      BY <1>1, <1>2, <1>3, <3>1 DEF m, n
    <3>6. sum[k] = f[m] + g[k - m] /\ c[k] = b[k - m]
      BY <1>3, <2>2
    <3> QED
      BY <3>1, <3>3, <3>4, <3>5, <3>6
  <2> QED
    BY <1>3, <2>1, <2>2
<1>6. sum[m + n] = Space(c)
  <2> HIDE DEF sum
  <2> QED
    BY <1>3, <1>4, <1>5, SpaceIs
<1>7. sum[m + n] = f[m] + g[n]
  BY <1>1, <1>2, <1>3 DEF m, n
<1> QED
  BY <1>1, <1>2, <1>6, <1>7 DEF c, m, n

(* Only what malloc gave counts.                                            *)
LEMMA SpaceOfSame ==
    ASSUME NEW a \in Seq(Block), NEW b \in Seq(Block), Len(a) = Len(b),
           \A k \in 1..Len(a) : a[k].malloced = b[k].malloced
    PROVE  Space(a) = Space(b)
<1>1. PICK f : /\ f[0] = 0
               /\ \A k \in 1..Len(a) : f[k] = f[k - 1] + a[k].malloced
               /\ f[Len(a)] = Space(a)
  BY SpaceSums
<1>2. \A k \in 1..Len(b) : f[k] = f[k - 1] + b[k].malloced
  BY <1>1
<1>3. f[Len(b)] = Space(b)
  BY <1>1, <1>2, SpaceIs
<1> QED
  BY <1>1, <1>3
-----------------------------------------------------------------------------
(* Alignment.                                                              *)

IsMultiple(x, n) == \E k \in Int : x = n * k

LEMMA MultipleDef ==
    ASSUME NEW x \in Int, NEW n \in Nat \ {0}
    PROVE  x % n = 0 <=> IsMultiple(x, n)
<1>1. ASSUME x % n = 0 PROVE x = n * (x \div n) /\ x \div n \in Int
  BY <1>1
<1>2. ASSUME NEW k \in Int, x = n * k PROVE x % n = 0
  <2>1. (n * k) % n = 0
    OBVIOUS
  <2> QED
    BY <1>2, <2>1
<1> QED
  BY <1>1, <1>2 DEF IsMultiple

LEMMA SumAligned ==
    ASSUME NEW x \in Nat, NEW y \in Nat, x % ALIGN_TYPE = 0, y % ALIGN_TYPE = 0
    PROVE  (x + y) % ALIGN_TYPE = 0
<1>1. ALIGN_TYPE \in Nat \ {0}
  BY MemoryAssumption
<1>2. IsMultiple(x, ALIGN_TYPE) /\ IsMultiple(y, ALIGN_TYPE)
  BY <1>1, MultipleDef
<1>3. PICK j \in Int, k \in Int : x = ALIGN_TYPE * j /\ y = ALIGN_TYPE * k
  BY <1>2 DEF IsMultiple
<1>4. x + y = ALIGN_TYPE * (j + k)
  BY <1>1, <1>3
<1> DEFINE z == x + y
<1>5. IsMultiple(z, ALIGN_TYPE) /\ z \in Int
  BY <1>4 DEF IsMultiple
<1> HIDE DEF z
<1>6. z % ALIGN_TYPE = 0
  BY <1>1, <1>5, MultipleDef
<1> QED
  BY <1>6 DEF z

(* Rounding up keeps a size within what malloc may be asked for.            *)
LEMMA AlignedSize ==
    ASSUME NEW size \in Nat
    PROVE  /\ Aligned(size) \in Nat
           /\ Aligned(size) % ALIGN_TYPE = 0
           /\ size <= Aligned(size)
           /\ size <= MAX_ALLOC_CHUNK - HDR => Aligned(size) <= MAX_ALLOC_CHUNK - HDR
<1>1. ALIGN_TYPE \in Nat \ {0} /\ MAX_ALLOC_CHUNK \in Nat /\ HDR \in Nat
  BY MemoryAssumption
<1> DEFINE n == ALIGN_TYPE
           q == (size + n - 1) \div n
<1>2. q \in Nat /\ n * q <= size + n - 1 /\ size + n - 1 < n * q + n
  BY <1>1
<1>3. Aligned(size) = n * q
  BY <1>1 DEF Aligned
<1>4. n * q \in Nat /\ size <= n * q
  BY <1>1, <1>2
<1>5. Aligned(size) % n = 0
  <2> DEFINE z == Aligned(size)
  <2>1. IsMultiple(z, n) /\ z \in Int
    BY <1>2, <1>3, <1>4 DEF IsMultiple
  <2> HIDE DEF z
  <2>2. z % n = 0
    BY <1>1, <2>1, MultipleDef
  <2> QED
    BY <2>2 DEF z
<1>6. ASSUME size <= MAX_ALLOC_CHUNK - HDR
      PROVE  n * q <= MAX_ALLOC_CHUNK - HDR
  <2>1. IsMultiple(MAX_ALLOC_CHUNK, n) /\ IsMultiple(HDR, n)
    BY <1>1, MemoryAssumption, MultipleDef
  <2>2. PICK j \in Int, k \in Int : MAX_ALLOC_CHUNK = n * j /\ HDR = n * k
    BY <2>1 DEF IsMultiple
  <2> DEFINE m == j - k
  <2>3. MAX_ALLOC_CHUNK - HDR = n * m /\ m \in Int
    BY <1>1, <2>2
  <2> HIDE DEF q, m
  <2>4. n * q < n * m + n
    BY <1>1, <1>2, <1>6, <2>3
  <2>5. q <= m
    <3>1. SUFFICES ASSUME q >= m + 1
                   PROVE  FALSE
      BY <1>2, <2>3
    <3>2. n * q >= n * (m + 1)
      BY <1>1, <1>2, <2>3, <3>1
    <3>3. n * (m + 1) = n * m + n
      BY <1>1, <2>3
    <3> QED
      BY <1>1, <1>2, <2>3, <2>4, <3>2, <3>3
  <2>6. n * q <= n * m
    BY <1>1, <1>2, <2>3, <2>5
  <2> QED
    BY <2>3, <2>6
<1> QED
  BY <1>3, <1>4, <1>5, <1>6

-----------------------------------------------------------------------------
(* The pools.  What is said of the manager in an invariant is said of any   *)
(* manager s that a routine has in hand.                                    *)

Fields ==
    {"state", "failed", "heap", "files", "total_space_allocated", "small_list", "large_list",
     "objects", "last_rowsperchunk", "arrays"}

ObjectOK(s, o) ==
    /\ o.pool \in Pool /\ o.block \in DOMAIN s.small_list[o.pool]
    /\ o.at \in Nat /\ o.size \in Nat /\ o.at % ALIGN_TYPE = 0
    /\ o.at + o.size <= s.small_list[o.pool][o.block].bytes_used

Apart(o, p) ==
    (o # p /\ o.pool = p.pool /\ o.block = p.block) => o.at + o.size <= p.at \/ p.at + p.size <= o.at

PoolsOK(s) ==
    /\ s.small_list \in [Pool -> Seq(Block)]
    /\ s.large_list \in [Pool -> Seq(Block)]
    /\ \A o \in s.objects : ObjectOK(s, o)
    /\ \A o, p \in s.objects : Apart(o, p)

Held(small, large) == Space(small[0]) + Space(small[1]) + Space(large[0]) + Space(large[1])

SpaceOK(s) ==
    /\ s.total_space_allocated = s.heap
    /\ s.heap = CONTROL + Held(s.small_list, s.large_list)

MemoryOK(s) ==
    /\ DOMAIN s = Fields
    /\ s.state = "alive" /\ s.failed \in BOOLEAN
    /\ PoolsOK(s)
    /\ SpaceOK(s)

(* What a routine leaves alone: the pools, the virtual arrays.              *)
SamePools(s, t) ==
    /\ DOMAIN t = DOMAIN s
    /\ t.state = s.state /\ t.heap = s.heap /\ t.total_space_allocated = s.total_space_allocated
    /\ t.small_list = s.small_list /\ t.large_list = s.large_list /\ t.objects = s.objects

SameArrays(s, t) ==
    t.arrays = s.arrays /\ t.files = s.files

LEMMA SamePoolsOK ==
    ASSUME NEW s, NEW t, MemoryOK(s), SamePools(s, t), t.failed \in BOOLEAN
    PROVE  MemoryOK(t)
<1>1. PoolsOK(t)
  BY DEF MemoryOK, SamePools, PoolsOK, ObjectOK
<1>2. SpaceOK(t)
  BY DEF MemoryOK, SamePools, SpaceOK
<1> QED
  BY <1>1, <1>2 DEF MemoryOK, SamePools

LEMMA FailedOK ==
    ASSUME NEW s, MemoryOK(s)
    PROVE  /\ MemoryOK(Failed(s)) /\ SamePools(s, Failed(s)) /\ SameArrays(s, Failed(s))
           /\ Failed(s).failed /\ Failed(s).last_rowsperchunk = s.last_rowsperchunk
<1>1. /\ SamePools(s, Failed(s)) /\ SameArrays(s, Failed(s)) /\ Failed(s).failed = TRUE
      /\ Failed(s).last_rowsperchunk = s.last_rowsperchunk
  BY DEF MemoryOK, Fields, Failed, SamePools, SameArrays
<1>2. MemoryOK(Failed(s))
  BY <1>1, SamePoolsOK
<1> QED
  BY <1>1, <1>2

LEMMA TakenOK ==
    ASSUME NEW b \in Block, NEW size \in Nat, size % ALIGN_TYPE = 0, size <= b.bytes_left
    PROVE  /\ Taken(b, size) \in Block
           /\ Taken(b, size).bytes_used = b.bytes_used + size
           /\ Taken(b, size).malloced = b.malloced
<1>1. b.bytes_used \in Nat /\ b.bytes_left \in Nat /\ b.malloced \in Nat /\ b.bytes_used % ALIGN_TYPE = 0
  BY DEF Block
<1>2. (b.bytes_used + size) % ALIGN_TYPE = 0
  BY <1>1, SumAligned
<1>3. /\ Taken(b, size).bytes_used = b.bytes_used + size
      /\ Taken(b, size).bytes_left = b.bytes_left - size
      /\ Taken(b, size).malloced = b.malloced
  BY DEF Block, Taken
<1>5. Taken(b, size) \in [bytes_used : Nat, bytes_left : Nat, malloced : Nat]
  <2>1. b \in [bytes_used : Nat, bytes_left : Nat, malloced : Nat]
    BY DEF Block
  <2>2. b.bytes_used + size \in Nat /\ b.bytes_left - size \in Nat
    BY <1>1
  <2> QED
    BY <2>1, <2>2 DEF Taken
<1>4. b.bytes_used + size + (b.bytes_left - size) + HDR = b.malloced
  BY <1>1, MemoryAssumption DEF Block
<1> QED
  BY <1>2, <1>3, <1>4, <1>5 DEF Block


(* A piece of a block: the new object starts where the others ended.        *)
LEMMA CarveOK ==
    ASSUME NEW s, MemoryOK(s), NEW pool \in Pool, NEW i \in DOMAIN s.small_list[pool],
           NEW size \in Nat, size % ALIGN_TYPE = 0, size <= s.small_list[pool][i].bytes_left
    PROVE  /\ MemoryOK(Carve(s, pool, i, size)) /\ SameArrays(s, Carve(s, pool, i, size))
           /\ Carve(s, pool, i, size).failed = s.failed
           /\ Carve(s, pool, i, size).last_rowsperchunk = s.last_rowsperchunk
<1> DEFINE t == Carve(s, pool, i, size)
           list == s.small_list[pool]
           b == list[i]
           taken == Taken(b, size)
           o == [pool |-> pool, block |-> i, size |-> size, at |-> b.bytes_used]
<1>1. /\ DOMAIN t = Fields /\ t.state = "alive" /\ t.failed = s.failed
      /\ t.heap = s.heap /\ t.total_space_allocated = s.total_space_allocated
      /\ t.large_list = s.large_list /\ t.arrays = s.arrays /\ t.files = s.files
      /\ t.last_rowsperchunk = s.last_rowsperchunk
      /\ t.small_list = [s.small_list EXCEPT ![pool][i] = taken]
      /\ t.objects = s.objects \cup {o}
  BY DEF MemoryOK, Fields, Carve
<1>2. s.small_list \in [Pool -> Seq(Block)] /\ list \in Seq(Block) /\ b \in Block
  BY DEF MemoryOK, PoolsOK
<1>3. taken \in Block /\ taken.bytes_used = b.bytes_used + size /\ taken.malloced = b.malloced
  BY <1>2, TakenOK
<1>4. b.bytes_used \in Nat /\ b.bytes_used % ALIGN_TYPE = 0
  BY <1>2 DEF Block
<1> HIDE DEF taken
<1> DEFINE list2 == [list EXCEPT ![i] = taken]
<1>5. /\ list2 \in Seq(Block) /\ Len(list2) = Len(list) /\ DOMAIN list2 = DOMAIN list
      /\ list2[i] = taken /\ \A j \in DOMAIN list : j # i => list2[j] = list[j]
  BY <1>2, <1>3
<1>6. t.small_list = [s.small_list EXCEPT ![pool] = list2]
  BY <1>1, <1>2
<1> HIDE DEF t, list2
<1>7. /\ t.small_list \in [Pool -> Seq(Block)]
      /\ t.small_list[pool] = list2 /\ \A p \in Pool : p # pool => t.small_list[p] = s.small_list[p]
  BY <1>2, <1>5, <1>6
<1>8. \A p \in Pool : Space(t.small_list[p]) = Space(s.small_list[p])
  <2>1. Space(list2) = Space(list)
    <3>1. \A k \in 1..Len(list) : list2[k].malloced = list[k].malloced
      BY <1>2, <1>3, <1>5
    <3> HIDE DEF list
    <3> QED
      BY <1>2, <1>5, <3>1, SpaceOfSame
  <2> QED
    BY <1>7, <2>1
<1>9. SpaceOK(t)
  <2>1. Held(t.small_list, t.large_list) = Held(s.small_list, s.large_list)
    BY <1>1, <1>8 DEF Held, Pool, JPOOL_PERMANENT, JPOOL_IMAGE
  <2> QED
    BY <1>1, <2>1 DEF MemoryOK, SpaceOK
<1>10. /\ o.pool = pool /\ o.block = i /\ o.size = size /\ o.at = b.bytes_used
  OBVIOUS
<1>11. ASSUME NEW q \in s.objects
       PROVE  /\ ObjectOK(t, q)
              /\ q.at \in Nat /\ q.size \in Nat
              /\ (q.pool = pool /\ q.block = i) => q.at + q.size <= b.bytes_used
  <2>1. ObjectOK(s, q)
    BY DEF MemoryOK, PoolsOK
  <2>2. (q.pool = pool /\ q.block = i) => q.at + q.size <= b.bytes_used
    BY <2>1 DEF ObjectOK
  <2>3. q.pool \in Pool /\ q.block \in DOMAIN t.small_list[q.pool]
    BY <1>5, <1>7, <2>1 DEF ObjectOK
  <2>4. q.at \in Nat /\ q.size \in Nat /\ q.at % ALIGN_TYPE = 0
    BY <2>1 DEF ObjectOK
  <2>5. q.at + q.size <= t.small_list[q.pool][q.block].bytes_used
    <3>1. CASE q.pool = pool /\ q.block = i
      BY <1>3, <1>4, <1>5, <1>7, <2>2, <2>4, <3>1
    <3>2. CASE ~(q.pool = pool /\ q.block = i)
      <4>1. t.small_list[q.pool][q.block] = s.small_list[q.pool][q.block]
        BY <1>5, <1>7, <2>1, <3>2 DEF ObjectOK
      <4> QED
        BY <2>1, <4>1 DEF ObjectOK
    <3> QED
      BY <3>1, <3>2
  <2> QED
    BY <2>2, <2>3, <2>4, <2>5 DEF ObjectOK
<1>12. ObjectOK(t, o)
  <2>1. t.small_list[o.pool][o.block] = taken /\ o.block \in DOMAIN t.small_list[o.pool]
    BY <1>5, <1>7, <1>10
  <2> HIDE DEF o
  <2> QED
    BY <1>3, <1>4, <1>10, <2>1 DEF ObjectOK
<1>13. ASSUME NEW p \in t.objects, NEW q \in t.objects
       PROVE  Apart(p, q)
  <2> HIDE DEF o
  <2>1. CASE p \in s.objects /\ q \in s.objects
    BY <2>1 DEF MemoryOK, PoolsOK
  <2>2. CASE p = o /\ q \in s.objects
    BY <1>4, <1>10, <1>11, <2>2 DEF Apart
  <2>3. CASE p \in s.objects /\ q = o
    BY <1>4, <1>10, <1>11, <2>3 DEF Apart
  <2>4. CASE p = o /\ q = o
    BY <2>4 DEF Apart
  <2> QED
    BY <1>1, <2>1, <2>2, <2>3, <2>4
<1>14. PoolsOK(t)
  <2>1. \A p \in t.objects : ObjectOK(t, p)
    BY <1>1, <1>11, <1>12
  <2>2. t.large_list \in [Pool -> Seq(Block)]
    BY <1>1 DEF MemoryOK, PoolsOK
  <2> QED
    BY <1>7, <1>13, <2>1, <2>2 DEF PoolsOK
<1> QED
  BY <1>1, <1>9, <1>14 DEF MemoryOK, SameArrays, t

LEMMA PowerOfTwo ==
    ASSUME NEW i \in 0..10
    PROVE  2^i \in Nat \ {0}
<1>1. i = 0 \/ i = 1 \/ i = 2 \/ i = 3 \/ i = 4 \/ i = 5 \/ i = 6 \/ i = 7 \/ i = 8 \/ i = 9 \/ i = 10
  OBVIOUS
<1>2. \/ 2^i = 2^0 \/ 2^i = 2^1 \/ 2^i = 2^2 \/ 2^i = 2^3 \/ 2^i = 2^4 \/ 2^i = 2^5
      \/ 2^i = 2^6 \/ 2^i = 2^7 \/ 2^i = 2^8 \/ 2^i = 2^9 \/ 2^i = 2^10
  BY <1>1, Zenon
<1> QED
  BY <1>2

(* A new pool at the end of its list: whatever slop there was, the request  *)
(* fits, and the account grows by what malloc gave.                         *)
LEMMA NewPoolOK ==
    ASSUME NEW s, MemoryOK(s), NEW pool \in Pool,
           NEW size \in Nat, size <= MAX_ALLOC_CHUNK - HDR
    PROVE  LET t == NewPool(s, pool, size)
           IN  /\ MemoryOK(t) /\ SameArrays(s, t)
               /\ t.last_rowsperchunk = s.last_rowsperchunk
               /\ ~s.failed /\ ~t.failed =>
                    /\ Len(t.small_list[pool]) \in DOMAIN t.small_list[pool]
                    /\ size <= t.small_list[pool][Len(t.small_list[pool])].bytes_left
<1> DEFINE t == NewPool(s, pool, size)
           min_request == size + HDR
           slops == IF s.small_list[pool] = <<>> THEN FirstSlop[pool] ELSE ExtraSlop[pool]
           slop(i) == Least(slops, MAX_ALLOC_CHUNK - min_request) \div 2^i
           possible == {i \in 0..10 : /\ i = 0 \/ slop(i) >= MIN_SLOP
                                      /\ jpeg_get(s, min_request + slop(i)) # 0}
           got == slop(CHOOSE i \in possible : \A j \in possible : i <= j)
           b == [bytes_used |-> 0, bytes_left |-> size + got, malloced |-> min_request + got]
<1>1. CASE possible = {}
  <2>1. t = Failed(s)
    BY <1>1 DEF NewPool
  <2> HIDE DEF t
  <2> QED
    BY <2>1, FailedOK DEF t
<1>2. CASE possible # {}
  <2>1. /\ DOMAIN t = Fields /\ t.state = "alive" /\ t.failed = s.failed
        /\ t.heap = s.heap + min_request + got
        /\ t.total_space_allocated = s.total_space_allocated + min_request + got
        /\ t.large_list = s.large_list /\ t.arrays = s.arrays /\ t.files = s.files
        /\ t.last_rowsperchunk = s.last_rowsperchunk /\ t.objects = s.objects
        /\ t.small_list = [s.small_list EXCEPT ![pool] = Append(@, b)]
    <3>1. t = [s EXCEPT !.heap = @ + min_request + got,
                       !.total_space_allocated = @ + min_request + got,
                       !.small_list[pool] = Append(@, b)]
      BY <1>2 DEF NewPool
    <3> HIDE DEF t, got, b, min_request
    <3> QED
      BY <3>1 DEF MemoryOK, Fields
  <2>2. got \in Nat
    <3>1. possible \in SUBSET Nat
      OBVIOUS
    <3> HIDE DEF possible
    <3>2. \E i \in possible : \A j \in possible : i <= j
      BY <1>2, <3>1, LeastNumber
    <3> DEFINE i == CHOOSE i \in possible : \A j \in possible : i <= j
    <3>3. i \in possible
      BY <3>2
    <3>4. i \in 0..10
      BY <3>3 DEF possible
    <3> HIDE DEF i
    <3>5. 2^i \in Nat \ {0}
      BY <3>4, PowerOfTwo
    <3>6. slops \in Nat
      BY MemoryAssumption
    <3> HIDE DEF slops
    <3>7. Least(slops, MAX_ALLOC_CHUNK - min_request) \in Nat
      BY <3>6, MemoryAssumption DEF Least
    <3> DEFINE m == Least(slops, MAX_ALLOC_CHUNK - min_request)
               n == 2^i
    <3>8. m \in Nat /\ n \in Nat \ {0}
      BY <3>5, <3>7
    <3> HIDE DEF m, n
    <3>9. m \div n \in Nat
      BY <3>8
    <3> QED
      BY <3>9 DEF m, n, i
  <2> HIDE DEF got
  <2>3. b \in Block
    <3>1. 0 % ALIGN_TYPE = 0
      BY MemoryAssumption
    <3>2. b \in [bytes_used : Nat, bytes_left : Nat, malloced : Nat]
      BY <2>2, MemoryAssumption
    <3>3. b.bytes_used = 0 /\ b.bytes_left = size + got /\ b.malloced = min_request + got
      OBVIOUS
    <3> HIDE DEF b
    <3>4. 0 + (size + got) + HDR = min_request + got
      BY <2>2, MemoryAssumption
    <3> QED
      BY <3>1, <3>2, <3>3, <3>4 DEF Block
  <2>4. b.bytes_left = size + got /\ b.malloced = min_request + got
    OBVIOUS
  <2> DEFINE list == s.small_list[pool]
             list2 == Append(list, b)
  <2>5. s.small_list \in [Pool -> Seq(Block)] /\ list \in Seq(Block)
    BY DEF MemoryOK, PoolsOK
  <2> HIDE DEF t, b, min_request
  <2>6. /\ list2 \in Seq(Block) /\ Len(list2) = Len(list) + 1 /\ Len(list) \in Nat
        /\ DOMAIN list2 = 1..Len(list2) /\ DOMAIN list = 1..Len(list)
        /\ list2[Len(list2)] = b /\ \A j \in DOMAIN list : list2[j] = list[j]
    BY <2>3, <2>5
  <2>7. /\ t.small_list \in [Pool -> Seq(Block)]
        /\ t.small_list[pool] = list2 /\ \A p \in Pool : p # pool => t.small_list[p] = s.small_list[p]
    BY <2>1, <2>5, <2>6
  <2>8. Space(list2) = Space(list) + min_request + got
    <3>1. list2 = list \o <<b>>
      BY <2>3, <2>5
    <3>2. <<b>> \in Seq(Block)
      BY <2>3
    <3>3. Space(list2) = Space(list) + Space(<<b>>)
      <4> HIDE DEF list, list2
      <4> QED
        BY <2>5, <3>1, <3>2, SpaceOfBoth
    <3>4. Space(<<b>>) = min_request + got
      BY <2>3, <2>4, SpaceOfOne
    <3>5. Space(list) \in Nat
      BY <2>5, SpaceType
    <3> HIDE DEF list, list2
    <3> QED
      BY <3>3, <3>4, <3>5, <2>2, MemoryAssumption DEF min_request
  <2> HIDE DEF list2
  <2>9. SpaceOK(t)
    <3>1. \A p \in Pool : Space(s.small_list[p]) \in Nat /\ Space(s.large_list[p]) \in Nat
      <4>1. \A p \in Pool : s.small_list[p] \in Seq(Block) /\ s.large_list[p] \in Seq(Block)
        BY DEF MemoryOK, PoolsOK
      <4> QED
        BY <4>1, SpaceType
    <3>2. 0 \in Pool /\ 1 \in Pool /\ (pool = 0 \/ pool = 1)
      BY DEF Pool, JPOOL_PERMANENT, JPOOL_IMAGE
    <3>3. min_request \in Nat /\ CONTROL \in Nat
      BY MemoryAssumption DEF min_request
    <3>4. Held(t.small_list, t.large_list) = Held(s.small_list, s.large_list) + min_request + got
      <4>1. Space(t.small_list[pool]) = Space(s.small_list[pool]) + min_request + got
        BY <2>7, <2>8
      <4>2. \A p \in Pool : p # pool => Space(t.small_list[p]) = Space(s.small_list[p])
        BY <2>7
      <4>3. CASE pool = 0
        BY <2>1, <2>2, <3>1, <3>2, <3>3, <4>1, <4>2, <4>3 DEF Held
      <4>4. CASE pool = 1
        BY <2>1, <2>2, <3>1, <3>2, <3>3, <4>1, <4>2, <4>4 DEF Held
      <4> QED
        BY <3>2, <4>3, <4>4
    <3>5. Held(s.small_list, s.large_list) \in Nat
      BY <3>1, <3>2 DEF Held
    <3> QED
      BY <2>1, <2>2, <3>3, <3>4, <3>5 DEF MemoryOK, SpaceOK
  <2>10. PoolsOK(t)
    <3>1. ASSUME NEW o \in s.objects
          PROVE  ObjectOK(t, o)
      <4>1. ObjectOK(s, o)
        BY DEF MemoryOK, PoolsOK
      <4>2. /\ o.block \in DOMAIN t.small_list[o.pool]
            /\ t.small_list[o.pool][o.block] = s.small_list[o.pool][o.block]
        <5>1. CASE o.pool = pool
          <6>1. o.block \in DOMAIN list
            BY <4>1, <5>1 DEF ObjectOK
          <6>2. o.block \in DOMAIN list2 /\ list2[o.block] = list[o.block]
            BY <2>6, <6>1
          <6> QED
            BY <2>7, <5>1, <6>2
        <5>2. CASE o.pool # pool
          BY <2>7, <4>1, <5>2 DEF ObjectOK
        <5> QED
          BY <5>1, <5>2
      <4> QED
        BY <4>1, <4>2 DEF ObjectOK
    <3> QED
      BY <2>1, <2>7, <3>1 DEF MemoryOK, PoolsOK
  <2>11. /\ Len(t.small_list[pool]) \in DOMAIN t.small_list[pool]
         /\ size <= t.small_list[pool][Len(t.small_list[pool])].bytes_left
    <3>1. Len(list2) \in DOMAIN list2 /\ list2[Len(list2)] = b
      <4> HIDE DEF list
      <4> QED
        BY <2>6
    <3>2. size <= b.bytes_left
      BY <2>2, <2>4
    <3> QED
      BY <2>7, <3>1, <3>2
  <2> QED
    BY <2>1, <2>9, <2>10, <2>11 DEF MemoryOK, SameArrays, t
<1> QED
  BY <1>1, <1>2

-----------------------------------------------------------------------------
(* The routines that allocate.  They keep the pools in order, leave the     *)
(* virtual arrays alone, and AllocRows alone sets last_rowsperchunk.        *)

Kept(s, t) ==
    MemoryOK(t) /\ SameArrays(s, t) /\ t.last_rowsperchunk = s.last_rowsperchunk

LEMMA AllocSmallOK ==
    ASSUME NEW s, MemoryOK(s), NEW pool \in Pool, NEW sizeofobject \in Nat
    PROVE  Kept(s, alloc_small(s, pool, sizeofobject))
<1> DEFINE size == Aligned(sizeofobject)
           enough == {i \in DOMAIN s.small_list[pool] : s.small_list[pool][i].bytes_left >= size}
           first == CHOOSE i \in enough : \A j \in enough : i <= j
           u == NewPool(s, pool, size)
           t == alloc_small(s, pool, sizeofobject)
<1>1. CASE s.failed
  <2>1. t = s
    BY <1>1 DEF alloc_small
  <2> QED
    BY <2>1 DEF Kept, SameArrays
<1>2. CASE ~s.failed /\ sizeofobject > MAX_ALLOC_CHUNK - HDR
  <2>1. t = Failed(s)
    BY <1>2 DEF alloc_small
  <2> HIDE DEF t
  <2> QED
    BY <2>1, FailedOK DEF Kept, t
<1>3. CASE ~s.failed /\ ~(sizeofobject > MAX_ALLOC_CHUNK - HDR)
  <2>1. size \in Nat /\ size % ALIGN_TYPE = 0 /\ size <= MAX_ALLOC_CHUNK - HDR
    <3>1. sizeofobject <= MAX_ALLOC_CHUNK - HDR
      BY <1>3, MemoryAssumption
    <3> QED
      BY <3>1, AlignedSize
  <2>2. CASE enough # {}
    <3>1. t = Carve(s, pool, first, size)
      BY <1>3, <2>2 DEF alloc_small
    <3>2. enough \in SUBSET Nat
      BY DEF MemoryOK, PoolsOK
    <3> HIDE DEF enough
    <3>3. \E i \in enough : \A j \in enough : i <= j
      BY <2>2, <3>2, LeastNumber
    <3>4. first \in enough
      BY <3>3
    <3> HIDE DEF first
    <3>5. first \in DOMAIN s.small_list[pool] /\ s.small_list[pool][first].bytes_left >= size
      BY <3>4 DEF enough
    <3>6. size <= s.small_list[pool][first].bytes_left
      <4>1. s.small_list[pool][first] \in Block
        BY <3>5 DEF MemoryOK, PoolsOK
      <4> QED
        BY <2>1, <3>5, <4>1 DEF Block
    <3> HIDE DEF size, t
    <3> QED
      BY <2>1, <3>1, <3>5, <3>6, CarveOK DEF Kept, t
  <2>3. CASE enough = {}
    <3> DEFINE last == Len(u.small_list[pool])
    <3>1. t = IF u.failed THEN u ELSE Carve(u, pool, last, size)
      BY <1>3, <2>3 DEF alloc_small
    <3> HIDE DEF t, size
    <3>2. Kept(s, u)
      BY <2>1, NewPoolOK DEF Kept
    <3>3. ~u.failed => last \in DOMAIN u.small_list[pool] /\ size <= u.small_list[pool][last].bytes_left
      BY <1>3, <2>1, NewPoolOK
    <3> HIDE DEF u, last
    <3>4. CASE u.failed
      BY <3>1, <3>2, <3>4 DEF Kept, t
    <3>5. CASE ~u.failed
      <4>1. Kept(u, Carve(u, pool, last, size))
        BY <2>1, <3>2, <3>3, <3>5, CarveOK DEF Kept
      <4> QED
        BY <3>1, <3>2, <3>5, <4>1 DEF Kept, SameArrays, t
    <3> QED
      BY <3>4, <3>5
  <2> QED
    BY <2>2, <2>3
<1> QED
  BY <1>1, <1>2, <1>3

LEMMA AllocLargeOK ==
    ASSUME NEW s, MemoryOK(s), NEW pool \in Pool, NEW sizeofobject \in Nat
    PROVE  Kept(s, alloc_large(s, pool, sizeofobject))
<1> DEFINE size == Aligned(sizeofobject)
           t == alloc_large(s, pool, sizeofobject)
           b == [bytes_used |-> size, bytes_left |-> 0, malloced |-> size + HDR]
           list == s.large_list[pool]
           list2 == <<b>> \o list
<1>1. CASE s.failed
  <2>1. t = s
    BY <1>1 DEF alloc_large
  <2> QED
    BY <2>1 DEF Kept, SameArrays
<1>2. CASE ~s.failed /\ (sizeofobject > MAX_ALLOC_CHUNK - HDR \/ jpeg_get(s, size + HDR) = 0)
  <2>1. t = Failed(s)
    BY <1>2 DEF alloc_large
  <2> HIDE DEF t
  <2> QED
    BY <2>1, FailedOK DEF Kept, t
<1>3. CASE ~s.failed /\ ~(sizeofobject > MAX_ALLOC_CHUNK - HDR \/ jpeg_get(s, size + HDR) = 0)
  <2>1. size \in Nat /\ size % ALIGN_TYPE = 0
    BY AlignedSize
  <2>2. t = [s EXCEPT !.heap = @ + size + HDR,
                      !.total_space_allocated = @ + size + HDR,
                      !.large_list[pool] = <<b>> \o @]
    BY <1>3 DEF alloc_large
  <2> HIDE DEF t, size
  <2>3. b.bytes_used = size /\ b.bytes_left = 0 /\ b.malloced = size + HDR
    OBVIOUS
  <2>4. b \in Block
    <3>1. b \in [bytes_used : Nat, bytes_left : Nat, malloced : Nat]
      BY <2>1, MemoryAssumption
    <3> HIDE DEF b
    <3>2. size + 0 + HDR = size + HDR
      BY <2>1, MemoryAssumption
    <3> QED
      BY <2>1, <2>3, <3>1, <3>2 DEF Block
  <2> HIDE DEF b
  <2>5. /\ DOMAIN t = Fields /\ t.state = "alive" /\ t.failed = s.failed
        /\ t.heap = s.heap + size + HDR
        /\ t.total_space_allocated = s.total_space_allocated + size + HDR
        /\ t.small_list = s.small_list /\ t.arrays = s.arrays /\ t.files = s.files
        /\ t.last_rowsperchunk = s.last_rowsperchunk /\ t.objects = s.objects
        /\ t.large_list = [s.large_list EXCEPT ![pool] = list2]
    BY <2>2 DEF MemoryOK, Fields
  <2>6. s.large_list \in [Pool -> Seq(Block)] /\ list \in Seq(Block)
    BY DEF MemoryOK, PoolsOK
  <2>7. list2 \in Seq(Block) /\ Space(list2) = size + HDR + Space(list)
    <3>1. <<b>> \in Seq(Block)
      BY <2>4
    <3>2. list2 \in Seq(Block) /\ Space(list2) = Space(<<b>>) + Space(list)
      <4> HIDE DEF list
      <4> QED
        BY <2>6, <3>1, SpaceOfBoth, ConcatProperties
    <3>3. Space(<<b>>) = size + HDR
      BY <2>3, <2>4, SpaceOfOne
    <3> QED
      BY <3>2, <3>3
  <2> HIDE DEF list2
  <2>8. /\ t.large_list \in [Pool -> Seq(Block)]
        /\ Space(t.large_list[pool]) = size + HDR + Space(s.large_list[pool])
        /\ \A p \in Pool : p # pool => Space(t.large_list[p]) = Space(s.large_list[p])
    BY <2>5, <2>6, <2>7
  <2>9. SpaceOK(t)
    <3>1. \A p \in Pool : Space(s.small_list[p]) \in Nat /\ Space(s.large_list[p]) \in Nat
      <4>1. \A p \in Pool : s.small_list[p] \in Seq(Block) /\ s.large_list[p] \in Seq(Block)
        BY DEF MemoryOK, PoolsOK
      <4> QED
        BY <4>1, SpaceType
    <3>2. 0 \in Pool /\ 1 \in Pool /\ (pool = 0 \/ pool = 1)
      BY DEF Pool, JPOOL_PERMANENT, JPOOL_IMAGE
    <3>3. HDR \in Nat /\ CONTROL \in Nat
      BY MemoryAssumption
    <3>4. Held(t.small_list, t.large_list) = Held(s.small_list, s.large_list) + size + HDR
      <4>1. CASE pool = 0
        BY <2>1, <2>5, <2>8, <3>1, <3>2, <3>3, <4>1 DEF Held
      <4>2. CASE pool = 1
        BY <2>1, <2>5, <2>8, <3>1, <3>2, <3>3, <4>2 DEF Held
      <4> QED
        BY <3>2, <4>1, <4>2
    <3>5. Held(s.small_list, s.large_list) \in Nat
      BY <3>1, <3>2 DEF Held
    <3> QED
      BY <2>1, <2>5, <3>3, <3>4, <3>5 DEF MemoryOK, SpaceOK
  <2>10. PoolsOK(t)
    BY <2>5, <2>8 DEF MemoryOK, PoolsOK, ObjectOK
  <2> QED
    BY <2>5, <2>9, <2>10 DEF MemoryOK, Kept, SameArrays, t
<1> QED
  BY <1>1, <1>2, <1>3

(* Rows by the chunk: the pointers, then as many chunks as it takes.        *)
LEMMA ChunkRows ==
    ASSUME NEW numrows \in Nat \ {0}, NEW rowsperchunk \in Nat \ {0},
           NEW i \in 1..((numrows + rowsperchunk - 1) \div rowsperchunk)
    PROVE  Least(rowsperchunk, numrows - (i - 1) * rowsperchunk) \in Nat
<1> DEFINE n == (numrows + rowsperchunk - 1) \div rowsperchunk
<1>1. n \in Int /\ rowsperchunk * n <= numrows + rowsperchunk - 1
  OBVIOUS
<1>2. i <= n
  OBVIOUS
<1> HIDE DEF n
<1>3. i \in Nat /\ i >= 1
  OBVIOUS
<1>4. rowsperchunk * i <= rowsperchunk * n
  BY <1>1, <1>2, <1>3
<1>5. (i - 1) * rowsperchunk = rowsperchunk * i - rowsperchunk
  BY <1>3
<1>6. (i - 1) * rowsperchunk \in Int /\ (i - 1) * rowsperchunk <= numrows - 1
  BY <1>1, <1>3, <1>4, <1>5
<1> DEFINE m == (i - 1) * rowsperchunk
<1> HIDE DEF m
<1>7. Least(rowsperchunk, numrows - m) \in Nat
  BY <1>6 DEF Least, m
<1> QED
  BY <1>7 DEF m

LEMMA AllocRowsOK ==
    ASSUME NEW s, MemoryOK(s), NEW pool \in Pool, NEW rowsize \in Nat \ {0}, NEW numrows \in Nat \ {0}
    PROVE  LET t == AllocRows(s, pool, rowsize, numrows)
           IN  /\ MemoryOK(t) /\ SameArrays(s, t)
               /\ ~t.failed => t.last_rowsperchunk \in Nat \ {0}
<1> DEFINE t == AllocRows(s, pool, rowsize, numrows)
           perchunk == (MAX_ALLOC_CHUNK - HDR) \div rowsize
           rowsperchunk == Least(perchunk, numrows)
           n == (numrows + rowsperchunk - 1) \div rowsperchunk
           Step(x, i) == alloc_large(x, pool, Least(rowsperchunk, numrows - (i - 1) * rowsperchunk) * rowsize)
           s1 == [s EXCEPT !.last_rowsperchunk = rowsperchunk]
           base == alloc_small(s1, pool, numrows)
           Rec(f, m) == f = [k \in 0..m |-> IF k = 0 THEN base ELSE Step(f[k - 1], k)]
           loop == CHOOSE f : Rec(f, n)
<1>1. CASE s.failed \/ perchunk <= 0
  <2>1. t = Failed(s)
    BY <1>1 DEF AllocRows
  <2> HIDE DEF t
  <2> QED
    BY <2>1, FailedOK DEF t
<1>2. CASE ~(s.failed \/ perchunk <= 0)
  <2>1. t = loop[n]
    <3>1. t = Iterate(n, LAMBDA x, i : alloc_large(x, pool, Least(rowsperchunk, numrows - (i - 1) * rowsperchunk) * rowsize), base)
      BY <1>2 DEF AllocRows
    <3> QED
      BY <3>1 DEF Iterate
  <2>2. perchunk \in Int /\ rowsperchunk \in Nat \ {0}
    BY <1>2, MemoryAssumption DEF Least
  <2> HIDE DEF perchunk, rowsperchunk
  <2>3. n \in Nat
    BY <2>2
  <2>4. /\ MemoryOK(s1) /\ SameArrays(s, s1) /\ s1.last_rowsperchunk = rowsperchunk
    <3>1. SamePools(s, s1) /\ SameArrays(s, s1) /\ s1.last_rowsperchunk = rowsperchunk /\ s1.failed = s.failed
      BY DEF MemoryOK, Fields, SamePools, SameArrays
    <3> HIDE DEF s1
    <3>2. s1.failed \in BOOLEAN
      BY <3>1 DEF MemoryOK
    <3> QED
      BY <3>1, <3>2, SamePoolsOK
  <2>5. Kept(s1, base)
    <3> HIDE DEF s1
    <3> QED
      BY <2>4, AllocSmallOK
  <2>6. ASSUME NEW x, Kept(s1, x), NEW i \in 1..n
        PROVE  Kept(s1, Step(x, i))
    <3> DEFINE rows == Least(rowsperchunk, numrows - (i - 1) * rowsperchunk)
               size == rows * rowsize
    <3>1. rows \in Nat
      BY <2>2, ChunkRows
    <3> HIDE DEF rows
    <3>2. size \in Nat
      BY <3>1
    <3> HIDE DEF size, s1
    <3>3. Kept(x, alloc_large(x, pool, size))
      BY <2>6, <3>2, AllocLargeOK DEF Kept
    <3> QED
      BY <2>6, <3>3 DEF Kept, SameArrays, size, rows
  <2> HIDE DEF Step, base, n, s1
  <2> DEFINE Defined == {m \in Nat : \E f : Rec(f, m)}
             Good == {k \in Nat : k <= n => Kept(s1, loop[k])}
  <2>7. 0 \in Defined
    <3>1. Rec([k \in 0..0 |-> base], 0)
      OBVIOUS
    <3> QED
      BY <3>1
  <2>8. ASSUME NEW m \in Defined
        PROVE  m + 1 \in Defined
    <3>1. PICK f : Rec(f, m)
      OBVIOUS
    <3> DEFINE next == [k \in 0..(m + 1) |-> IF k <= m THEN f[k] ELSE Step(f[m], m + 1)]
    <3>2. \A k \in 0..(m + 1) : next[k] = IF k = 0 THEN base ELSE Step(next[k - 1], k)
      BY <3>1
    <3>3. Rec(next, m + 1)
      BY <3>2
    <3> HIDE DEF next
    <3> QED
      BY <3>3
  <2>9. n \in Defined
    <3>1. Defined \in SUBSET Nat
      OBVIOUS
    <3> HIDE DEF Defined
    <3> QED
      BY <2>3, <2>7, <2>8, <3>1, Induction
  <2>10. Rec(loop, n)
    BY <2>9
  <2> HIDE DEF loop
  <2>11. loop[0] = base /\ \A k \in 1..n : loop[k] = Step(loop[k - 1], k)
    BY <2>3, <2>10
  <2>12. 0 \in Good /\ \A k \in Good : k + 1 \in Good
    BY <2>3, <2>5, <2>6, <2>11
  <2>13. n \in Good
    <3>1. Good \in SUBSET Nat
      OBVIOUS
    <3> HIDE DEF Good
    <3> QED
      BY <2>3, <2>12, <3>1, Induction
  <2>14. Kept(s1, t)
    BY <2>1, <2>3, <2>13
  <2> QED
    BY <2>2, <2>4, <2>14 DEF Kept, SameArrays
<1> QED
  BY <1>1, <1>2

-----------------------------------------------------------------------------
(* The virtual arrays.  An array that is realized has a window of rows in   *)
(* memory, all of them if it has no temporary file; and the file agrees     *)
(* with a window nobody has written to.                                     *)

ArrayFields ==
    {"request", "realized", "rows_in_mem", "rowsperchunk", "mem_buffer", "cur_start_row",
     "first_undef_row", "dirty", "b_s_open"}

WindowOK(a) ==
    /\ a.rows_in_mem \in Nat \ {0} /\ a.rowsperchunk \in Nat \ {0}
    /\ DOMAIN a.mem_buffer = 0..(a.rows_in_mem - 1)
    /\ ~a.b_s_open => a.rows_in_mem = a.request.numrows /\ a.cur_start_row = 0
    /\ a.request.maxaccess <= a.rows_in_mem \/ a.request.numrows <= a.rows_in_mem

ArrayOK(a) ==
    /\ DOMAIN a = ArrayFields
    /\ a.request \in Requests
    /\ a.realized \in BOOLEAN /\ a.dirty \in BOOLEAN /\ a.b_s_open \in BOOLEAN
    /\ a.cur_start_row \in Nat /\ a.first_undef_row \in Nat /\ a.first_undef_row <= a.request.numrows
    /\ IF a.realized THEN WindowOK(a) ELSE a.first_undef_row = 0 /\ a.cur_start_row = 0

Agrees(a, file) ==
    \A r \in 0..(a.first_undef_row - 1) :
        r - a.cur_start_row \in DOMAIN a.mem_buffer => file[r] = a.mem_buffer[r - a.cur_start_row]

FileOK(a, file) ==
    /\ DOMAIN file = 0..(a.request.numrows - 1)
    /\ a.realized /\ ~a.dirty => Agrees(a, file)

IsSequence(q) == q \in Seq({q[i] : i \in DOMAIN q})

ArraysOK(s) ==
    /\ IsSequence(s.arrays)
    /\ \A i \in DOMAIN s.arrays : ArrayOK(s.arrays[i])
    /\ \A i \in DOMAIN s.arrays : s.arrays[i].b_s_open => i \in DOMAIN s.files /\ FileOK(s.arrays[i], s.files[i])
    /\ \A i \in DOMAIN s.files : i \in DOMAIN s.arrays /\ s.arrays[i].b_s_open

(* What happens to the rows of the arrays while arrays are realized.        *)
RowsKept(s, t) ==
    /\ DOMAIN t.arrays = DOMAIN s.arrays
    /\ \A j \in DOMAIN s.arrays :
        /\ t.arrays[j].request = s.arrays[j].request
        /\ IF s.arrays[j].realized
           THEN /\ t.arrays[j] = s.arrays[j]
                /\ s.arrays[j].b_s_open => t.files[j] = s.files[j]
           ELSE t.arrays[j].first_undef_row = 0

LEMMA SameArraysOK ==
    ASSUME NEW s, NEW t, ArraysOK(s), SameArrays(s, t)
    PROVE  ArraysOK(t) /\ RowsKept(s, t)
  BY DEF ArraysOK, ArrayOK, SameArrays, RowsKept

(* A sequence with one more element, or another in a place, is a sequence   *)
(* of its elements.                                                         *)
LEMMA SequenceDomain ==
    ASSUME NEW q, IsSequence(q)
    PROVE  DOMAIN q = 1..Len(q) /\ Len(q) \in Nat
  BY DEF IsSequence

LEMMA IsSequenceOf ==
    ASSUME NEW S, NEW p \in Seq(S)
    PROVE  IsSequence(p)
<1> DEFINE U == {p[i] : i \in DOMAIN p}
<1>1. DOMAIN p = 1..Len(p) /\ Len(p) \in Nat /\ p = [i \in 1..Len(p) |-> p[i]]
  OBVIOUS
<1>2. \A i \in 1..Len(p) : p[i] \in U
  BY <1>1
<1> HIDE DEF U
<1>3. p \in Seq(U)
  BY <1>1, <1>2
<1> QED
  BY <1>3 DEF IsSequence, U

LEMMA SequenceIn ==
    ASSUME NEW q, IsSequence(q), NEW e
    PROVE  \E T : q \in Seq(T) /\ e \in T
<1> DEFINE S == {q[i] : i \in DOMAIN q}
           T == S \cup {e}
<1>1. DOMAIN q = 1..Len(q) /\ Len(q) \in Nat
  BY SequenceDomain
<1>2. q \in Seq(S)
  BY DEF IsSequence
<1>3. \A i \in 1..Len(q) : q[i] \in T
  BY <1>1
<1>4. e \in T
  OBVIOUS
<1> HIDE DEF S, T
<1>5. q = [i \in 1..Len(q) |-> q[i]]
  BY <1>2
<1> QED
  BY <1>1, <1>3, <1>4, <1>5

LEMMA SequenceAppended ==
    ASSUME NEW q, IsSequence(q), NEW e
    PROVE  /\ IsSequence(Append(q, e))
           /\ Len(Append(q, e)) = Len(q) + 1 /\ DOMAIN Append(q, e) = DOMAIN q \cup {Len(q) + 1}
           /\ Append(q, e)[Len(q) + 1] = e /\ \A i \in DOMAIN q : Append(q, e)[i] = q[i]
<1> DEFINE p == Append(q, e)
<1>1. PICK T : q \in Seq(T) /\ e \in T
  BY SequenceIn
<1>2. DOMAIN q = 1..Len(q) /\ Len(q) \in Nat
  BY SequenceDomain
<1>3. /\ p \in Seq(T) /\ Len(p) = Len(q) + 1
      /\ p[Len(q) + 1] = e /\ \A i \in 1..Len(q) : p[i] = q[i]
  BY <1>1
<1> HIDE DEF p
<1>4. IsSequence(p)
  BY <1>3, IsSequenceOf
<1>5. DOMAIN p = 1..Len(p)
  BY <1>4, SequenceDomain
<1>6. DOMAIN p = DOMAIN q \cup {Len(q) + 1}
  BY <1>2, <1>3, <1>5
<1> QED
  BY <1>2, <1>3, <1>4, <1>6 DEF p

LEMMA SequenceReplaced ==
    ASSUME NEW q, IsSequence(q), NEW e, NEW j \in DOMAIN q
    PROVE  LET p == [q EXCEPT ![j] = e]
           IN  /\ IsSequence(p)
               /\ Len(p) = Len(q) /\ DOMAIN p = DOMAIN q
               /\ p[j] = e /\ \A i \in DOMAIN q : i # j => p[i] = q[i]
<1> DEFINE p == [q EXCEPT ![j] = e]
<1>1. PICK T : q \in Seq(T) /\ e \in T
  BY SequenceIn
<1>2. p \in Seq(T) /\ Len(p) = Len(q) /\ DOMAIN p = DOMAIN q
  BY <1>1
<1>3. p[j] = e /\ \A i \in DOMAIN q : i # j => p[i] = q[i]
  OBVIOUS
<1> HIDE DEF p
<1>4. IsSequence(p)
  BY <1>2, IsSequenceOf
<1> QED
  BY <1>2, <1>3, <1>4 DEF p

(* A request that finds memory for a control block adds an array of which   *)
(* no row is defined.                                                       *)
LEMMA RequestOK ==
    ASSUME NEW s, MemoryOK(s), ArraysOK(s), NEW request \in Requests
    PROVE  LET t == Requested(alloc_small(s, JPOOL_IMAGE, CONTROL), request)
           IN  /\ MemoryOK(t) /\ ArraysOK(t)
               /\ \/ SameArrays(s, t)
                  \/ /\ t.arrays[Len(s.arrays) + 1].request = request
                     /\ t.arrays[Len(s.arrays) + 1].first_undef_row = 0
                     /\ Len(t.arrays) = Len(s.arrays) + 1
                     /\ DOMAIN t.arrays = DOMAIN s.arrays \cup {Len(s.arrays) + 1}
                     /\ \A i \in DOMAIN s.arrays : t.arrays[i] = s.arrays[i]
                     /\ t.files = s.files
<1> DEFINE u == alloc_small(s, JPOOL_IMAGE, CONTROL)
           t == Requested(u, request)
           a == [request |-> request, realized |-> FALSE, rows_in_mem |-> 0, rowsperchunk |-> 0,
                 mem_buffer |-> <<>>, cur_start_row |-> 0, first_undef_row |-> 0,
                 dirty |-> FALSE, b_s_open |-> FALSE]
           n == Len(s.arrays) + 1
<1> SUFFICES /\ MemoryOK(t) /\ ArraysOK(t)
             /\ \/ SameArrays(s, t)
                \/ /\ t.arrays[n].request = request /\ t.arrays[n].first_undef_row = 0
                   /\ Len(t.arrays) = n /\ DOMAIN t.arrays = DOMAIN s.arrays \cup {n}
                   /\ \A i \in DOMAIN s.arrays : t.arrays[i] = s.arrays[i]
                   /\ t.files = s.files
  OBVIOUS
<1>1. Kept(s, u)
  BY MemoryAssumption, AllocSmallOK DEF Pool, JPOOL_IMAGE
<1> HIDE DEF u
<1>2. MemoryOK(u) /\ ArraysOK(u) /\ SameArrays(s, u)
  BY <1>1, SameArraysOK DEF Kept
<1>3. CASE u.failed
  <2>1. t = u
    BY <1>3 DEF Requested
  <2> HIDE DEF t
  <2> QED
    BY <1>2, <2>1
<1>4. CASE ~u.failed
  <2>1. t = [u EXCEPT !.arrays = Append(@, a)]
    BY <1>4 DEF Requested
  <2>2. /\ SamePools(u, t) /\ t.failed = u.failed
        /\ t.arrays = Append(s.arrays, a) /\ t.files = s.files
    BY <1>2, <2>1 DEF MemoryOK, Fields, SamePools, SameArrays
  <2>3. ArrayOK(a) /\ a.request = request /\ a.first_undef_row = 0 /\ ~a.b_s_open
    BY DEF ArrayOK, ArrayFields, Requests
  <2> HIDE DEF t, a
  <2>4. MemoryOK(t)
    BY <1>2, <2>2, SamePoolsOK DEF MemoryOK
  <2>5. /\ IsSequence(t.arrays)
        /\ Len(t.arrays) = n /\ DOMAIN t.arrays = DOMAIN s.arrays \cup {n}
        /\ t.arrays[n] = a /\ \A i \in DOMAIN s.arrays : t.arrays[i] = s.arrays[i]
    <3>1. IsSequence(s.arrays)
      BY DEF ArraysOK
    <3> DEFINE p == t.arrays
               q == s.arrays
    <3>2. IsSequence(q) /\ p = Append(q, a)
      BY <2>2, <3>1
    <3> HIDE DEF p, q
    <3>3. /\ IsSequence(p) /\ Len(p) = Len(q) + 1 /\ DOMAIN p = DOMAIN q \cup {Len(q) + 1}
          /\ p[Len(q) + 1] = a /\ \A j \in DOMAIN q : p[j] = q[j]
      BY <3>2, SequenceAppended
    <3> QED
      BY <3>3 DEF p, q
  <2>6. ArraysOK(t)
    BY <2>2, <2>3, <2>5 DEF ArraysOK
  <2>7. t.arrays[n].request = request /\ t.arrays[n].first_undef_row = 0
    BY <2>3, <2>5
  <2> QED
    BY <2>2, <2>4, <2>5, <2>6, <2>7
<1> QED
  BY <1>3, <1>4

(* The sums of the numbers of some places.                                  *)
Sums(sum, n, U, f) ==
    sum = [k \in 0..n |-> IF k = 0 THEN 0 ELSE IF k \in U THEN sum[k - 1] + f[k] ELSE sum[k - 1]]

LEMMA ChosenSum ==
    ASSUME NEW n \in Nat, NEW U, NEW f, \A k \in 1..n : f[k] \in Nat \ {0}
    PROVE  \E sum : Sums(sum, n, U, f)
<1> DEFINE g == [k \in 1..n |-> IF k \in U THEN f[k] ELSE 0]
<1>1. \A k \in 1..n : g[k] \in Nat /\ g[k] = IF k \in U THEN f[k] ELSE 0
  OBVIOUS
<1> HIDE DEF g
<1>2. \E sum : /\ sum = [k \in 0..n |-> IF k = 0 THEN 0 ELSE sum[k - 1] + g[k]]
                /\ \A k \in 0..n : sum[k] \in Nat
  <2>1. \A k \in 1..n : g[k] \in Nat
    BY <1>1
  <2> QED
    BY <2>1, SumsExist
<1> PICK sum : /\ sum = [k \in 0..n |-> IF k = 0 THEN 0 ELSE sum[k - 1] + g[k]]
               /\ \A k \in 0..n : sum[k] \in Nat
  BY <1>2
<1>3. \A k \in 1..n : sum[k - 1] + g[k] = IF k \in U THEN sum[k - 1] + f[k] ELSE sum[k - 1]
  <2> SUFFICES ASSUME NEW k \in 1..n
               PROVE  sum[k - 1] + g[k] = IF k \in U THEN sum[k - 1] + f[k] ELSE sum[k - 1]
    OBVIOUS
  <2>1. sum[k - 1] \in Nat
    OBVIOUS
  <2> QED
    BY <1>1, <2>1
<1>4. sum = [k \in 0..n |-> IF k = 0 THEN 0 ELSE IF k \in U THEN sum[k - 1] + f[k] ELSE sum[k - 1]]
  <2>1. ASSUME NEW k \in 0..n
        PROVE  sum[k] = IF k = 0 THEN 0 ELSE IF k \in U THEN sum[k - 1] + f[k] ELSE sum[k - 1]
    <3>1. CASE k = 0
      BY <3>1
    <3>2. CASE k # 0
      <4>1. k \in 1..n
        BY <3>2
      <4>2. sum[k] = sum[k - 1] + g[k]
        BY <3>2
      <4> QED
        BY <1>3, <3>2, <4>1, <4>2
    <3> QED
      BY <3>1, <3>2
  <2> QED
    BY <2>1
<1> QED
  BY <1>4 DEF Sums

(* It is zero only if there are no such places.                             *)
LEMMA ChosenSumIs ==
    ASSUME NEW n \in Nat, NEW U, NEW f, \A k \in 1..n : f[k] \in Nat \ {0},
           NEW sum, sum[0] = 0,
           \A k \in 1..n : sum[k] = IF k \in U THEN sum[k - 1] + f[k] ELSE sum[k - 1]
    PROVE  sum[n] \in Nat /\ (sum[n] = 0 <=> \A k \in 1..n : k \notin U)
<1> DEFINE S == {m \in Nat : m <= n =>
                  sum[m] \in Nat /\ (sum[m] = 0 <=> \A k \in 1..m : k \notin U)}
<1>1. 0 \in S
  OBVIOUS
<1>2. ASSUME NEW m \in S
      PROVE  m + 1 \in S
  <2> SUFFICES ASSUME m + 1 <= n
               PROVE  /\ sum[m + 1] \in Nat
                      /\ sum[m + 1] = 0 <=> \A k \in 1..(m + 1) : k \notin U
    OBVIOUS
  <2>1. m \in Nat /\ sum[m] \in Nat /\ (sum[m] = 0 <=> \A k \in 1..m : k \notin U)
    OBVIOUS
  <2>2. m + 1 \in 1..n /\ (m + 1) - 1 = m /\ f[m + 1] \in Nat \ {0}
    BY <2>1
  <2>3. sum[m + 1] = IF m + 1 \in U THEN sum[m] + f[m + 1] ELSE sum[m]
    BY <2>2
  <2>4. (\A k \in 1..(m + 1) : k \notin U) <=> (\A k \in 1..m : k \notin U) /\ m + 1 \notin U
    BY <2>1
  <2> QED
    BY <2>1, <2>2, <2>3, <2>4
<1>3. n \in S
  <2> HIDE DEF S
  <2>1. S \in SUBSET Nat
    BY DEF S
  <2> QED
    BY <1>1, <1>2, <2>1, Induction
<1> QED
  BY <1>3

LEMMA RowSizeOK ==
    ASSUME NEW r \in Requests
    PROVE  RowSize(r) \in Nat \ {0}
<1>1. r.width \in Nat \ {0}
  BY DEF Requests
<1> HIDE DEF Requests
<1> QED
  BY <1>1 DEF RowSize

(* However little memory is available, every array gets a strip.            *)
LEMMA MaxMinheightsOK ==
    ASSUME setting \in Settings, NEW s, MemoryOK(s), ArraysOK(s)
    PROVE  MaxMinheights(s) \in Nat \ {0}
<1> DEFINE n == Len(s.arrays)
           U == {i \in DOMAIN s.arrays : ~s.arrays[i].realized}
           f == [k \in 1..n |-> s.arrays[k].request.maxaccess * RowSize(s.arrays[k].request)]
           g == [k \in 1..n |-> s.arrays[k].request.numrows * RowSize(s.arrays[k].request)]
           RecF(sum) == sum = [k \in 0..n |-> IF k = 0 THEN 0
                ELSE IF k \in U THEN sum[k - 1] + s.arrays[k].request.maxaccess * RowSize(s.arrays[k].request)
                ELSE sum[k - 1]]
           RecG(sum) == sum = [k \in 0..n |-> IF k = 0 THEN 0
                ELSE IF k \in U THEN sum[k - 1] + s.arrays[k].request.numrows * RowSize(s.arrays[k].request)
                ELSE sum[k - 1]]
           least == CHOOSE sum : RecF(sum)
           most == CHOOSE sum : RecG(sum)
           available == jpeg_mem_available(s)
<1>1. n \in Nat /\ DOMAIN s.arrays = 1..n
  BY SequenceDomain DEF ArraysOK
<1>2. \A k \in 1..n : f[k] \in Nat \ {0} /\ g[k] \in Nat \ {0}
  <2> SUFFICES ASSUME NEW k \in 1..n
               PROVE  f[k] \in Nat \ {0} /\ g[k] \in Nat \ {0}
    OBVIOUS
  <2> DEFINE r == s.arrays[k].request
  <2>1. r \in Requests
    BY <1>1 DEF ArraysOK, ArrayOK
  <2> HIDE DEF r
  <2>2. r.maxaccess \in Nat \ {0} /\ r.numrows \in Nat \ {0}
    BY <2>1 DEF Requests
  <2>3. RowSize(r) \in Nat \ {0}
    BY <2>1, RowSizeOK
  <2>4. r.maxaccess * RowSize(r) \in Nat \ {0} /\ r.numrows * RowSize(r) \in Nat \ {0}
    BY <2>2, <2>3
  <2> QED
    BY <2>4 DEF r
<1>3. available \in Int
  <2>1. s.total_space_allocated \in Int
    <3> DEFINE total == s.total_space_allocated
    <3>1. /\ s.small_list[0] \in Seq(Block) /\ s.small_list[1] \in Seq(Block)
          /\ s.large_list[0] \in Seq(Block) /\ s.large_list[1] \in Seq(Block)
      BY DEF MemoryOK, PoolsOK, Pool, JPOOL_PERMANENT, JPOOL_IMAGE
    <3>2. Held(s.small_list, s.large_list) \in Nat
      BY <3>1, SpaceType DEF Held
    <3> QED
      BY <3>2, MemoryAssumption DEF MemoryOK, SpaceOK
  <2> QED
    BY <2>1, MemoryAssumption DEF jpeg_mem_available
<1>4. MaxMinheights(s) = IF available >= most[n] THEN 1000
                         ELSE IF available < least[n] THEN 1 ELSE available \div least[n]
  BY DEF MaxMinheights, Iterate
<1>5. /\ \A k \in 1..n : f[k] = s.arrays[k].request.maxaccess * RowSize(s.arrays[k].request)
      /\ \A k \in 1..n : g[k] = s.arrays[k].request.numrows * RowSize(s.arrays[k].request)
  OBVIOUS
<1>13. \A k \in 1..n : f[k] \in Nat \ {0}
  BY <1>2
<1>14. \A k \in 1..n : g[k] \in Nat \ {0}
  BY <1>2
<1> HIDE DEF n, U, f, g
<1>6. RecF(least)
  <2>1. \E sum : Sums(sum, n, U, f)
    BY <1>1, <1>13, ChosenSum
  <2> PICK sum : Sums(sum, n, U, f)
    BY <2>1
  <2>2. RecF(sum)
    BY <1>1, <1>5 DEF Sums
  <2> QED
    BY <2>2
<1>7. RecG(most)
  <2>1. \E sum : Sums(sum, n, U, g)
    BY <1>1, <1>14, ChosenSum
  <2> PICK sum : Sums(sum, n, U, g)
    BY <2>1
  <2>2. RecG(sum)
    BY <1>1, <1>5 DEF Sums
  <2> QED
    BY <2>2
<1> HIDE DEF least, most
<1>8. least[n] \in Nat /\ (least[n] = 0 <=> \A k \in 1..n : k \notin U)
  <2>1. least[0] = 0
    BY <1>1, <1>6
  <2>2. \A k \in 1..n : least[k] = IF k \in U THEN least[k - 1] + f[k] ELSE least[k - 1]
    BY <1>1, <1>5, <1>6
  <2> QED
    BY <1>1, <1>13, <2>1, <2>2, ChosenSumIs
<1>9. most[n] \in Nat /\ (most[n] = 0 <=> \A k \in 1..n : k \notin U)
  <2>1. most[0] = 0
    BY <1>1, <1>7
  <2>2. \A k \in 1..n : most[k] = IF k \in U THEN most[k - 1] + g[k] ELSE most[k - 1]
    BY <1>1, <1>5, <1>7
  <2> QED
    BY <1>1, <1>14, <2>1, <2>2, ChosenSumIs
<1> DEFINE x == least[n]
           y == most[n]
<1>10. x \in Nat /\ y \in Nat /\ (x = 0 => y = 0)
  BY <1>8, <1>9
<1>11. MaxMinheights(s) = IF available >= y THEN 1000 ELSE IF available < x THEN 1 ELSE available \div x
  BY <1>4
<1> HIDE DEF x, y, available
<1>12. ASSUME available < y, available >= x
       PROVE  available \div x \in Nat \ {0}
  BY <1>3, <1>10, <1>12
<1> QED
  BY <1>3, <1>10, <1>11, <1>12

(* What OpenStore, Realized and other routines do to one array i, seen from *)
(* the whole: the array becomes a, its file becomes file.                   *)
OneArray(s, t, i, a) ==
    /\ SamePools(s, t) /\ t.failed \in BOOLEAN
    /\ t.arrays = [s.arrays EXCEPT ![i] = a]
    /\ ArrayOK(a)
    /\ a.b_s_open => FileOK(a, t.files[i])
    /\ s.arrays[i].b_s_open => a.b_s_open
    /\ DOMAIN t.files = IF a.b_s_open THEN DOMAIN s.files \cup {i} ELSE DOMAIN s.files
    /\ \A j \in DOMAIN s.files : j # i => t.files[j] = s.files[j]

LEMMA OneArrayOK ==
    ASSUME NEW s, NEW t, NEW i, NEW a, MemoryOK(s), ArraysOK(s), i \in DOMAIN s.arrays,
           OneArray(s, t, i, a)
    PROVE  /\ MemoryOK(t) /\ ArraysOK(t)
           /\ DOMAIN t.arrays = DOMAIN s.arrays /\ t.arrays[i] = a
           /\ \A j \in DOMAIN s.arrays : j # i => t.arrays[j] = s.arrays[j]
<1>1. MemoryOK(t)
  BY SamePoolsOK DEF OneArray
<1>2. /\ IsSequence(t.arrays)
      /\ DOMAIN t.arrays = DOMAIN s.arrays /\ t.arrays[i] = a
      /\ \A j \in DOMAIN s.arrays : j # i => t.arrays[j] = s.arrays[j]
  <2>1. IsSequence(s.arrays)
    BY DEF ArraysOK
  <2> DEFINE q == s.arrays
             p == t.arrays
  <2>2. IsSequence(q) /\ i \in DOMAIN q /\ p = [q EXCEPT ![i] = a]
    BY <2>1 DEF OneArray
  <2> HIDE DEF p, q
  <2>3. /\ IsSequence(p) /\ DOMAIN p = DOMAIN q
        /\ p[i] = a /\ \A j \in DOMAIN q : i # j => p[j] = q[j]
    BY <2>2, SequenceReplaced
  <2> QED
    BY <2>3 DEF p, q
<1>3. \A j \in DOMAIN t.arrays : ArrayOK(t.arrays[j])
  BY <1>2 DEF ArraysOK, OneArray
<1>4. ASSUME NEW j \in DOMAIN t.arrays, t.arrays[j].b_s_open
      PROVE  j \in DOMAIN t.files /\ FileOK(t.arrays[j], t.files[j])
  BY <1>2, <1>4 DEF ArraysOK, OneArray
<1>5. ASSUME NEW j \in DOMAIN t.files
      PROVE  j \in DOMAIN t.arrays /\ t.arrays[j].b_s_open
  BY <1>2, <1>5 DEF ArraysOK, OneArray
<1> QED
  BY <1>1, <1>2, <1>3, <1>4, <1>5 DEF ArraysOK

LEMMA OpenStoreOK ==
    ASSUME NEW s, MemoryOK(s), ArraysOK(s), NEW i \in DOMAIN s.arrays,
           ~s.failed, ~s.arrays[i].realized
    PROVE  LET t == OpenStore(s, i)
           IN  /\ MemoryOK(t) /\ ArraysOK(t) /\ RowsKept(s, t)
               /\ ~t.failed => t.arrays[i].b_s_open
               /\ ~t.arrays[i].realized
<1> DEFINE t == OpenStore(s, i)
           a == [s.arrays[i] EXCEPT !.b_s_open = TRUE]
           file == [k \in 0..(s.arrays[i].request.numrows - 1) |-> Junk]
           files == [j \in DOMAIN s.files \cup {i} |-> IF j = i THEN file ELSE s.files[j]]
<1> SUFFICES /\ MemoryOK(t) /\ ArraysOK(t) /\ RowsKept(s, t)
             /\ ~t.failed => t.arrays[i].b_s_open
             /\ ~t.arrays[i].realized
  OBVIOUS
<1>1. CASE setting.disk = 0
  <2>1. t = Failed(s)
    BY <1>1 DEF OpenStore
  <2> HIDE DEF t
  <2>2. MemoryOK(t) /\ SameArrays(s, t) /\ t.failed
    BY <2>1, FailedOK
  <2>3. ArraysOK(t) /\ RowsKept(s, t)
    BY <2>2, SameArraysOK
  <2> QED
    BY <2>2, <2>3 DEF SameArrays
<1>2. CASE setting.disk # 0
  <2>1. t = [s EXCEPT !.arrays[i].b_s_open = TRUE, !.files = files]
    BY <1>2 DEF OpenStore
  <2>2. /\ SamePools(s, t) /\ t.failed \in BOOLEAN /\ t.files = files
        /\ t.arrays = [s.arrays EXCEPT ![i] = a]
    <3>1. DOMAIN s = Fields /\ s.failed \in BOOLEAN
      BY DEF MemoryOK
    <3> HIDE DEF files
    <3>2. /\ SamePools(s, t) /\ t.failed = s.failed /\ t.files = files
          /\ t.arrays = [s.arrays EXCEPT ![i] = a]
      BY <2>1, <3>1 DEF Fields, SamePools
    <3> QED
      BY <3>1, <3>2
  <2>3. ArrayOK(s.arrays[i])
    BY DEF ArraysOK
  <2>4. /\ ArrayOK(a) /\ a.b_s_open /\ ~a.realized /\ a.request = s.arrays[i].request
        /\ a.first_undef_row = 0
    <3> DEFINE b == s.arrays[i]
    <3> HIDE DEF b
    <3>1. ArrayOK([b EXCEPT !.b_s_open = TRUE])
      BY <2>3 DEF ArrayOK, ArrayFields, b
    <3> QED
      BY <2>3, <3>1 DEF ArrayOK, ArrayFields, b
  <2>5. /\ DOMAIN files = DOMAIN s.files \cup {i} /\ files[i] = file
        /\ \A j \in DOMAIN s.files : j # i => files[j] = s.files[j]
    OBVIOUS
  <2>6. FileOK(a, file)
    BY <2>4 DEF FileOK
  <2> HIDE DEF a, t, files, file
  <2>7. /\ MemoryOK(t) /\ ArraysOK(t)
        /\ DOMAIN t.arrays = DOMAIN s.arrays /\ t.arrays[i] = a
        /\ \A j \in DOMAIN s.arrays : j # i => t.arrays[j] = s.arrays[j]
    <3>1. OneArray(s, t, i, a)
      BY <2>2, <2>4, <2>5, <2>6 DEF OneArray
    <3> QED
      BY <3>1, OneArrayOK
  <2>8. RowsKept(s, t)
    BY <2>2, <2>4, <2>5, <2>7 DEF RowsKept, ArraysOK, ArrayOK
  <2> QED
    BY <2>4, <2>7, <2>8
<1> QED
  BY <1>1, <1>2

LEMMA RealizedOK ==
    ASSUME NEW s, MemoryOK(s), ArraysOK(s), NEW i \in DOMAIN s.arrays, ~s.arrays[i].realized,
           NEW height \in Nat \ {0}, NEW perchunk \in Nat \ {0},
           \/ height = s.arrays[i].request.numrows
           \/ s.arrays[i].b_s_open /\ s.arrays[i].request.maxaccess <= height
    PROVE  LET t == [s EXCEPT !.arrays[i] = Realized(@, height, perchunk)]
           IN  MemoryOK(t) /\ ArraysOK(t) /\ RowsKept(s, t)
<1> DEFINE t == [s EXCEPT !.arrays[i] = Realized(@, height, perchunk)]
           b == s.arrays[i]
           a == Realized(b, height, perchunk)
<1> SUFFICES MemoryOK(t) /\ ArraysOK(t) /\ RowsKept(s, t)
  OBVIOUS
<1>1. ArrayOK(b) /\ ~b.realized /\ (b.b_s_open => i \in DOMAIN s.files /\ FileOK(b, s.files[i]))
  BY DEF ArraysOK
<1>2. /\ SamePools(s, t) /\ t.failed \in BOOLEAN /\ t.files = s.files
      /\ t.arrays = [s.arrays EXCEPT ![i] = a]
  <2>1. DOMAIN s = Fields /\ s.failed \in BOOLEAN
    BY DEF MemoryOK
  <2> HIDE DEF a
  <2>2. /\ SamePools(s, t) /\ t.failed = s.failed /\ t.files = s.files
        /\ t.arrays = [s.arrays EXCEPT ![i] = a]
    BY <2>1 DEF Fields, SamePools, a
  <2> QED
    BY <2>1, <2>2
<1>3. height = b.request.numrows \/ (b.b_s_open /\ b.request.maxaccess <= height)
  OBVIOUS
<1> HIDE DEF b
<1>4. /\ DOMAIN a = ArrayFields /\ a.realized = TRUE /\ a.rows_in_mem = height /\ a.rowsperchunk = perchunk
      /\ a.mem_buffer = [k \in 0..(height - 1) |-> Junk]
      /\ a.request = b.request /\ a.cur_start_row = b.cur_start_row /\ a.dirty = b.dirty
      /\ a.first_undef_row = b.first_undef_row /\ a.b_s_open = b.b_s_open
  BY <1>1 DEF ArrayOK, ArrayFields, Realized
<1> HIDE DEF a
<1>5. ArrayOK(a)
  <2>1. DOMAIN a.mem_buffer = 0..(height - 1)
    BY <1>4
  <2>2. WindowOK(a)
    BY <1>1, <1>3, <1>4, <2>1 DEF ArrayOK, WindowOK
  <2> QED
    BY <1>1, <1>4, <2>2 DEF ArrayOK
<1>6. ASSUME a.b_s_open
      PROVE  i \in DOMAIN s.files /\ FileOK(a, s.files[i])
  BY <1>1, <1>4, <1>6 DEF FileOK, Agrees, ArrayOK
<1>7. DOMAIN t.files = IF a.b_s_open THEN DOMAIN s.files \cup {i} ELSE DOMAIN s.files
  BY <1>2, <1>6
<1> HIDE DEF t
<1>8. /\ MemoryOK(t) /\ ArraysOK(t)
      /\ DOMAIN t.arrays = DOMAIN s.arrays /\ t.arrays[i] = a
      /\ \A j \in DOMAIN s.arrays : j # i => t.arrays[j] = s.arrays[j]
  <2>1. OneArray(s, t, i, a)
    BY <1>2, <1>4, <1>5, <1>6, <1>7 DEF OneArray, b
  <2> QED
    BY <2>1, OneArrayOK
<1>9. RowsKept(s, t)
  BY <1>1, <1>2, <1>4, <1>8 DEF RowsKept, ArraysOK, ArrayOK, b
<1> QED
  BY <1>8, <1>9

LEMMA RowsKeptTwice ==
    ASSUME NEW s, NEW t, NEW u, ArraysOK(s), ArraysOK(t), ArraysOK(u), RowsKept(s, t), RowsKept(t, u)
    PROVE  RowsKept(s, u)
  BY DEF RowsKept, ArraysOK, ArrayOK

(* An array is realized with all its rows in memory, or with a file and a   *)
(* window that holds the longest strip; where it fails, none of the rows    *)
(* of the others is lost.                                                   *)
LEMMA RealizeArrayOK ==
    ASSUME NEW s, MemoryOK(s), ArraysOK(s), NEW i \in DOMAIN s.arrays, NEW most \in Nat \ {0}
    PROVE  LET t == RealizeArray(s, i, most)
           IN  MemoryOK(t) /\ ArraysOK(t) /\ RowsKept(s, t)
<1> DEFINE t == RealizeArray(s, i, most)
           r == s.arrays[i].request
           fits == Minheights(r) <= most
           height == IF fits THEN r.numrows ELSE most * r.maxaccess
           opened == IF fits THEN s ELSE OpenStore(s, i)
           rowsize == IF r.kind = "sarray" THEN r.width ELSE 2 * r.width
           u == AllocRows(opened, JPOOL_IMAGE, rowsize, height)
<1> SUFFICES MemoryOK(t) /\ ArraysOK(t) /\ RowsKept(s, t)
  OBVIOUS
<1>1. CASE s.failed \/ s.arrays[i].realized
  <2>1. t = s
    BY <1>1 DEF RealizeArray
  <2> HIDE DEF t
  <2> QED
    BY <2>1, SameArraysOK DEF SameArrays
<1>2. CASE ~s.failed /\ ~s.arrays[i].realized
  <2>1. t = IF u.failed THEN u
            ELSE [u EXCEPT !.arrays[i] = Realized(@, height, u.last_rowsperchunk)]
    BY <1>2 DEF RealizeArray, alloc_sarray, alloc_barray
  <2>2. r \in Requests /\ r = s.arrays[i].request
    BY DEF ArraysOK, ArrayOK
  <2> HIDE DEF t, r
  <2>3. r.width \in Nat \ {0} /\ r.numrows \in Nat \ {0} /\ r.maxaccess \in Nat \ {0}
    BY <2>2 DEF Requests
  <2>4. rowsize \in Nat \ {0} /\ height \in Nat \ {0}
    BY <2>3
  <2>5. /\ MemoryOK(opened) /\ ArraysOK(opened) /\ RowsKept(s, opened)
        /\ fits \/ opened.failed \/ opened.arrays[i].b_s_open
        /\ ~opened.arrays[i].realized
    <3>1. CASE fits
      BY <1>2, <3>1, SameArraysOK DEF SameArrays
    <3>2. CASE ~fits
      <4> DEFINE o == OpenStore(s, i)
      <4>1. /\ MemoryOK(o) /\ ArraysOK(o) /\ RowsKept(s, o)
            /\ ~o.failed => o.arrays[i].b_s_open
            /\ ~o.arrays[i].realized
        BY <1>2, OpenStoreOK
      <4> QED
        BY <3>2, <4>1
    <3> QED
      BY <3>1, <3>2
  <2>6. opened.arrays[i].request = r
    BY <2>2, <2>5 DEF RowsKept
  <2>7. height = r.numrows \/ (~fits /\ r.maxaccess <= height)
    <3>1. CASE fits
      BY <3>1
    <3>2. CASE ~fits
      <4>1. height = most * r.maxaccess
        BY <3>2
      <4> DEFINE m == r.maxaccess
      <4>2. m \in Nat \ {0}
        BY <2>3
      <4> HIDE DEF m
      <4>3. m <= most * m
        BY <4>2
      <4> QED
        BY <3>2, <4>1, <4>3 DEF m
    <3> QED
      BY <3>1, <3>2
  <2> HIDE DEF fits, height, opened, rowsize
  <2>8. /\ MemoryOK(u) /\ SameArrays(opened, u)
        /\ ~u.failed => u.last_rowsperchunk \in Nat \ {0}
    BY <2>4, <2>5, AllocRowsOK DEF Pool, JPOOL_IMAGE
  <2>9. u.failed \/ ~opened.failed
    BY <2>5, FailedOK DEF AllocRows
  <2> HIDE DEF u
  <2>10. ArraysOK(u) /\ RowsKept(opened, u)
    BY <2>5, <2>8, SameArraysOK
  <2>11. RowsKept(s, u)
    BY <2>5, <2>10, RowsKeptTwice
  <2>12. CASE u.failed
    BY <2>1, <2>8, <2>10, <2>11, <2>12
  <2>13. CASE ~u.failed
    <3> DEFINE v == [u EXCEPT !.arrays[i] = Realized(@, height, u.last_rowsperchunk)]
    <3>1. /\ i \in DOMAIN u.arrays /\ ~u.arrays[i].realized
          /\ \/ height = u.arrays[i].request.numrows
             \/ u.arrays[i].b_s_open /\ u.arrays[i].request.maxaccess <= height
      BY <2>5, <2>6, <2>7, <2>8, <2>9, <2>11, <2>13 DEF SameArrays, RowsKept
    <3>2. MemoryOK(v) /\ ArraysOK(v) /\ RowsKept(u, v)
      BY <2>4, <2>8, <2>10, <2>13, <3>1, RealizedOK
    <3>3. t = v
      BY <2>1, <2>13
    <3> HIDE DEF v
    <3> QED
      BY <2>10, <2>11, <3>2, <3>3, RowsKeptTwice
  <2> QED
    BY <2>12, <2>13
<1> QED
  BY <1>1, <1>2

(* The arrays of one kind, as realize_virt_arrays goes through them.        *)
RealizeAll(n, kind, t, most) ==
    Iterate(n, LAMBDA x, k : IF x.arrays[n + 1 - k].request.kind = kind
                             THEN RealizeArray(x, n + 1 - k, most) ELSE x, t)

InOrder(s, t) == MemoryOK(t) /\ ArraysOK(t) /\ RowsKept(s, t)

LEMMA RealizeAllOK ==
    ASSUME NEW s, MemoryOK(s), ArraysOK(s), NEW kind, NEW most \in Nat \ {0}
    PROVE  InOrder(s, RealizeAll(Len(s.arrays), kind, s, most))
<1> DEFINE n == Len(s.arrays)
           Step(x, k) == IF x.arrays[n + 1 - k].request.kind = kind
                         THEN RealizeArray(x, n + 1 - k, most) ELSE x
           Rec(f, m) == f = [k \in 0..m |-> IF k = 0 THEN s ELSE Step(f[k - 1], k)]
           loop == CHOOSE f : Rec(f, n)
           Defined == {m \in Nat : \E f : Rec(f, m)}
           Good == {k \in Nat : k <= n => InOrder(s, loop[k])}
<1>1. RealizeAll(n, kind, s, most) = loop[n]
  BY DEF RealizeAll, Iterate
<1>2. n \in Nat /\ DOMAIN s.arrays = 1..n
  BY SequenceDomain DEF ArraysOK
<1>3. InOrder(s, s)
  BY SameArraysOK DEF InOrder, SameArrays
<1>4. ASSUME NEW x, InOrder(s, x), NEW k \in 1..n
      PROVE  InOrder(s, Step(x, k))
  <2>1. n + 1 - k \in DOMAIN x.arrays
    BY <1>2, <1>4 DEF InOrder, RowsKept
  <2> DEFINE i == n + 1 - k
  <2> HIDE DEF n, i
  <2>2. InOrder(x, RealizeArray(x, i, most))
    BY <1>4, <2>1, RealizeArrayOK DEF InOrder, i
  <2>3. InOrder(s, RealizeArray(x, i, most))
    BY <1>4, <2>2, RowsKeptTwice DEF InOrder
  <2> QED
    BY <1>4, <2>3 DEF i
<1> HIDE DEF Step, n
<1>5. 0 \in Defined
  <2>1. Rec([k \in 0..0 |-> s], 0)
    OBVIOUS
  <2> QED
    BY <2>1
<1>6. ASSUME NEW m \in Defined
      PROVE  m + 1 \in Defined
  <2>1. PICK f : Rec(f, m)
    OBVIOUS
  <2> DEFINE next == [k \in 0..(m + 1) |-> IF k <= m THEN f[k] ELSE Step(f[m], m + 1)]
  <2>2. \A k \in 0..(m + 1) : next[k] = IF k = 0 THEN s ELSE Step(next[k - 1], k)
    BY <2>1
  <2>3. Rec(next, m + 1)
    BY <2>2
  <2> HIDE DEF next
  <2> QED
    BY <2>3
<1>7. n \in Defined
  <2>1. Defined \in SUBSET Nat
    OBVIOUS
  <2> HIDE DEF Defined
  <2> QED
    BY <1>2, <1>5, <1>6, <2>1, Induction
<1>8. Rec(loop, n)
  BY <1>7
<1> HIDE DEF loop
<1>9. loop[0] = s /\ \A k \in 1..n : loop[k] = Step(loop[k - 1], k)
  BY <1>2, <1>8
<1>10. 0 \in Good /\ \A k \in Good : k + 1 \in Good
  BY <1>2, <1>3, <1>4, <1>9
<1>11. n \in Good
  <2>1. Good \in SUBSET Nat
    OBVIOUS
  <2> HIDE DEF Good
  <2> QED
    BY <1>2, <1>10, <2>1, Induction
<1> QED
  BY <1>1, <1>2, <1>11 DEF n

LEMMA RealizeVirtArraysOK ==
    ASSUME setting \in Settings, NEW s, MemoryOK(s), ArraysOK(s)
    PROVE  InOrder(s, realize_virt_arrays(s))
<1> DEFINE n == Len(s.arrays)
           most == MaxMinheights(s)
           t == RealizeAll(n, "sarray", s, most)
           u == RealizeAll(n, "barray", t, most)
<1>1. most \in Nat \ {0}
  BY MaxMinheightsOK
<1>2. realize_virt_arrays(s) = u
  BY DEF realize_virt_arrays, With, RealizeAll
<1> HIDE DEF most
<1>3. InOrder(s, t)
  BY <1>1, RealizeAllOK
<1> HIDE DEF t
<1>4. Len(t.arrays) = n
  BY <1>3, SequenceDomain DEF InOrder, ArraysOK, RowsKept
<1>5. InOrder(t, u)
  BY <1>1, <1>3, <1>4, RealizeAllOK DEF InOrder
<1> HIDE DEF u
<1>6. InOrder(s, u)
  BY <1>3, <1>5, RowsKeptTwice DEF InOrder
<1> QED
  BY <1>2, <1>6

-----------------------------------------------------------------------------
(* Windows.  A transfer moves the rows of the window that are defined, from *)
(* the first on, until they are moved or the disk is full.                  *)

DefinedRows(a) ==
    LET rows == Least(a.rows_in_mem, a.first_undef_row - a.cur_start_row)
    IN  IF rows > 0 THEN rows ELSE 0

SameWindow(a, b) ==
    /\ DOMAIN b = DOMAIN a
    /\ b.request = a.request /\ b.realized = a.realized /\ b.b_s_open = a.b_s_open
    /\ b.rows_in_mem = a.rows_in_mem /\ b.rowsperchunk = a.rowsperchunk
    /\ b.cur_start_row = a.cur_start_row /\ b.first_undef_row = a.first_undef_row
    /\ b.dirty = a.dirty /\ DOMAIN b.mem_buffer = DOMAIN a.mem_buffer

OthersSame(s, t, i) ==
    /\ SamePools(s, t) /\ t.failed \in BOOLEAN /\ IsSequence(t.arrays)
    /\ DOMAIN t.arrays = DOMAIN s.arrays /\ DOMAIN t.files = DOMAIN s.files
    /\ \A j \in DOMAIN s.arrays : j # i => t.arrays[j] = s.arrays[j]
    /\ \A j \in DOMAIN s.files : j # i => t.files[j] = s.files[j]

(* The first n rows of window a, over it or its file, have been moved.      *)
RowsMoved(a, b, file, new, writing, n) ==
    /\ SameWindow(a, b) /\ DOMAIN new = DOMAIN file
    /\ \A r \in DOMAIN file :
        new[r] = IF writing /\ r - a.cur_start_row \in 0..(n - 1)
                 THEN a.mem_buffer[r - a.cur_start_row] ELSE file[r]
    /\ \A k \in DOMAIN a.mem_buffer :
        b.mem_buffer[k] = IF ~writing /\ k < n THEN file[a.cur_start_row + k] ELSE a.mem_buffer[k]

Transferred(s, t, i, writing, n) ==
    /\ OthersSame(s, t, i)
    /\ RowsMoved(s.arrays[i], t.arrays[i], s.files[i], t.files[i], writing, n)
    /\ n \in Nat /\ n <= DefinedRows(s.arrays[i])
    /\ ~writing => ~t.failed

(* The state x of a transfer that has come to row first of the window.      *)
IoOK(s, i, writing, x, first) ==
    LET a == s.arrays[i]
        n == x.offset - a.cur_start_row
    IN  /\ DOMAIN x = {"s", "offset", "break"} /\ x.break \in BOOLEAN /\ x.offset \in Int
        /\ Transferred(s, x.s, i, writing, n)
        /\ ~x.s.failed => n = IF x.break THEN DefinedRows(a) ELSE Least(first, DefinedRows(a))

(* What a transfer finds of array i: its window and its file are there.     *)
IoReady(s, i) ==
    /\ IsSequence(s.arrays) /\ i \in DOMAIN s.arrays /\ i \in DOMAIN s.files
    /\ ArrayOK(s.arrays[i]) /\ s.arrays[i].realized
    /\ DOMAIN s.files[i] = 0..(s.arrays[i].request.numrows - 1)

LEMMA WindowTypes ==
    ASSUME NEW a, ArrayOK(a), a.realized
    PROVE  /\ a.rows_in_mem \in Nat \ {0} /\ a.rowsperchunk \in Nat \ {0}
           /\ a.first_undef_row \in Nat /\ a.cur_start_row \in Nat
           /\ a.request.numrows \in Nat \ {0} /\ a.request.maxaccess \in Nat \ {0}
           /\ a.first_undef_row <= a.request.numrows
           /\ DefinedRows(a) \in Nat /\ DefinedRows(a) <= a.rows_in_mem
<1>1. /\ a.rows_in_mem \in Nat \ {0} /\ a.rowsperchunk \in Nat \ {0}
      /\ a.first_undef_row \in Nat /\ a.cur_start_row \in Nat
      /\ a.first_undef_row <= a.request.numrows
  BY DEF ArrayOK, WindowOK
<1>2. a.request.numrows \in Nat \ {0} /\ a.request.maxaccess \in Nat \ {0}
  BY DEF ArrayOK, Requests
<1>3. DefinedRows(a) \in Nat /\ DefinedRows(a) <= a.rows_in_mem
  BY <1>1 DEF DefinedRows, Least
<1> QED
  BY <1>1, <1>2, <1>3

LEMMA ChunkOK ==
    ASSUME NEW s, MemoryOK(s), NEW i, IoReady(s, i),
           NEW writing \in BOOLEAN, NEW k \in Nat, NEW x,
           IoOK(s, i, writing, x, k * s.arrays[i].rowsperchunk)
    PROVE  IoOK(s, i, writing, IoChunk(x, i, writing, k), (k + 1) * s.arrays[i].rowsperchunk)
<1> DEFINE a == s.arrays[i]
           b == x.s.arrays[i]
           file == s.files[i]
           now == x.s.files[i]
           m == a.rowsperchunk
           first == k * b.rowsperchunk
           d == DefinedRows(a)
           n == x.offset - a.cur_start_row
           rows == Least(Least(b.rowsperchunk, b.rows_in_mem - first),
                         Least(b.first_undef_row, b.request.numrows) - (b.cur_start_row + first))
           written == [f \in 0..(b.request.numrows - 1) |->
                IF f - x.offset \in 0..(rows - 1) THEN b.mem_buffer[first + f - x.offset]
                ELSE x.s.files[i][f]]
           read == [h \in DOMAIN b.mem_buffer |->
                IF h - first \in 0..(rows - 1) THEN x.s.files[i][x.offset + h - first]
                ELSE b.mem_buffer[h]]
           y == IoChunk(x, i, writing, k)
<1>1. /\ ArrayOK(a) /\ a.realized /\ DOMAIN file = 0..(a.request.numrows - 1)
      /\ i \in DOMAIN s.arrays /\ i \in DOMAIN s.files
  BY DEF IoReady
<1>2. /\ m \in Nat \ {0} /\ a.rows_in_mem \in Nat \ {0} /\ a.first_undef_row \in Nat
      /\ a.cur_start_row \in Nat /\ a.request.numrows \in Nat \ {0}
      /\ a.first_undef_row <= a.request.numrows /\ d \in Nat /\ d <= a.rows_in_mem
  BY <1>1, WindowTypes
<1>3. k * m \in Nat /\ (k + 1) * m = k * m + m
  <2> HIDE DEF m
  <2> QED
    BY <1>2
<1>4. /\ Transferred(s, x.s, i, writing, n) /\ x.break \in BOOLEAN /\ x.offset \in Int
      /\ DOMAIN x = {"s", "offset", "break"}
      /\ ~x.s.failed => n = IF x.break THEN d ELSE Least(k * m, d)
  BY DEF IoOK
<1>5. SameWindow(a, b) /\ b.rowsperchunk = m
  BY <1>4 DEF Transferred, RowsMoved, SameWindow
<1>12. first = k * m /\ first \in Nat
  BY <1>3, <1>5
<1>14. first \in Nat
  BY <1>12
<1>6. rows = Least(Least(m, a.rows_in_mem - first), a.first_undef_row - (a.cur_start_row + first))
  <2> HIDE DEF first, m, d
  <2>1. /\ b.rows_in_mem = a.rows_in_mem /\ b.request = a.request
        /\ b.cur_start_row = a.cur_start_row /\ b.first_undef_row = a.first_undef_row
    BY <1>5 DEF SameWindow
  <2>2. Least(b.first_undef_row, b.request.numrows) = a.first_undef_row
    BY <1>2, <2>1 DEF Least
  <2> QED
    BY <1>5, <2>1, <2>2
<1>7. /\ rows \in Int /\ rows <= m
      /\ rows <= 0 => d <= first
      /\ rows > 0 => first < d /\ rows = Least(m, d - first)
  <2> HIDE DEF first, m, rows, a
  <2> QED
    BY <1>2, <1>6, <1>14 DEF Least, DefinedRows, d
<1>8. y = IF x.s.failed \/ x.break THEN x
          ELSE IF rows <= 0 THEN [x EXCEPT !.break = TRUE]
          ELSE IF ~writing THEN [x EXCEPT !.s = Buffered(@, i, read), !.offset = @ + rows]
          ELSE IF x.offset + rows > setting.disk THEN [x EXCEPT !.s = Failed(@)]
          ELSE [x EXCEPT !.s = Filed(@, i, written), !.offset = @ + rows]
  BY DEF IoChunk
<1> DEFINE next == (k + 1) * m
<1> HIDE DEF y, first, rows, m, d, next, read, written
<1>13. first \in Nat /\ next = first + m
  BY <1>3, <1>12 DEF next
<1> SUFFICES IoOK(s, i, writing, y, next)
  BY DEF y, m, next
<1>9. CASE x.s.failed \/ x.break
  <2>1. y = x
    BY <1>8, <1>9
  <2> QED
    BY <1>4, <1>9, <2>1 DEF IoOK, d
<1>10. CASE ~(x.s.failed \/ x.break) /\ rows <= 0
  <2>1. y = [x EXCEPT !.break = TRUE]
    BY <1>8, <1>10
  <2>2. DOMAIN y = DOMAIN x /\ y.s = x.s /\ y.offset = x.offset /\ y.break = TRUE
    BY <1>4, <2>1
  <2>3. n = d
    BY <1>2, <1>4, <1>7, <1>10, <1>12, <1>13 DEF Least
  <2> QED
    BY <1>4, <2>2, <2>3 DEF IoOK, d
<1>11. CASE ~(x.s.failed \/ x.break) /\ rows > 0
  <2> DEFINE moved == first + rows
  <2>1. /\ n = first /\ x.offset = a.cur_start_row + first
        /\ rows \in Nat /\ moved = first + rows /\ moved = Least(next, d) /\ moved \in Nat /\ moved <= d
    BY <1>2, <1>4, <1>7, <1>11, <1>12, <1>13 DEF Least
  <2> HIDE DEF moved
  <2>2. /\ OthersSame(s, x.s, i)
        /\ RowsMoved(a, b, file, now, writing, first)
    BY <1>4, <2>1 DEF Transferred
  <2>6. DOMAIN x.s = Fields /\ DOMAIN b = ArrayFields /\ i \in DOMAIN x.s.arrays /\ i \in DOMAIN x.s.files
    BY <1>1, <1>5, <2>2 DEF OthersSame, SamePools, MemoryOK, ArrayOK, SameWindow
  <2>7. /\ DOMAIN b.mem_buffer = DOMAIN a.mem_buffer /\ DOMAIN a.mem_buffer = 0..(a.rows_in_mem - 1)
        /\ DOMAIN now = DOMAIN file /\ DOMAIN file = 0..(a.request.numrows - 1)
        /\ b.request = a.request
    BY <1>1, <1>5, <2>2 DEF RowsMoved, SameWindow, ArrayOK, WindowOK
  <2>3. CASE ~writing
    <3> DEFINE c == [b EXCEPT !.mem_buffer = read]
    <3>1. y = [x EXCEPT !.s = Buffered(@, i, read), !.offset = @ + rows]
      BY <1>7, <1>8, <1>11, <2>3
    <3>2. /\ DOMAIN y = DOMAIN x /\ y.s = Buffered(x.s, i, read) /\ y.offset = x.offset + rows
          /\ y.break = x.break
      BY <1>4, <3>1
    <3>3. /\ SamePools(x.s, y.s) /\ y.s.failed = x.s.failed /\ y.s.files = x.s.files
          /\ y.s.arrays = [x.s.arrays EXCEPT ![i] = c]
      BY <2>6, <3>2 DEF Buffered, Fields, SamePools
    <3>4. IsSequence(y.s.arrays) /\ DOMAIN y.s.arrays = DOMAIN x.s.arrays /\ y.s.arrays[i] = c
          /\ \A j \in DOMAIN x.s.arrays : j # i => y.s.arrays[j] = x.s.arrays[j]
      <4> DEFINE q == x.s.arrays
                 p == y.s.arrays
      <4>1. IsSequence(q) /\ i \in DOMAIN q /\ p = [q EXCEPT ![i] = c]
        BY <2>2, <2>6, <3>3 DEF OthersSame
      <4> HIDE DEF p, q, c
      <4>2. /\ IsSequence(p) /\ DOMAIN p = DOMAIN q
            /\ p[i] = c /\ \A j \in DOMAIN q : i # j => p[j] = q[j]
        BY <4>1, SequenceReplaced
      <4> QED
        BY <4>2 DEF p, q
    <3>5. OthersSame(s, y.s, i)
      BY <2>2, <3>3, <3>4 DEF OthersSame, SamePools
    <3>6. SameWindow(b, c) /\ c.mem_buffer = read
      BY <2>6, <2>7 DEF ArrayFields, SameWindow, read
    <3> HIDE DEF c
    <3>7. SameWindow(a, c)
      BY <1>5, <3>6 DEF SameWindow
    <3>8. ASSUME NEW h \in DOMAIN a.mem_buffer
          PROVE  c.mem_buffer[h] = IF h < moved THEN file[a.cur_start_row + h] ELSE a.mem_buffer[h]
      <4>1. h \in Nat /\ h < a.rows_in_mem
        BY <1>2, <2>7
      <4>2. c.mem_buffer[h] = IF h - first \in 0..(rows - 1) THEN now[x.offset + h - first] ELSE b.mem_buffer[h]
        BY <2>7, <3>6 DEF read
      <4>3. b.mem_buffer[h] = IF h < first THEN file[a.cur_start_row + h] ELSE a.mem_buffer[h]
        BY <2>2, <2>3 DEF RowsMoved
      <4>4. CASE h >= first /\ h < moved
        <5> DEFINE r == a.cur_start_row + h
        <5>1. h - first \in 0..(rows - 1) /\ x.offset + h - first = r
          BY <1>2, <1>14, <2>1, <4>1, <4>4
        <5>2. r \in DOMAIN file
          <6>1. d > 0
            BY <1>2, <1>14, <2>1, <4>1, <4>4
          <6>2. d <= a.first_undef_row - a.cur_start_row
            BY <1>2, <6>1 DEF d, DefinedRows, Least
          <6>3. r \in Nat /\ r <= a.request.numrows - 1
            BY <1>2, <2>1, <4>1, <4>4, <6>2
          <6> HIDE DEF r
          <6> QED
            BY <1>2, <2>7, <6>3
        <5>3. now[r] = file[r]
          <6> HIDE DEF r
          <6> QED
            BY <2>2, <2>3, <5>2 DEF RowsMoved
        <5> QED
          BY <4>2, <4>4, <5>1, <5>3
      <4>5. CASE h < first
        <5>1. ~(h - first \in 0..(rows - 1)) /\ h < moved
          BY <1>14, <2>1, <4>1, <4>5
        <5> QED
          BY <4>2, <4>3, <4>5, <5>1
      <4>6. CASE h >= moved
        <5>1. ~(h - first \in 0..(rows - 1)) /\ ~(h < first) /\ ~(h < moved)
          BY <1>14, <2>1, <4>1, <4>6
        <5> QED
          BY <4>2, <4>3, <5>1
      <4> QED
        BY <1>14, <2>1, <4>1, <4>4, <4>5, <4>6
    <3>9. RowsMoved(a, c, file, now, writing, moved)
      BY <2>2, <2>3, <3>7, <3>8 DEF RowsMoved
    <3>10. y.offset \in Int /\ y.offset - a.cur_start_row = moved
      BY <1>2, <1>14, <2>1, <3>2
    <3>11. /\ y.s.arrays[i] = c /\ y.s.files[i] = now
           /\ ~writing => ~y.s.failed
      BY <1>11, <2>3, <3>3, <3>4
    <3>12. Transferred(s, y.s, i, writing, moved)
      BY <2>1, <3>5, <3>9, <3>11 DEF Transferred, d
    <3> QED
      BY <1>4, <1>11, <2>1, <3>2, <3>10, <3>12 DEF IoOK, d
  <2>4. CASE writing /\ x.offset + rows > setting.disk
    <3>1. y = [x EXCEPT !.s = Failed(@)]
      BY <1>7, <1>8, <1>11, <2>4
    <3>2. /\ DOMAIN y = DOMAIN x /\ y.s = Failed(x.s) /\ y.offset = x.offset /\ y.break = x.break
      BY <1>4, <3>1
    <3>3. /\ SamePools(x.s, y.s) /\ y.s.failed = TRUE /\ y.s.files = x.s.files /\ y.s.arrays = x.s.arrays
      BY <2>6, <3>2 DEF Failed, Fields, SamePools
    <3>4. OthersSame(s, y.s, i)
      BY <2>2, <3>3 DEF OthersSame, SamePools
    <3> QED
      BY <1>4, <2>2, <2>4, <3>2, <3>3, <3>4 DEF IoOK, Transferred, d
  <2>5. CASE writing /\ ~(x.offset + rows > setting.disk)
    <3>1. y = [x EXCEPT !.s = Filed(@, i, written), !.offset = @ + rows]
      BY <1>7, <1>8, <1>11, <2>5
    <3>2. /\ DOMAIN y = DOMAIN x /\ y.s = Filed(x.s, i, written) /\ y.offset = x.offset + rows
          /\ y.break = x.break
      BY <1>4, <3>1
    <3>3. /\ SamePools(x.s, y.s) /\ y.s.failed = x.s.failed /\ y.s.arrays = x.s.arrays
          /\ y.s.files = [x.s.files EXCEPT ![i] = written]
      BY <2>6, <3>2 DEF Filed, Fields, SamePools
    <3>4. /\ DOMAIN y.s.files = DOMAIN x.s.files /\ y.s.files[i] = written
          /\ \A j \in DOMAIN x.s.files : j # i => y.s.files[j] = x.s.files[j]
      BY <2>6, <3>3
    <3>5. OthersSame(s, y.s, i)
      BY <2>2, <3>3, <3>4 DEF OthersSame, SamePools
    <3>6. DOMAIN written = DOMAIN file
      BY <2>7 DEF written
    <3>7. ASSUME NEW r \in DOMAIN file
          PROVE  written[r] = IF r - a.cur_start_row \in 0..(moved - 1)
                              THEN a.mem_buffer[r - a.cur_start_row] ELSE file[r]
      <4> DEFINE h == r - a.cur_start_row
      <4>1. r \in Nat /\ h \in Int /\ r - x.offset = h - first /\ first + r - x.offset = h
        <5>1. r \in Nat
          BY <1>2, <2>7
        <5> QED
          BY <1>2, <1>14, <2>1, <5>1
      <4>2. written[r] = IF r - x.offset \in 0..(rows - 1) THEN b.mem_buffer[first + r - x.offset] ELSE now[r]
        BY <2>7 DEF written
      <4>3. now[r] = IF h \in 0..(first - 1) THEN a.mem_buffer[h] ELSE file[r]
        BY <2>2, <2>5 DEF RowsMoved
      <4>4. h \in 0..(moved - 1) <=> (h \in 0..(first - 1) \/ h - first \in 0..(rows - 1))
        <5> HIDE DEF h
        <5> QED
          BY <1>14, <2>1, <4>1
      <4>5. ASSUME h - first \in 0..(rows - 1)
            PROVE  b.mem_buffer[h] = a.mem_buffer[h]
        <5> HIDE DEF h
        <5>1. h \in DOMAIN a.mem_buffer
          <6>1. h \in Nat /\ h <= a.rows_in_mem - 1
            BY <1>2, <1>14, <2>1, <4>1, <4>5
          <6> QED
            BY <1>2, <2>7, <6>1
        <5> QED
          BY <2>2, <2>5, <5>1 DEF RowsMoved
      <4>6. ~(h \in 0..(first - 1) /\ h - first \in 0..(rows - 1))
        <5> HIDE DEF h
        <5> QED
          BY <1>14, <2>1, <4>1
      <4> HIDE DEF h
      <4> QED
        BY <4>1, <4>2, <4>3, <4>4, <4>5, <4>6 DEF h
    <3>8. RowsMoved(a, b, file, written, writing, moved)
      BY <2>2, <2>5, <3>6, <3>7 DEF RowsMoved
    <3>10. y.offset \in Int /\ y.offset - a.cur_start_row = moved
      BY <1>2, <1>14, <2>1, <3>2
    <3>11. /\ y.s.arrays[i] = b /\ y.s.files[i] = written
           /\ ~writing => ~y.s.failed
      BY <1>11, <2>5, <3>3, <3>4
    <3>12. Transferred(s, y.s, i, writing, moved)
      BY <2>1, <3>5, <3>8, <3>11 DEF Transferred, d
    <3> QED
      BY <1>4, <1>11, <2>1, <3>2, <3>10, <3>12 DEF IoOK, d
  <2> QED
    BY <2>3, <2>4, <2>5
<1> QED
  BY <1>7, <1>9, <1>10, <1>11

(* do_sarray_io and do_barray_io: all rows, or those for which the disk had *)
(* room.                                                                    *)
LEMMA ArrayIoOK ==
    ASSUME NEW s, MemoryOK(s), ~s.failed, NEW i, IoReady(s, i), NEW writing \in BOOLEAN
    PROVE  LET t == ArrayIo(s, i, writing)
           IN  \E n : /\ Transferred(s, t, i, writing, n)
                      /\ ~t.failed => n = DefinedRows(s.arrays[i])
<1> DEFINE a == s.arrays[i]
           m == a.rowsperchunk
           n == (a.rows_in_mem + a.rowsperchunk - 1) \div a.rowsperchunk
           base == [s |-> s, offset |-> a.cur_start_row, break |-> FALSE]
           Step(x, k) == IoChunk(x, i, writing, k - 1)
           Rec(f, j) == f = [k \in 0..j |-> IF k = 0 THEN base ELSE Step(f[k - 1], k)]
           loop == CHOOSE f : Rec(f, n)
           Defined == {j \in Nat : \E f : Rec(f, j)}
           Good == {k \in Nat : k <= n => IoOK(s, i, writing, loop[k], k * m)}
           t == ArrayIo(s, i, writing)
<1> SUFFICES \E j : /\ Transferred(s, t, i, writing, j)
                    /\ ~t.failed => j = DefinedRows(a)
  OBVIOUS
<1>1. t = loop[n].s
  BY DEF ArrayIo, do_sarray_io, do_barray_io, DoIo, Iterate
<1>2. ArrayOK(a) /\ a.realized
  BY DEF IoReady
<1>3. /\ m \in Nat \ {0} /\ a.rows_in_mem \in Nat \ {0} /\ a.cur_start_row \in Nat
      /\ DefinedRows(a) \in Nat /\ DefinedRows(a) <= a.rows_in_mem
  BY <1>2, WindowTypes
<1>4. n \in Nat /\ n * m >= a.rows_in_mem
  <2> DEFINE r == a.rows_in_mem
  <2>1. r \in Nat \ {0} /\ n = (r + m - 1) \div m
    BY <1>3
  <2> HIDE DEF m, r, n
  <2>2. n \in Nat
    BY <1>3, <2>1
  <2>3. r + m - 1 < m * n + m
    BY <1>3, <2>1
  <2>4. n * m = m * n
    BY <1>3, <2>2
  <2> DEFINE z == m * n
  <2>5. z \in Int /\ r + m - 1 < z + m
    BY <1>3, <2>2, <2>3
  <2> HIDE DEF z
  <2>6. z >= r
    BY <1>3, <2>1, <2>5
  <2> QED
    BY <2>2, <2>4, <2>6 DEF r, z
<1>5. IoOK(s, i, writing, base, 0 * m)
  <2>1. /\ DOMAIN base = {"s", "offset", "break"} /\ base.s = s /\ base.offset = a.cur_start_row
        /\ base.break = FALSE /\ base.offset - a.cur_start_row = 0
    BY <1>3
  <2>2. OthersSame(s, s, i)
    BY DEF OthersSame, SamePools, MemoryOK, IoReady
  <2>3. RowsMoved(a, a, s.files[i], s.files[i], writing, 0)
    <3>1. \A k \in DOMAIN a.mem_buffer : ~(k < 0)
      BY <1>2 DEF ArrayOK, WindowOK
    <3>2. \A r \in Int : r \notin 0..(0 - 1)
      OBVIOUS
    <3> QED
      BY <3>1, <3>2 DEF RowsMoved, SameWindow
  <2>4. Transferred(s, s, i, writing, 0)
    BY <1>3, <2>2, <2>3 DEF Transferred
  <2>5. 0 = Least(0 * m, DefinedRows(a))
    BY <1>3 DEF Least
  <2> HIDE DEF base
  <2>6. Transferred(s, base.s, i, writing, base.offset - a.cur_start_row)
    BY <2>1, <2>4, Zenon
  <2>7. base.offset \in Int /\ base.break \in BOOLEAN
    <3>1. a.cur_start_row \in Int
      BY <1>3
    <3>2. base.break \in BOOLEAN
      BY <2>1, Zenon
    <3> QED
      BY <2>1, <3>1, <3>2, Zenon
  <2>8. base.offset - a.cur_start_row = Least(0 * m, DefinedRows(a))
    BY <2>1, <2>5, Zenon
  <2> QED
    BY <2>1, <2>6, <2>7, <2>8, Zenon DEF IoOK
<1>6. ASSUME NEW x, NEW k \in Nat, IoOK(s, i, writing, x, k * m)
      PROVE  IoOK(s, i, writing, Step(x, k + 1), (k + 1) * m)
  <2>1. (k + 1) - 1 = k
    OBVIOUS
  <2>2. IoOK(s, i, writing, IoChunk(x, i, writing, k), (k + 1) * m)
    BY <1>6, ChunkOK
  <2> QED
    BY <2>1, <2>2
<1> HIDE DEF Step, n, base, t
<1>7. 0 \in Defined
  <2>1. Rec([k \in 0..0 |-> base], 0)
    OBVIOUS
  <2> QED
    BY <2>1
<1>8. ASSUME NEW j \in Defined
      PROVE  j + 1 \in Defined
  <2>1. PICK f : Rec(f, j)
    OBVIOUS
  <2> DEFINE next == [k \in 0..(j + 1) |-> IF k <= j THEN f[k] ELSE Step(f[j], j + 1)]
  <2>2. \A k \in 0..(j + 1) : next[k] = IF k = 0 THEN base ELSE Step(next[k - 1], k)
    BY <2>1
  <2>3. Rec(next, j + 1)
    BY <2>2
  <2> HIDE DEF next
  <2> QED
    BY <2>3
<1>9. n \in Defined
  <2>1. Defined \in SUBSET Nat
    OBVIOUS
  <2> HIDE DEF Defined
  <2> QED
    BY <1>4, <1>7, <1>8, <2>1, Induction
<1>10. Rec(loop, n)
  BY <1>9
<1> HIDE DEF loop
<1>11. loop[0] = base /\ \A k \in 1..n : loop[k] = Step(loop[k - 1], k)
  BY <1>4, <1>10
<1>12. 0 \in Good
  BY <1>5, <1>11
<1>13. ASSUME NEW k \in Good
       PROVE  k + 1 \in Good
  <2> SUFFICES ASSUME k + 1 <= n
               PROVE  IoOK(s, i, writing, loop[k + 1], (k + 1) * m)
    OBVIOUS
  <2>1. k \in Nat /\ k + 1 \in 1..n /\ (k + 1) - 1 = k /\ IoOK(s, i, writing, loop[k], k * m)
    BY <1>4
  <2>2. loop[k + 1] = Step(loop[k], k + 1)
    BY <1>11, <2>1
  <2> QED
    BY <1>6, <2>1, <2>2
<1>14. n \in Good
  <2>1. Good \in SUBSET Nat
    OBVIOUS
  <2> HIDE DEF Good
  <2> QED
    BY <1>4, <1>12, <1>13, <2>1, Induction
<1>15. IoOK(s, i, writing, loop[n], n * m)
  BY <1>4, <1>14
<1> DEFINE j == loop[n].offset - a.cur_start_row
<1>16. Transferred(s, t, i, writing, j)
  BY <1>1, <1>15 DEF IoOK
<1>17. ASSUME ~t.failed
       PROVE  j = DefinedRows(a)
  <2>1. Least(n * m, DefinedRows(a)) = DefinedRows(a)
    <3> DEFINE z == n * m
    <3>1. z \in Int /\ z >= a.rows_in_mem
      BY <1>3, <1>4
    <3> HIDE DEF z
    <3>2. Least(z, DefinedRows(a)) = DefinedRows(a)
      BY <1>3, <3>1 DEF Least
    <3> QED
      BY <3>2 DEF z
  <2> QED
    BY <1>1, <1>15, <1>17, <2>1 DEF IoOK
<1> QED
  BY <1>16, <1>17

(* Row r of an array: in the window or in the file.                         *)
RowAt(a, file, r) ==
    IF r - a.cur_start_row \in DOMAIN a.mem_buffer THEN a.mem_buffer[r - a.cur_start_row] ELSE file[r]

SameRows(a, b, file, new) ==
    \A r \in 0..(a.first_undef_row - 1) : RowAt(b, new, r) = RowAt(a, file, r)

(* A routine that works on array i leaves the others alone, and of this one *)
(* everything but the window, what is in it, and what is marked.            *)
ArrayKept(s, t, i) ==
    /\ MemoryOK(t) /\ ArraysOK(t)
    /\ DOMAIN t.arrays = DOMAIN s.arrays
    /\ \A j \in DOMAIN s.arrays : j # i =>
        t.arrays[j] = s.arrays[j] /\ (s.arrays[j].b_s_open => t.files[j] = s.files[j])
    /\ LET a == s.arrays[i]
           b == t.arrays[i]
       IN  /\ b.request = a.request /\ b.realized = a.realized /\ b.b_s_open = a.b_s_open
           /\ b.rows_in_mem = a.rows_in_mem

RowsSame(s, t, i) ==
    /\ ArrayKept(s, t, i)
    /\ t.arrays[i].first_undef_row = s.arrays[i].first_undef_row
    /\ SameRows(s.arrays[i], t.arrays[i], s.files[i], t.files[i])

(* After a transfer, with file and window in agreement if they should be.   *)
LEMMA TransferKeeps ==
    ASSUME NEW s, NEW t, NEW i, NEW n, NEW writing \in BOOLEAN, MemoryOK(s), IoReady(s, i),
           \A j \in DOMAIN s.arrays : ArrayOK(s.arrays[j]),
           \A j \in DOMAIN s.arrays : s.arrays[j].b_s_open => j \in DOMAIN s.files,
           \A j \in DOMAIN s.arrays : s.arrays[j].b_s_open /\ j # i => FileOK(s.arrays[j], s.files[j]),
           \A j \in DOMAIN s.files : j \in DOMAIN s.arrays /\ s.arrays[j].b_s_open,
           Transferred(s, t, i, writing, n),
           s.arrays[i].dirty \/ Agrees(t.arrays[i], t.files[i])
    PROVE  ArrayKept(s, t, i)
<1> DEFINE a == s.arrays[i]
           b == t.arrays[i]
<1>1. /\ OthersSame(s, t, i) /\ SameWindow(a, b) /\ DOMAIN t.files[i] = DOMAIN s.files[i]
  BY DEF Transferred, RowsMoved
<1>2. MemoryOK(t)
  BY <1>1, SamePoolsOK DEF OthersSame
<1>3. ArrayOK(a) /\ a.realized
  BY DEF IoReady
<1>4. ArrayOK(b) /\ FileOK(b, t.files[i])
  <2>1. ArrayOK(b)
    BY <1>1, <1>3 DEF SameWindow, ArrayOK, WindowOK
  <2>2. DOMAIN t.files[i] = 0..(b.request.numrows - 1)
    BY <1>1 DEF IoReady, SameWindow
  <2>3. b.dirty \/ Agrees(b, t.files[i])
    BY <1>1 DEF SameWindow
  <2> QED
    BY <2>1, <2>2, <2>3 DEF FileOK
<1>5. \A j \in DOMAIN t.arrays : ArrayOK(t.arrays[j])
  BY <1>1, <1>4 DEF OthersSame
<1>6. ASSUME NEW j \in DOMAIN t.arrays, t.arrays[j].b_s_open
      PROVE  j \in DOMAIN t.files /\ FileOK(t.arrays[j], t.files[j])
  <2>1. CASE j = i
    BY <1>1, <1>4, <2>1 DEF OthersSame, IoReady
  <2>2. CASE j # i
    BY <1>1, <1>6, <2>2 DEF OthersSame
  <2> QED
    BY <2>1, <2>2
<1>7. ASSUME NEW j \in DOMAIN t.files
      PROVE  j \in DOMAIN t.arrays /\ t.arrays[j].b_s_open
  <2>1. j \in DOMAIN s.files /\ j \in DOMAIN s.arrays /\ s.arrays[j].b_s_open
    BY <1>1 DEF OthersSame
  <2> QED
    BY <1>1, <2>1 DEF OthersSame, SameWindow
<1>8. ArraysOK(t)
  BY <1>1, <1>5, <1>6, <1>7 DEF ArraysOK, OthersSame
<1> QED
  BY <1>1, <1>2, <1>8 DEF ArrayKept, OthersSame, SameWindow

LEMMA WriteBackOK ==
    ASSUME NEW s, MemoryOK(s), ArraysOK(s), ~s.failed, NEW i \in DOMAIN s.arrays,
           s.arrays[i].realized, s.arrays[i].b_s_open, s.arrays[i].dirty
    PROVE  LET t == ArrayIo(s, i, TRUE)
           IN  /\ RowsSame(s, t, i)
               /\ t.arrays[i].cur_start_row = s.arrays[i].cur_start_row
               /\ ~t.failed => Agrees(t.arrays[i], t.files[i])
<1> DEFINE t == ArrayIo(s, i, TRUE)
           a == s.arrays[i]
           b == t.arrays[i]
           file == s.files[i]
           new == t.files[i]
<1>1. IoReady(s, i)
  BY DEF IoReady, ArraysOK, FileOK
<1>2. PICK n : /\ Transferred(s, t, i, TRUE, n)
               /\ ~t.failed => n = DefinedRows(a)
  BY <1>1, ArrayIoOK
<1> HIDE DEF t
<1>3. RowsMoved(a, b, file, new, TRUE, n) /\ n \in Nat /\ n <= DefinedRows(a)
  BY <1>2 DEF Transferred
<1>4. ArrayKept(s, t, i)
  BY <1>1, <1>2, TransferKeeps DEF ArraysOK
<1>5. ArrayOK(a) /\ SameWindow(a, b) /\ DOMAIN file = 0..(a.request.numrows - 1)
  BY <1>1, <1>3 DEF RowsMoved, IoReady
<1>6. /\ a.rows_in_mem \in Nat \ {0} /\ a.cur_start_row \in Nat /\ a.first_undef_row \in Nat
      /\ a.request.numrows \in Nat /\ a.first_undef_row <= a.request.numrows
      /\ DefinedRows(a) \in Nat /\ DefinedRows(a) <= a.rows_in_mem
  BY <1>5, WindowTypes
<1>7. DOMAIN a.mem_buffer = 0..(a.rows_in_mem - 1)
  BY <1>5 DEF ArrayOK, WindowOK
<1>8. \A k \in DOMAIN a.mem_buffer : b.mem_buffer[k] = a.mem_buffer[k]
  BY <1>3 DEF RowsMoved
<1>9. ASSUME NEW r \in 0..(a.first_undef_row - 1)
      PROVE  RowAt(b, new, r) = RowAt(a, file, r)
  <2> DEFINE k == r - a.cur_start_row
  <2>1. r \in DOMAIN file /\ k \in Int
    BY <1>5, <1>6
  <2>2. k \notin DOMAIN a.mem_buffer => new[r] = file[r]
    BY <1>3, <1>6, <1>7, <2>1 DEF RowsMoved
  <2> QED
    BY <1>5, <1>8, <2>2 DEF RowAt, SameWindow
<1>10. ASSUME ~t.failed
       PROVE  Agrees(b, new)
  <2> SUFFICES ASSUME NEW r \in 0..(a.first_undef_row - 1), r - a.cur_start_row \in DOMAIN a.mem_buffer
               PROVE  new[r] = b.mem_buffer[r - a.cur_start_row]
    BY <1>5 DEF Agrees, SameWindow
  <2>1. r \in DOMAIN file /\ r - a.cur_start_row \in 0..(DefinedRows(a) - 1)
    <3> DEFINE k == r - a.cur_start_row
    <3>1. k \in 0..(a.rows_in_mem - 1) /\ r \in DOMAIN file
      BY <1>5, <1>6, <1>7
    <3>3. k < a.first_undef_row - a.cur_start_row
      BY <1>6
    <3> HIDE DEF k
    <3>2. k < DefinedRows(a)
      BY <1>6, <3>1, <3>3 DEF DefinedRows, Least
    <3> QED
      BY <1>6, <3>1, <3>2 DEF k
  <2>2. new[r] = a.mem_buffer[r - a.cur_start_row]
    BY <1>2, <1>3, <1>10, <2>1 DEF RowsMoved
  <2> QED
    BY <1>8, <2>2
<1> QED
  BY <1>4, <1>5, <1>9, <1>10 DEF RowsSame, SameRows, SameWindow, t

(* The window is moved, and read.                                           *)
Loaded(s, i, start) == ArrayIo([s EXCEPT !.arrays[i] = Moved(@, start)], i, FALSE)

LEMMA LoadOK ==
    ASSUME NEW s, MemoryOK(s), ArraysOK(s), ~s.failed, NEW i \in DOMAIN s.arrays,
           s.arrays[i].realized, s.arrays[i].b_s_open, Agrees(s.arrays[i], s.files[i]), NEW start \in Nat
    PROVE  LET t == Loaded(s, i, start)
           IN  /\ RowsSame(s, t, i) /\ ~t.failed
               /\ t.arrays[i].cur_start_row = start
<1> DEFINE o == s.arrays[i]
           a == Moved(o, start)
           u == [s EXCEPT !.arrays[i] = Moved(@, start)]
           t == ArrayIo(u, i, FALSE)
           b == t.arrays[i]
           file == s.files[i]
<1>1. /\ ArrayOK(o) /\ o.realized /\ o.b_s_open /\ i \in DOMAIN s.files /\ FileOK(o, file) /\ Agrees(o, file)
  BY DEF ArraysOK
<1> HIDE DEF o
<1>2. /\ DOMAIN a = DOMAIN o /\ a.request = o.request /\ a.realized = o.realized
      /\ a.b_s_open = o.b_s_open /\ a.rows_in_mem = o.rows_in_mem /\ a.rowsperchunk = o.rowsperchunk
      /\ a.first_undef_row = o.first_undef_row /\ a.mem_buffer = o.mem_buffer
      /\ a.dirty = FALSE /\ a.cur_start_row = start
  BY <1>1 DEF Moved, ArrayOK, ArrayFields
<1>3. /\ SamePools(s, u) /\ u.failed = s.failed /\ u.files = s.files
      /\ u.arrays = [s.arrays EXCEPT ![i] = a]
  <2>1. DOMAIN s = Fields
    BY DEF MemoryOK
  <2> HIDE DEF a
  <2> QED
    BY <2>1 DEF Fields, SamePools, a, o
<1> HIDE DEF a, u
<1>4. /\ IsSequence(u.arrays) /\ DOMAIN u.arrays = DOMAIN s.arrays /\ u.arrays[i] = a
      /\ \A j \in DOMAIN s.arrays : j # i => u.arrays[j] = s.arrays[j]
  <2> DEFINE q == s.arrays
             p == u.arrays
  <2>1. IsSequence(q) /\ i \in DOMAIN q /\ p = [q EXCEPT ![i] = a]
    BY <1>3 DEF ArraysOK
  <2> HIDE DEF p, q
  <2>2. /\ IsSequence(p) /\ DOMAIN p = DOMAIN q
        /\ p[i] = a /\ \A j \in DOMAIN q : i # j => p[j] = q[j]
    BY <2>1, SequenceReplaced
  <2> QED
    BY <2>2 DEF p, q
<1>5. MemoryOK(u) /\ ~u.failed
  BY <1>3, SamePoolsOK DEF MemoryOK
<1>6. ArrayOK(a)
  BY <1>1, <1>2 DEF ArrayOK, WindowOK
<1>7. IoReady(u, i)
  BY <1>1, <1>2, <1>3, <1>4, <1>6 DEF IoReady, FileOK
<1>8. PICK n : /\ Transferred(u, t, i, FALSE, n)
               /\ ~t.failed => n = DefinedRows(a)
  BY <1>4, <1>5, <1>7, ArrayIoOK
<1> HIDE DEF t
<1>9. /\ RowsMoved(a, b, file, t.files[i], FALSE, n) /\ n \in Nat /\ n <= DefinedRows(a)
      /\ OthersSame(u, t, i) /\ ~t.failed /\ n = DefinedRows(a)
  BY <1>3, <1>4, <1>8 DEF Transferred
<1>10. /\ a.rows_in_mem \in Nat \ {0} /\ a.cur_start_row \in Nat /\ a.first_undef_row \in Nat
       /\ a.request.numrows \in Nat /\ a.first_undef_row <= a.request.numrows
       /\ DefinedRows(a) \in Nat /\ DefinedRows(a) <= a.rows_in_mem
  BY <1>1, <1>2, <1>6, WindowTypes
<1>11. DOMAIN a.mem_buffer = 0..(a.rows_in_mem - 1) /\ DOMAIN file = 0..(a.request.numrows - 1)
  BY <1>1, <1>2, <1>6 DEF ArrayOK, WindowOK, FileOK
<1>12. SameWindow(a, b)
  BY <1>9 DEF RowsMoved
<1>13. \A r \in DOMAIN file : t.files[i][r] = file[r]
  BY <1>9 DEF RowsMoved
<1>14. ASSUME NEW r \in 0..(a.first_undef_row - 1), r - start \in DOMAIN a.mem_buffer
       PROVE  b.mem_buffer[r - start] = file[r]
  <2> DEFINE k == r - start
  <2>1. k \in Nat /\ k < a.rows_in_mem /\ k < a.first_undef_row - a.cur_start_row /\ start + k = r
    BY <1>2, <1>10, <1>11, <1>14
  <2>2. b.mem_buffer[k] = IF k < n THEN file[a.cur_start_row + k] ELSE a.mem_buffer[k]
    BY <1>9, <1>14 DEF RowsMoved
  <2> HIDE DEF k
  <2>3. k < n
    BY <1>9, <1>10, <2>1 DEF DefinedRows, Least
  <2> QED
    BY <1>2, <2>1, <2>2, <2>3 DEF k
<1>15. \A r \in 0..(a.first_undef_row - 1) : r \in DOMAIN file
  BY <1>10, <1>11
<1>16. Agrees(b, t.files[i])
  <2> SUFFICES ASSUME NEW r \in 0..(a.first_undef_row - 1), r - start \in DOMAIN a.mem_buffer
               PROVE  t.files[i][r] = b.mem_buffer[r - start]
    BY <1>2, <1>12 DEF Agrees, SameWindow
  <2> QED
    BY <1>13, <1>14, <1>15
<1>17. ArrayKept(u, t, i)
  <2>1. \A j \in DOMAIN u.arrays : ArrayOK(u.arrays[j])
    BY <1>4, <1>6 DEF ArraysOK
  <2>2. \A j \in DOMAIN u.arrays : u.arrays[j].b_s_open => j \in DOMAIN u.files
    BY <1>1, <1>3, <1>4 DEF ArraysOK
  <2>3. \A j \in DOMAIN u.arrays : u.arrays[j].b_s_open /\ j # i => FileOK(u.arrays[j], u.files[j])
    BY <1>3, <1>4 DEF ArraysOK
  <2>4. \A j \in DOMAIN u.files : j \in DOMAIN u.arrays /\ u.arrays[j].b_s_open
    BY <1>1, <1>2, <1>3, <1>4 DEF ArraysOK
  <2> QED
    BY <1>5, <1>7, <1>8, <1>16, <2>1, <2>2, <2>3, <2>4, TransferKeeps
<1>18. ArrayKept(s, t, i)
  BY <1>2, <1>3, <1>4, <1>17 DEF ArrayKept, o
<1>19. ASSUME NEW r \in 0..(o.first_undef_row - 1)
       PROVE  RowAt(b, t.files[i], r) = RowAt(o, file, r)
  <2>1. RowAt(o, file, r) = file[r]
    BY <1>1 DEF RowAt, Agrees
  <2>2. RowAt(b, t.files[i], r) = file[r]
    <3>1. r - b.cur_start_row = r - start /\ DOMAIN b.mem_buffer = DOMAIN a.mem_buffer
      BY <1>2, <1>12 DEF SameWindow
    <3>2. r \in 0..(a.first_undef_row - 1) /\ t.files[i][r] = file[r]
      BY <1>2, <1>13, <1>15
    <3> QED
      BY <1>14, <3>1, <3>2 DEF RowAt
  <2> QED
    BY <2>1, <2>2
<1> QED
  BY <1>2, <1>9, <1>12, <1>18, <1>19 DEF RowsSame, SameRows, SameWindow, Loaded, o, t, u

LEMMA RowsSameHere ==
    ASSUME NEW s, MemoryOK(s), ArraysOK(s), NEW i \in DOMAIN s.arrays
    PROVE  RowsSame(s, s, i)
  BY DEF RowsSame, ArrayKept, SameRows

LEMMA RowsSameFailed ==
    ASSUME NEW s, NEW t, NEW i, RowsSame(s, t, i)
    PROVE  RowsSame(s, Failed(t), i) /\ Failed(t).failed
<1>1. MemoryOK(t) /\ ArraysOK(t)
  BY DEF RowsSame, ArrayKept
<1>2. MemoryOK(Failed(t)) /\ SameArrays(t, Failed(t)) /\ Failed(t).failed
  BY <1>1, FailedOK
<1> DEFINE u == Failed(t)
<1> HIDE DEF u
<1>3. ArraysOK(u)
  BY <1>1, <1>2, SameArraysOK DEF u
<1> QED
  BY <1>2, <1>3 DEF RowsSame, ArrayKept, SameArrays, u

LEMMA RowsSameTwice ==
    ASSUME NEW s, NEW t, NEW u, NEW i \in DOMAIN s.arrays, RowsSame(s, t, i), RowsSame(t, u, i)
    PROVE  RowsSame(s, u, i)
  BY DEF RowsSame, ArrayKept, SameRows

(* The window moves to where it holds the strip, or the access fails; the   *)
(* rows stay what they are either way.                                      *)
LEMMA MoveWindowOK ==
    ASSUME NEW s, MemoryOK(s), ArraysOK(s), ~s.failed, NEW i \in DOMAIN s.arrays, s.arrays[i].realized,
           NEW start \in Nat, NEW end \in Nat, start < end, end <= s.arrays[i].request.numrows,
           end - start <= s.arrays[i].request.maxaccess
    PROVE  LET t == MoveWindow(s, i, start, end)
           IN  /\ RowsSame(s, t, i)
               /\ ~t.failed => /\ t.arrays[i].cur_start_row <= start
                               /\ end <= t.arrays[i].cur_start_row + t.arrays[i].rows_in_mem
<1> DEFINE a == s.arrays[i]
           t == MoveWindow(s, i, start, end)
           back == IF a.dirty THEN ArrayIo(s, i, TRUE) ELSE s
           to == WindowStart(a, start, end)
           loaded == Loaded(back, i, to)
<1> SUFFICES /\ RowsSame(s, t, i)
             /\ ~t.failed => /\ t.arrays[i].cur_start_row <= start
                             /\ end <= t.arrays[i].cur_start_row + t.arrays[i].rows_in_mem
  OBVIOUS
<1>1. ArrayOK(a) /\ a.realized /\ (a.b_s_open => FileOK(a, s.files[i]))
  BY DEF ArraysOK
<1>2. /\ a.rows_in_mem \in Nat \ {0} /\ a.cur_start_row \in Nat
      /\ a.request.numrows \in Nat \ {0} /\ a.request.maxaccess \in Nat \ {0}
  BY <1>1, WindowTypes
<1>3. end - start <= a.rows_in_mem
  BY <1>1, <1>2 DEF ArrayOK, WindowOK
<1>4. RowsSame(s, s, i)
  BY RowsSameHere
<1>5. CASE start >= a.cur_start_row /\ end <= a.cur_start_row + a.rows_in_mem
  <2>1. t = s
    BY <1>5 DEF MoveWindow
  <2> QED
    BY <1>4, <1>5, <2>1
<1>6. CASE ~(start >= a.cur_start_row /\ end <= a.cur_start_row + a.rows_in_mem) /\ ~a.b_s_open
  <2>1. t = Failed(s)
    BY <1>6 DEF MoveWindow
  <2> HIDE DEF t
  <2> QED
    BY <1>4, <2>1, RowsSameFailed
<1>7. CASE ~(start >= a.cur_start_row /\ end <= a.cur_start_row + a.rows_in_mem) /\ a.b_s_open
  <2>1. t = IF back.failed THEN back ELSE loaded
    BY <1>7 DEF MoveWindow, Loaded
  <2> HIDE DEF t
  <2>2. /\ to \in Nat /\ to <= start /\ end <= to + a.rows_in_mem
    <3> HIDE DEF a
    <3> QED
      BY <1>2, <1>3 DEF WindowStart
  <2>3. RowsSame(s, back, i) /\ (~back.failed => Agrees(back.arrays[i], back.files[i]))
    <3>1. CASE a.dirty
      <4> DEFINE w == ArrayIo(s, i, TRUE)
      <4>1. RowsSame(s, w, i) /\ (~w.failed => Agrees(w.arrays[i], w.files[i]))
        BY <1>7, <3>1, WriteBackOK
      <4> HIDE DEF w
      <4>2. back = w
        BY <3>1 DEF w
      <4> QED
        BY <4>1, <4>2
    <3>2. CASE ~a.dirty
      BY <1>1, <1>4, <1>7, <3>2 DEF FileOK
    <3> QED
      BY <3>1, <3>2
  <2> HIDE DEF back, to
  <2>4. CASE back.failed
    BY <2>1, <2>3, <2>4
  <2>5. CASE ~back.failed
    <3>1. /\ MemoryOK(back) /\ ArraysOK(back) /\ i \in DOMAIN back.arrays
          /\ back.arrays[i].realized /\ back.arrays[i].b_s_open
          /\ back.arrays[i].rows_in_mem = a.rows_in_mem
      BY <1>1, <1>7, <2>3 DEF RowsSame, ArrayKept
    <3>2. RowsSame(back, loaded, i) /\ ~loaded.failed /\ loaded.arrays[i].cur_start_row = to
      <4>1. Agrees(back.arrays[i], back.files[i])
        BY <2>3, <2>5
      <4> QED
        BY <2>2, <2>5, <3>1, <4>1, LoadOK
    <3> HIDE DEF loaded
    <3>3. RowsSame(s, loaded, i)
      BY <2>3, <3>2, RowsSameTwice
    <3>4. loaded.arrays[i].rows_in_mem = a.rows_in_mem
      BY <3>3 DEF RowsSame, ArrayKept
    <3> QED
      BY <2>1, <2>2, <2>5, <3>2, <3>3, <3>4
  <2> QED
    BY <2>4, <2>5
<1> QED
  BY <1>5, <1>6, <1>7

(* Rows nobody has defined: what an access to rows start..end - 1 of the    *)
(* window a leaves for its caller.                                          *)
PreparedArray(a, b, start, end, writable) ==
    /\ DOMAIN b = ArrayFields
    /\ b.request = a.request /\ b.realized = a.realized /\ b.b_s_open = a.b_s_open
    /\ b.rows_in_mem = a.rows_in_mem /\ b.rowsperchunk = a.rowsperchunk
    /\ b.cur_start_row = a.cur_start_row /\ DOMAIN b.mem_buffer = DOMAIN a.mem_buffer
    /\ b.first_undef_row = IF writable /\ a.first_undef_row < end THEN end ELSE a.first_undef_row
    /\ b.dirty = (writable \/ a.dirty)
    /\ writable => start <= a.first_undef_row
    /\ ~writable => end <= a.first_undef_row \/ a.request.pre_zero
    /\ \A k \in DOMAIN a.mem_buffer :
        /\ k + a.cur_start_row < a.first_undef_row => b.mem_buffer[k] = a.mem_buffer[k]
        /\ a.request.pre_zero /\ k + a.cur_start_row \in start..(end - 1)
                /\ k + a.cur_start_row >= a.first_undef_row
            => b.mem_buffer[k] = 0

Prepared(s, t, i, start, end, writable) ==
    /\ ArrayKept(s, t, i) /\ t.files = s.files
    /\ PreparedArray(s.arrays[i], t.arrays[i], start, end, writable)

(* Array i becomes b, and nothing else changes.                             *)
Changed(s, t, i, b) ==
    /\ SamePools(s, t) /\ t.failed \in BOOLEAN /\ t.files = s.files
    /\ t.arrays = [s.arrays EXCEPT ![i] = b]

LEMMA PreparedBy ==
    ASSUME NEW s, MemoryOK(s), ArraysOK(s), NEW i \in DOMAIN s.arrays, s.arrays[i].realized,
           NEW t, NEW b, Changed(s, t, i, b),
           NEW start \in Nat, NEW end \in Nat, NEW writable \in BOOLEAN,
           start < end, end <= s.arrays[i].request.numrows,
           PreparedArray(s.arrays[i], b, start, end, writable)
    PROVE  Prepared(s, t, i, start, end, writable)
<1> DEFINE a == s.arrays[i]
           file == s.files[i]
<1>1. ArrayOK(a) /\ a.realized /\ (a.b_s_open => i \in DOMAIN s.files /\ FileOK(a, file))
  BY DEF ArraysOK
<1>2. /\ a.cur_start_row \in Nat /\ a.first_undef_row \in Nat /\ a.first_undef_row <= a.request.numrows
      /\ b.first_undef_row \in Nat /\ b.first_undef_row <= a.request.numrows
  BY <1>1 DEF ArrayOK, PreparedArray
<1>3. ArrayOK(b)
  <2>1. WindowOK(b)
    BY <1>1 DEF ArrayOK, WindowOK, PreparedArray
  <2> QED
    BY <1>1, <1>2, <2>1 DEF ArrayOK, PreparedArray
<1>4. ASSUME b.b_s_open
      PROVE  FileOK(b, file)
  <2>1. DOMAIN file = 0..(b.request.numrows - 1)
    BY <1>1, <1>4 DEF FileOK, PreparedArray
  <2>2. ASSUME ~b.dirty
        PROVE  Agrees(b, file)
    <3>1. ~writable /\ ~a.dirty /\ b.first_undef_row = a.first_undef_row
      BY <2>2 DEF PreparedArray
    <3>2. Agrees(a, file)
      BY <1>1, <1>4, <3>1 DEF FileOK, PreparedArray
    <3> SUFFICES ASSUME NEW r \in 0..(a.first_undef_row - 1),
                        r - a.cur_start_row \in DOMAIN a.mem_buffer
                 PROVE  file[r] = b.mem_buffer[r - a.cur_start_row]
      BY <3>1 DEF Agrees, PreparedArray
    <3> DEFINE k == r - a.cur_start_row
    <3>3. k + a.cur_start_row < a.first_undef_row /\ k \in DOMAIN a.mem_buffer
      BY <1>2
    <3>4. b.mem_buffer[k] = a.mem_buffer[k]
      <4> HIDE DEF k
      <4> QED
        BY <3>3 DEF PreparedArray
    <3> QED
      BY <3>2, <3>4 DEF Agrees
  <2> QED
    BY <1>1, <1>3, <2>1, <2>2 DEF FileOK, ArrayOK
<1>5. OneArray(s, t, i, b)
  BY <1>1, <1>3, <1>4 DEF OneArray, PreparedArray, Changed
<1>6. /\ MemoryOK(t) /\ ArraysOK(t)
      /\ DOMAIN t.arrays = DOMAIN s.arrays /\ t.arrays[i] = b
      /\ \A j \in DOMAIN s.arrays : j # i => t.arrays[j] = s.arrays[j]
  BY <1>5, OneArrayOK
<1>7. ArrayKept(s, t, i)
  BY <1>6 DEF ArrayKept, PreparedArray, Changed
<1> QED
  BY <1>6, <1>7 DEF Prepared, Changed

(* DefineRows and the mark that AccessVirt sets after it.                   *)
LEMMA DefineRowsOK ==
    ASSUME NEW s, MemoryOK(s), ArraysOK(s), ~s.failed, NEW i \in DOMAIN s.arrays, s.arrays[i].realized,
           NEW start \in Nat, NEW end \in Nat, NEW writable \in BOOLEAN,
           start < end, end <= s.arrays[i].request.numrows
    PROVE  LET t == Marked(DefineRows(s, i, start, end, writable), i, writable)
           IN  IF t.failed THEN RowsSame(s, t, i) ELSE Prepared(s, t, i, start, end, writable)
<1> DEFINE a == s.arrays[i]
           undef_row == IF a.first_undef_row < start THEN start ELSE a.first_undef_row
           zeroed == [k \in DOMAIN a.mem_buffer |->
                IF k + a.cur_start_row \in undef_row..(end - 1) THEN 0 ELSE a.mem_buffer[k]]
           buffer == IF a.request.pre_zero THEN zeroed ELSE a.mem_buffer
           c == [a EXCEPT !.first_undef_row = IF writable THEN end ELSE @,
                          !.mem_buffer = IF a.request.pre_zero THEN zeroed ELSE @]
           u == DefineRows(s, i, start, end, writable)
           t == Marked(u, i, writable)
<1> SUFFICES IF t.failed THEN RowsSame(s, t, i) ELSE Prepared(s, t, i, start, end, writable)
  OBVIOUS
<1>1. ArrayOK(a) /\ DOMAIN s = Fields
  BY DEF ArraysOK, MemoryOK
<1>2. /\ a.cur_start_row \in Nat /\ a.first_undef_row \in Nat /\ a.dirty \in BOOLEAN
      /\ a.request.pre_zero \in BOOLEAN /\ DOMAIN a = ArrayFields
  BY <1>1 DEF ArrayOK, Requests
<1>7. DOMAIN a.mem_buffer = 0..(a.rows_in_mem - 1) /\ a.rows_in_mem \in Nat
  BY <1>1 DEF ArrayOK, WindowOK
<1>3. t = IF u.failed \/ ~writable THEN u ELSE [u EXCEPT !.arrays[i].dirty = TRUE]
  BY DEF Marked
<1> HIDE DEF u, t
<1>4. CASE a.first_undef_row >= end
  <2>1. u = s
    BY <1>4 DEF DefineRows, u
  <2> DEFINE b == IF writable THEN [a EXCEPT !.dirty = TRUE] ELSE a
  <2>2. /\ SamePools(s, t) /\ t.failed = s.failed /\ t.files = s.files
        /\ t.arrays = [s.arrays EXCEPT ![i] = b]
    <3>1. CASE writable
      <4>1. t = [s EXCEPT !.arrays[i].dirty = TRUE]
        BY <1>3, <2>1, <3>1
      <4> QED
        BY <1>1, <3>1, <4>1 DEF Fields, SamePools
    <3>2. CASE ~writable
      <4>1. t = s
        BY <1>3, <2>1, <3>2
      <4>2. s.arrays = [s.arrays EXCEPT ![i] = a]
        BY DEF ArraysOK, IsSequence
      <4> QED
        BY <3>2, <4>1, <4>2 DEF SamePools
    <3> QED
      BY <3>1, <3>2
  <2>3. PreparedArray(a, b, start, end, writable)
    <3> HIDE DEF a
    <3>1. /\ DOMAIN b = ArrayFields
          /\ b.request = a.request /\ b.realized = a.realized /\ b.b_s_open = a.b_s_open
          /\ b.rows_in_mem = a.rows_in_mem /\ b.rowsperchunk = a.rowsperchunk
          /\ b.cur_start_row = a.cur_start_row /\ b.mem_buffer = a.mem_buffer
          /\ b.first_undef_row = a.first_undef_row /\ b.dirty = (writable \/ a.dirty)
      BY <1>2 DEF ArrayFields
    <3> HIDE DEF b
    <3>2. /\ ~(a.first_undef_row < end) /\ start <= a.first_undef_row /\ end <= a.first_undef_row
          /\ \A z : ~(z \in start..(end - 1) /\ z >= a.first_undef_row)
      BY <1>2, <1>4
    <3> QED
      BY <3>1, <3>2 DEF PreparedArray
  <2> HIDE DEF b
  <2>4. t.failed = FALSE
    BY <2>2 DEF MemoryOK
  <2>5. Prepared(s, t, i, start, end, writable)
    <3>1. Changed(s, t, i, b)
      BY <2>2, <2>4 DEF Changed
    <3> QED
      BY <2>3, <3>1, PreparedBy
  <2> QED
    BY <2>4, <2>5
<1>5. CASE ~(a.first_undef_row >= end)
           /\ IF writable THEN a.first_undef_row < start ELSE ~a.request.pre_zero
  <2>1. u = Failed(s)
    BY <1>5 DEF DefineRows, u
  <2> QED
    BY <1>3, <2>1, RowsSameHere, RowsSameFailed
<1>6. CASE ~(a.first_undef_row >= end)
           /\ ~(IF writable THEN a.first_undef_row < start ELSE ~a.request.pre_zero)
  <2>1. u = [s EXCEPT !.arrays[i] = c]
    BY <1>6 DEF DefineRows, u
  <2> DEFINE b == IF writable THEN [c EXCEPT !.dirty = TRUE] ELSE c
  <2>2. /\ SamePools(s, t) /\ t.failed = s.failed /\ t.files = s.files
        /\ t.arrays = [s.arrays EXCEPT ![i] = b]
    <3> HIDE DEF c
    <3>1. /\ SamePools(s, u) /\ u.failed = s.failed /\ u.files = s.files /\ DOMAIN u = Fields
          /\ u.arrays = [s.arrays EXCEPT ![i] = c]
      BY <1>1, <2>1 DEF Fields, SamePools
    <3>2. CASE writable
      <4>1. t = [u EXCEPT !.arrays[i].dirty = TRUE]
        BY <1>3, <3>1, <3>2
      <4>2. /\ SamePools(u, t) /\ t.failed = u.failed /\ t.files = u.files
            /\ t.arrays = [u.arrays EXCEPT ![i] = [u.arrays[i] EXCEPT !.dirty = TRUE]]
        BY <3>1, <4>1 DEF Fields, SamePools
      <4>3. u.arrays[i] = c
        BY <3>1
      <4>4. t.arrays = [s.arrays EXCEPT ![i] = b]
        BY <3>1, <3>2, <4>2, <4>3
      <4> QED
        BY <3>1, <4>2, <4>4 DEF SamePools
    <3>3. CASE ~writable
      BY <1>3, <3>1, <3>3
    <3> QED
      BY <3>2, <3>3
  <2>3. PreparedArray(a, b, start, end, writable)
    <3> HIDE DEF a
    <3>1. /\ DOMAIN c = ArrayFields
          /\ c.request = a.request /\ c.realized = a.realized /\ c.b_s_open = a.b_s_open
          /\ c.rows_in_mem = a.rows_in_mem /\ c.rowsperchunk = a.rowsperchunk
          /\ c.cur_start_row = a.cur_start_row /\ c.dirty = a.dirty /\ c.mem_buffer = buffer
          /\ c.first_undef_row = IF writable THEN end ELSE a.first_undef_row
      BY <1>2 DEF ArrayFields
    <3>2. DOMAIN buffer = DOMAIN a.mem_buffer
      OBVIOUS
    <3>3. ASSUME NEW k \in DOMAIN a.mem_buffer
          PROVE  /\ k + a.cur_start_row < a.first_undef_row => buffer[k] = a.mem_buffer[k]
                 /\ a.request.pre_zero /\ k + a.cur_start_row \in start..(end - 1)
                        /\ k + a.cur_start_row >= a.first_undef_row
                    => buffer[k] = 0
      <4> DEFINE z == k + a.cur_start_row
      <4>1. z \in Int
        BY <1>2, <1>7
      <4>2. undef_row \in Int /\ a.first_undef_row <= undef_row
            /\ (z >= start /\ z >= a.first_undef_row => z >= undef_row)
        BY <1>2, <4>1
      <4> HIDE DEF z, undef_row
      <4>3. buffer[k] = IF a.request.pre_zero /\ z \in undef_row..(end - 1) THEN 0 ELSE a.mem_buffer[k]
        BY DEF z
      <4>4. z < a.first_undef_row => z \notin undef_row..(end - 1)
        BY <1>2, <4>1, <4>2
      <4>5. z \in start..(end - 1) /\ z >= a.first_undef_row => z \in undef_row..(end - 1)
        BY <1>2, <4>1, <4>2
      <4> QED
        BY <4>3, <4>4, <4>5 DEF z
    <3> HIDE DEF c, buffer
    <3>4. /\ DOMAIN b = ArrayFields
          /\ b.request = c.request /\ b.realized = c.realized /\ b.b_s_open = c.b_s_open
          /\ b.rows_in_mem = c.rows_in_mem /\ b.rowsperchunk = c.rowsperchunk
          /\ b.cur_start_row = c.cur_start_row /\ b.mem_buffer = c.mem_buffer
          /\ b.first_undef_row = c.first_undef_row /\ b.dirty = (writable \/ c.dirty)
      BY <1>2, <3>1 DEF ArrayFields
    <3> HIDE DEF b
    <3> QED
      BY <1>2, <1>6, <3>1, <3>2, <3>3, <3>4 DEF PreparedArray
  <2> HIDE DEF b
  <2>4. t.failed = FALSE
    BY <2>2 DEF MemoryOK
  <2>5. Prepared(s, t, i, start, end, writable)
    <3>1. Changed(s, t, i, b)
      BY <2>2, <2>4 DEF Changed
    <3> QED
      BY <2>3, <3>1, PreparedBy
  <2> QED
    BY <2>4, <2>5
<1> QED
  BY <1>4, <1>5, <1>6

(* access_virt_sarray and access_virt_barray: the strip is in the window,   *)
(* rows that were defined are what they were, and others are as the caller  *)
(* may expect them.                                                         *)
Accessed(s, t, i, start, end, writable) ==
    LET a == s.arrays[i]
        b == t.arrays[i]
    IN  /\ ArrayKept(s, t, i) /\ end <= a.request.numrows
        /\ SameRows(a, b, s.files[i], t.files[i])
        /\ b.cur_start_row <= start /\ end <= b.cur_start_row + b.rows_in_mem
        /\ b.first_undef_row = IF writable /\ a.first_undef_row < end THEN end ELSE a.first_undef_row
        /\ writable => b.dirty /\ start <= a.first_undef_row
        /\ ~writable => end <= a.first_undef_row \/ a.request.pre_zero
        /\ a.request.pre_zero =>
            \A r \in start..(end - 1) : r >= a.first_undef_row => RowAt(b, t.files[i], r) = 0

LEMMA AccessOK ==
    ASSUME NEW s, MemoryOK(s), ArraysOK(s), ~s.failed, NEW i \in DOMAIN s.arrays, s.arrays[i].realized,
           NEW start \in Nat, NEW num \in Nat \ {0}, NEW writable \in BOOLEAN
    PROVE  LET t == AccessVirt(s, i, start, num, writable)
           IN  IF t.failed THEN RowsSame(s, t, i) ELSE Accessed(s, t, i, start, start + num, writable)
<1> DEFINE a == s.arrays[i]
           end == start + num
           u == MoveWindow(s, i, start, end)
           d == u.arrays[i]
           w == DefineRows(u, i, start, end, writable)
           t == AccessVirt(s, i, start, num, writable)
           b == t.arrays[i]
<1> SUFFICES IF t.failed THEN RowsSame(s, t, i) ELSE Accessed(s, t, i, start, end, writable)
  OBVIOUS
<1>1. end \in Nat /\ start < end /\ end - start = num
  OBVIOUS
<1>2. ArrayOK(a) /\ a.realized
  BY DEF ArraysOK
<1>3. CASE end > a.request.numrows \/ num > a.request.maxaccess
  <2>1. t = Failed(s)
    BY <1>3 DEF AccessVirt
  <2> HIDE DEF t
  <2> QED
    BY <2>1, RowsSameHere, RowsSameFailed
<1>4. CASE ~(end > a.request.numrows \/ num > a.request.maxaccess)
  <2>1. t = Marked(w, i, writable)
    BY <1>2, <1>4 DEF AccessVirt
  <2>2. /\ a.request.numrows \in Nat /\ a.request.maxaccess \in Nat
        /\ a.first_undef_row \in Nat /\ a.cur_start_row \in Nat
    BY <1>2, WindowTypes
  <2>3. end <= a.request.numrows /\ end - start <= a.request.maxaccess
    BY <1>1, <1>4, <2>2
  <2> HIDE DEF t, end
  <2>4. /\ RowsSame(s, u, i)
        /\ ~u.failed => d.cur_start_row <= start /\ end <= d.cur_start_row + d.rows_in_mem
    BY <1>1, <1>2, <2>3, MoveWindowOK
  <2> HIDE DEF u
  <2>5. CASE u.failed
    <3>1. t = u
      BY <2>1, <2>5 DEF Marked, DefineRows
    <3> QED
      BY <2>4, <2>5, <3>1
  <2>6. CASE ~u.failed
    <3>1. /\ MemoryOK(u) /\ ArraysOK(u) /\ i \in DOMAIN u.arrays /\ d.realized
          /\ d.request = a.request /\ d.first_undef_row = a.first_undef_row
      BY <1>2, <2>4 DEF RowsSame, ArrayKept
    <3>2. IF t.failed THEN RowsSame(u, t, i) ELSE Prepared(u, t, i, start, end, writable)
      <4> DEFINE y == Marked(DefineRows(u, i, start, end, writable), i, writable)
      <4>1. IF y.failed THEN RowsSame(u, y, i) ELSE Prepared(u, y, i, start, end, writable)
        BY <1>1, <2>3, <2>6, <3>1, DefineRowsOK
      <4> QED
        BY <2>1, <4>1
    <3>3. CASE t.failed
      BY <2>4, <3>2, <3>3, RowsSameTwice
    <3>4. CASE ~t.failed
      <4>1. ArrayKept(u, t, i) /\ t.files = u.files /\ PreparedArray(d, b, start, end, writable)
        BY <3>2, <3>4 DEF Prepared
      <4>2. ArrayKept(s, t, i)
        BY <2>4, <4>1 DEF RowsSame, ArrayKept
      <4>3. ArrayOK(d) /\ d.cur_start_row \in Int /\ DOMAIN d.mem_buffer = 0..(d.rows_in_mem - 1)
            /\ d.rows_in_mem \in Nat
        BY <3>1 DEF ArraysOK, ArrayOK, WindowOK
      <4>4. SameRows(d, b, u.files[i], t.files[i])
        <5> SUFFICES ASSUME NEW r \in 0..(d.first_undef_row - 1)
                     PROVE  RowAt(b, t.files[i], r) = RowAt(d, u.files[i], r)
          BY DEF SameRows
        <5> DEFINE k == r - d.cur_start_row
        <5>1. k + d.cur_start_row < d.first_undef_row
          BY <2>2, <3>1, <4>3
        <5>2. k \in DOMAIN d.mem_buffer => b.mem_buffer[k] = d.mem_buffer[k]
          <6> HIDE DEF k
          <6> QED
            BY <4>1, <5>1 DEF PreparedArray
        <5> QED
          BY <4>1, <5>2 DEF RowAt, PreparedArray
      <4>5. SameRows(a, b, s.files[i], t.files[i])
        BY <2>4, <3>1, <4>4 DEF RowsSame, SameRows
      <4>6. ASSUME a.request.pre_zero, NEW r \in start..(end - 1), r >= a.first_undef_row
            PROVE  RowAt(b, t.files[i], r) = 0
        <5> DEFINE k == r - d.cur_start_row
        <5>1. k + d.cur_start_row = r
          BY <4>3
        <5>2. k \in DOMAIN d.mem_buffer
          <6>1. /\ r \in Int /\ start <= r /\ r <= end - 1 /\ d.cur_start_row \in Int /\ d.rows_in_mem \in Int
                /\ d.cur_start_row <= start /\ end <= d.cur_start_row + d.rows_in_mem /\ k \in Int
            BY <1>1, <2>4, <2>6, <4>3
          <6> HIDE DEF d
          <6>2. 0 <= k /\ k <= d.rows_in_mem - 1
            BY <1>1, <6>1
          <6> HIDE DEF k
          <6>3. k \in 0..(d.rows_in_mem - 1)
            BY <6>1, <6>2
          <6> QED
            BY <4>3, <6>3 DEF d
        <5>3. b.mem_buffer[k] = 0
          <6> HIDE DEF k
          <6> QED
            BY <3>1, <4>1, <4>6, <5>1, <5>2 DEF PreparedArray
        <5> QED
          BY <4>1, <5>2, <5>3 DEF RowAt, PreparedArray
      <4> QED
        BY <2>3, <2>4, <2>6, <3>1, <3>4, <4>1, <4>2, <4>5, <4>6 DEF Accessed, PreparedArray
    <3> QED
      BY <3>3, <3>4
  <2> QED
    BY <2>5, <2>6
<1> QED
  BY <1>3, <1>4

(* The client stores in the strip it has got for writing.                   *)
IsStored(s, t, i, start, S, v) ==
    LET a == s.arrays[i]
        b == t.arrays[i]
    IN  /\ ArrayKept(s, t, i) /\ ~t.failed /\ t.files = s.files
        /\ b.first_undef_row = a.first_undef_row /\ b.cur_start_row = a.cur_start_row
        /\ DOMAIN b.mem_buffer = DOMAIN a.mem_buffer
        /\ \A k \in DOMAIN a.mem_buffer :
            b.mem_buffer[k] = IF k + a.cur_start_row - start \in S THEN v ELSE a.mem_buffer[k]

LEMMA StoredOK ==
    ASSUME NEW s, MemoryOK(s), ArraysOK(s), ~s.failed, NEW i \in DOMAIN s.arrays,
           s.arrays[i].realized, s.arrays[i].dirty, NEW start, NEW S, NEW v
    PROVE  IsStored(s, Stored(s, i, start, S, v), i, start, S, v)
<1> DEFINE a == s.arrays[i]
           rows == [b \in DOMAIN a.mem_buffer |->
                        IF b + a.cur_start_row - start \in S THEN v ELSE a.mem_buffer[b]]
           b == [a EXCEPT !.mem_buffer = rows]
           t == Stored(s, i, start, S, v)
<1> SUFFICES IsStored(s, t, i, start, S, v)
  OBVIOUS
<1>1. ArrayOK(a) /\ (a.b_s_open => i \in DOMAIN s.files /\ FileOK(a, s.files[i]))
  BY DEF ArraysOK
<1>2. t = [s EXCEPT !.arrays[i].mem_buffer = rows]
  BY DEF Stored, Buffered
<1> HIDE DEF t
<1>3. Changed(s, t, i, b)
  <2> HIDE DEF rows
  <2> QED
    BY <1>2 DEF Changed, SamePools, MemoryOK, Fields
<1>4. /\ DOMAIN b = ArrayFields
      /\ b.request = a.request /\ b.realized = a.realized /\ b.b_s_open = a.b_s_open
      /\ b.rows_in_mem = a.rows_in_mem /\ b.rowsperchunk = a.rowsperchunk
      /\ b.cur_start_row = a.cur_start_row /\ b.dirty = a.dirty /\ b.mem_buffer = rows
      /\ b.first_undef_row = a.first_undef_row
  BY <1>1 DEF ArrayOK, ArrayFields
<1>5. DOMAIN rows = DOMAIN a.mem_buffer
  OBVIOUS
<1> HIDE DEF b
<1>6. ArrayOK(b)
  <2>1. WindowOK(b)
    BY <1>1, <1>4, <1>5 DEF ArrayOK, WindowOK
  <2> QED
    BY <1>1, <1>4, <2>1 DEF ArrayOK
<1>7. b.b_s_open => FileOK(b, s.files[i])
  BY <1>1, <1>4 DEF FileOK
<1>8. OneArray(s, t, i, b)
  BY <1>1, <1>3, <1>4, <1>6, <1>7 DEF OneArray, Changed
<1>9. /\ MemoryOK(t) /\ ArraysOK(t)
      /\ DOMAIN t.arrays = DOMAIN s.arrays /\ t.arrays[i] = b
      /\ \A j \in DOMAIN s.arrays : j # i => t.arrays[j] = s.arrays[j]
  BY <1>8, OneArrayOK
<1>10. ArrayKept(s, t, i) /\ t.files = s.files
  BY <1>3, <1>4, <1>9 DEF ArrayKept, Changed
<1>11. ~t.failed
  BY <1>2 DEF MemoryOK, Fields
<1> QED
  BY <1>4, <1>5, <1>9, <1>10, <1>11 DEF IsStored

-----------------------------------------------------------------------------
(* Release.                                                                 *)

(* free_pool takes back what malloc gave for the pool, to the byte, and     *)
(* with the image's pool go the virtual arrays and their files.             *)
Freed(s, t, pool) ==
    /\ MemoryOK(t) /\ t.failed = s.failed
    /\ t.small_list = [s.small_list EXCEPT ![pool] = <<>>]
    /\ t.large_list = [s.large_list EXCEPT ![pool] = <<>>]
    /\ t.objects = {o \in s.objects : o.pool # pool}
    /\ IF pool = JPOOL_IMAGE THEN t.arrays = <<>> /\ t.files = <<>> ELSE SameArrays(s, t)

LEMMA NoFiles ==
    ASSUME NEW s, ArraysOK(s)
    PROVE  [i \in {j \in DOMAIN s.files : ~s.arrays[j].b_s_open} |-> s.files[i]] = <<>>
<1>1. {j \in DOMAIN s.files : ~s.arrays[j].b_s_open} = {}
  BY DEF ArraysOK
<1> DEFINE f == [i \in {j \in DOMAIN s.files : ~s.arrays[j].b_s_open} |-> s.files[i]]
<1>2. f = [i \in {} |-> s.files[i]]
  BY <1>1
<1> QED
  BY <1>2

LEMMA FreePoolOK ==
    ASSUME NEW s, MemoryOK(s), ArraysOK(s), NEW pool \in Pool
    PROVE  Freed(s, free_pool(s, pool), pool) /\ ArraysOK(free_pool(s, pool))
<1> DEFINE small == s.small_list[pool]
           large == s.large_list[pool]
           all == small \o large
           t == free_pool(s, pool)
<1>1. small \in Seq(Block) /\ large \in Seq(Block) /\ all \in Seq(Block)
  BY DEF MemoryOK, PoolsOK
<1>2. SpaceFreed(all) = Space(all) /\ Space(all) = Space(small) + Space(large)
  BY <1>1, SpaceType, SpaceOfBoth
<1> DEFINE closed == IF pool = JPOOL_IMAGE THEN [s EXCEPT !.arrays = <<>>, !.files = <<>>] ELSE s
<1>3. t = [closed EXCEPT !.small_list[pool] = <<>>, !.large_list[pool] = <<>>,
                         !.objects = {o \in @ : o.pool # pool},
                         !.total_space_allocated = @ - SpaceFreed(all),
                         !.heap = @ - Space(all)]
  BY NoFiles DEF free_pool, SpaceFreed, Space
<1> HIDE DEF t, all
<1> SUFFICES Freed(s, t, pool) /\ ArraysOK(t)
  BY DEF t
<1>4. /\ DOMAIN closed = Fields /\ closed.state = s.state /\ closed.failed = s.failed
      /\ closed.heap = s.heap /\ closed.total_space_allocated = s.total_space_allocated
      /\ closed.small_list = s.small_list /\ closed.large_list = s.large_list
      /\ closed.objects = s.objects
      /\ IF pool = JPOOL_IMAGE THEN closed.arrays = <<>> /\ closed.files = <<>> ELSE SameArrays(s, closed)
  BY DEF MemoryOK, Fields, SameArrays
<1> HIDE DEF closed
<1>5. /\ DOMAIN t = Fields /\ t.state = s.state /\ t.failed = s.failed
      /\ t.heap = s.heap - Space(all) /\ t.total_space_allocated = s.total_space_allocated - Space(all)
      /\ t.small_list = [s.small_list EXCEPT ![pool] = <<>>]
      /\ t.large_list = [s.large_list EXCEPT ![pool] = <<>>]
      /\ t.objects = {o \in s.objects : o.pool # pool}
      /\ t.arrays = closed.arrays /\ t.files = closed.files
  BY <1>2, <1>3, <1>4 DEF Fields
<1>6. PoolsOK(t)
  <2>1. s.small_list \in [Pool -> Seq(Block)] /\ s.large_list \in [Pool -> Seq(Block)]
    BY DEF MemoryOK, PoolsOK
  <2>2. <<>> \in Seq(Block)
    OBVIOUS
  <2>3. t.small_list \in [Pool -> Seq(Block)] /\ t.large_list \in [Pool -> Seq(Block)]
    BY <1>5, <2>1, <2>2
  <2>4. ASSUME NEW o \in t.objects
        PROVE  o \in s.objects /\ ObjectOK(t, o)
    <3>1. o \in s.objects /\ o.pool # pool /\ ObjectOK(s, o)
      BY <1>5 DEF MemoryOK, PoolsOK
    <3>2. t.small_list[o.pool] = s.small_list[o.pool]
      BY <1>5, <2>1, <3>1 DEF ObjectOK
    <3> QED
      BY <3>1, <3>2 DEF ObjectOK
  <2> QED
    BY <2>3, <2>4 DEF MemoryOK, PoolsOK
<1>7. SpaceOK(t)
  <2> DEFINE other == IF pool = 0 THEN 1 ELSE 0
  <2>1. /\ s.small_list \in [Pool -> Seq(Block)] /\ s.large_list \in [Pool -> Seq(Block)]
        /\ pool \in {0, 1} /\ Pool = {0, 1}
    BY DEF MemoryOK, PoolsOK, Pool, JPOOL_PERMANENT, JPOOL_IMAGE
  <2>2. /\ Space(s.small_list[0]) \in Nat /\ Space(s.small_list[1]) \in Nat
        /\ Space(s.large_list[0]) \in Nat /\ Space(s.large_list[1]) \in Nat
    BY <2>1, SpaceType
  <2>3. /\ t.small_list[pool] = <<>> /\ t.large_list[pool] = <<>>
        /\ t.small_list[other] = s.small_list[other] /\ t.large_list[other] = s.large_list[other]
    BY <1>5, <2>1
  <2>4. Held(t.small_list, t.large_list) = Held(s.small_list, s.large_list) - Space(all)
    <3>1. CASE pool = 0
      BY <1>2, <2>2, <2>3, <3>1, SpaceOfNothing DEF Held
    <3>2. CASE pool = 1
      BY <1>2, <2>2, <2>3, <3>2, SpaceOfNothing DEF Held
    <3> QED
      BY <2>1, <3>1, <3>2
  <2>5. /\ s.total_space_allocated = s.heap /\ s.heap = CONTROL + Held(s.small_list, s.large_list)
        /\ Held(s.small_list, s.large_list) \in Nat /\ Space(all) \in Int /\ CONTROL \in Nat
    <3>1. Space(all) \in Nat
      BY <1>1, SpaceType DEF all
    <3> QED
      BY <2>2, <3>1, MemoryAssumption DEF MemoryOK, SpaceOK, Held
  <2> QED
    BY <1>5, <2>4, <2>5 DEF SpaceOK
<1>8. MemoryOK(t)
  BY <1>5, <1>6, <1>7 DEF MemoryOK
<1>9. Freed(s, t, pool)
  BY <1>4, <1>5, <1>8 DEF Freed, SameArrays
<1>10. ArraysOK(t)
  <2>1. CASE pool = JPOOL_IMAGE
    <3>1. t.arrays = <<>> /\ t.files = <<>>
      BY <1>9, <2>1 DEF Freed
    <3>2. IsSequence(t.arrays) /\ DOMAIN t.arrays = {} /\ DOMAIN t.files = {}
      BY <3>1 DEF IsSequence
    <3> QED
      BY <3>2 DEF ArraysOK
  <2>2. CASE pool # JPOOL_IMAGE
    BY <1>9, <2>2, SameArraysOK DEF Freed
  <2> QED
    BY <2>1, <2>2
<1> QED
  BY <1>9, <1>10

(* Nothing is left of a manager that is destroyed.                          *)
LEMMA SelfDestructOK ==
    ASSUME NEW s, MemoryOK(s), ArraysOK(s)
    PROVE  LET t == self_destruct(s)
           IN  /\ t.state = "destroyed" /\ t.heap = 0
               /\ t.arrays = <<>> /\ t.files = <<>> /\ t.objects = {}
<1> DEFINE u == free_pool(s, JPOOL_IMAGE)
           w == free_pool(u, JPOOL_PERMANENT)
           t == self_destruct(s)
<1>1. JPOOL_IMAGE \in Pool /\ JPOOL_PERMANENT \in Pool /\ JPOOL_IMAGE = 1 /\ JPOOL_PERMANENT = 0
  BY DEF Pool, JPOOL_PERMANENT, JPOOL_IMAGE
<1>2. Freed(s, u, JPOOL_IMAGE) /\ ArraysOK(u)
  BY <1>1, FreePoolOK
<1>3. MemoryOK(u)
  BY <1>2 DEF Freed
<1> HIDE DEF u
<1>4. Freed(u, w, JPOOL_PERMANENT)
  BY <1>1, <1>2, <1>3, FreePoolOK
<1>5. t = [w EXCEPT !.heap = @ - CONTROL, !.state = "destroyed"]
  BY DEF self_destruct, u
<1> HIDE DEF w, t
<1> SUFFICES /\ t.state = "destroyed" /\ t.heap = 0
             /\ t.arrays = <<>> /\ t.files = <<>> /\ t.objects = {}
  BY DEF t
<1>6. /\ w.small_list[0] = <<>> /\ w.small_list[1] = <<>>
      /\ w.large_list[0] = <<>> /\ w.large_list[1] = <<>>
  BY <1>1, <1>2, <1>3, <1>4 DEF Freed, MemoryOK, PoolsOK
<1>7. w.heap = CONTROL /\ CONTROL \in Nat /\ DOMAIN w = Fields
  <2>1. Held(w.small_list, w.large_list) = 0
    BY <1>6, SpaceOfNothing DEF Held
  <2> QED
    BY <1>4, <2>1, MemoryAssumption DEF Freed, MemoryOK, SpaceOK
<1>8. w.arrays = <<>> /\ w.files = <<>>
  BY <1>1, <1>2, <1>4 DEF Freed, SameArrays
<1>9. w.objects = {}
  <2>1. ASSUME NEW o \in w.objects
        PROVE  FALSE
    BY <1>1, <1>2, <1>4 DEF Freed, MemoryOK, PoolsOK, ObjectOK, Pool
  <2> QED
    BY <2>1
<1> QED
  BY <1>5, <1>7, <1>8, <1>9 DEF Fields

-----------------------------------------------------------------------------
(* The invariant: as long as the manager is there, its pools, its account   *)
(* and its arrays are in order, also after a routine has been left in the   *)
(* middle; and what the client asked for is what the arrays are.            *)
ManagerOK(s) ==
    /\ MemoryOK(s)
    /\ ArraysOK(s)
    /\ Len(s.arrays) <= Len(setting.requests)
    /\ \A i \in DOMAIN s.arrays : s.arrays[i].request = setting.requests[i]

MemoryInv ==
    /\ setting \in Settings
    /\ mem.state \in {"none", "alive", "destroyed"}
    /\ mem.state = "none" => mem \in {NoManager, Failed(NoManager)}
    /\ mem.state = "alive" => ManagerOK(mem)
    /\ mem.state = "destroyed" =>
        mem.heap = 0 /\ mem.arrays = <<>> /\ mem.files = <<>> /\ mem.objects = {}

LEMMA SettingOK ==
    ASSUME MemoryInv
    PROVE  /\ setting.requests \in Seq(Requests)
           /\ DOMAIN setting.requests = 1..Len(setting.requests) /\ Len(setting.requests) \in Nat
<1>1. setting.requests \in Seq(Requests)
  BY MemoryAssumption DEF MemoryInv
<1> QED
  BY <1>1

LEMMA SameRequestsOK ==
    ASSUME NEW s, NEW t, ManagerOK(s), MemoryOK(t), ArraysOK(t), DOMAIN t.arrays = DOMAIN s.arrays,
           \A j \in DOMAIN s.arrays : t.arrays[j].request = s.arrays[j].request
    PROVE  ManagerOK(t)
<1>1. /\ DOMAIN s.arrays = 1..Len(s.arrays) /\ Len(s.arrays) \in Nat
      /\ DOMAIN t.arrays = 1..Len(t.arrays) /\ Len(t.arrays) \in Nat
  BY SequenceDomain DEF ManagerOK, ArraysOK
<1>2. Len(s.arrays) = Len(t.arrays)
  BY <1>1
<1> QED
  BY <1>2 DEF ManagerOK

(* Every operation keeps it.  The first starts with nothing.                *)
LEMMA InitOK ==
    MemoryInit => MemoryInv
BY DEF MemoryInit, MemoryStart, MemoryInv, NoManager

LEMMA JinitOK ==
    ASSUME MemoryInv, jinit_memory_mgr
    PROVE  MemoryInv'
<1>1. mem = NoManager
  BY DEF MemoryInv, jinit_memory_mgr, Failed, NoManager
<1>2. setting' = setting /\ setting \in Settings
  BY DEF jinit_memory_mgr, MemoryInv
<1>3. CASE mem' = Failed(mem)
  <2>1. mem' = Failed(NoManager) /\ mem'.state = "none"
    BY <1>1, <1>3 DEF Failed, NoManager
  <2> QED
    BY <1>2, <2>1 DEF MemoryInv
<1>4. CASE mem' = [mem EXCEPT !.state = "alive", !.heap = CONTROL, !.total_space_allocated = CONTROL]
  <2> DEFINE t == [NoManager EXCEPT !.state = "alive", !.heap = CONTROL, !.total_space_allocated = CONTROL]
  <2>1. mem' = t
    BY <1>1, <1>4
  <2>2. /\ DOMAIN t = Fields /\ t.state = "alive" /\ t.failed = FALSE
        /\ t.heap = CONTROL /\ t.total_space_allocated = CONTROL
        /\ t.small_list = [p \in Pool |-> <<>>] /\ t.large_list = [p \in Pool |-> <<>>]
        /\ t.objects = {} /\ t.arrays = <<>> /\ t.files = <<>>
    BY DEF NoManager, Fields
  <2> HIDE DEF t
  <2>3. PoolsOK(t)
    BY <2>2 DEF PoolsOK
  <2>4. SpaceOK(t)
    <3>1. Held(t.small_list, t.large_list) = 0
      BY <2>2, SpaceOfNothing DEF Held, Pool, JPOOL_PERMANENT, JPOOL_IMAGE
    <3> QED
      BY <2>2, <3>1, MemoryAssumption DEF SpaceOK
  <2>5. IsSequence(t.arrays) /\ DOMAIN t.arrays = {} /\ DOMAIN t.files = {} /\ Len(t.arrays) = 0
    BY <2>2 DEF IsSequence
  <2>6. ManagerOK(t)
    <3>1. Len(t.arrays) <= Len(setting.requests)
      BY <2>5, SettingOK
    <3>2. MemoryOK(t)
      BY <2>2, <2>3, <2>4 DEF MemoryOK
    <3>3. ArraysOK(t)
      BY <2>5 DEF ArraysOK
    <3> QED
      BY <2>5, <3>1, <3>2, <3>3 DEF ManagerOK
  <2> QED
    BY <1>2, <2>1, <2>2, <2>6 DEF MemoryInv, ManagerOK
<1> QED
  BY <1>3, <1>4 DEF jinit_memory_mgr

(* Those that leave the manager in its place.                               *)
LEMMA StaysOK ==
    ASSUME MemoryInv, setting' = setting, ManagerOK(mem)'
    PROVE  MemoryInv'
BY DEF MemoryInv, ManagerOK, MemoryOK

LEMMA AllocIs ==
    ASSUME MemoryOK(mem), ClientAlloc
    PROVE  MemoryOK(mem') /\ SameArrays(mem, mem')
<1>1. PICK pool \in Pool : \/ \E size \in SmallSizes : mem' = alloc_small(mem, pool, size)
                           \/ \E rows \in 1..2 : mem' = alloc_sarray(mem, pool, 3, rows)
  BY DEF ClientAlloc
<1>2. ASSUME NEW size \in SmallSizes, mem' = alloc_small(mem, pool, size)
      PROVE  MemoryOK(mem') /\ SameArrays(mem, mem')
  <2>1. size \in Nat
    BY MemoryAssumption
  <2> QED
    BY <1>2, <2>1, AllocSmallOK DEF Kept
<1>3. ASSUME NEW rows \in 1..2, mem' = alloc_sarray(mem, pool, 3, rows)
      PROVE  MemoryOK(mem') /\ SameArrays(mem, mem')
  <2>1. rows \in Nat \ {0} /\ 3 \in Nat \ {0}
    OBVIOUS
  <2> QED
    BY <1>3, <2>1, AllocRowsOK DEF alloc_sarray
<1> QED
  BY <1>1, <1>2, <1>3

LEMMA AllocOK ==
    ASSUME MemoryInv, ClientAlloc
    PROVE  MemoryInv'
<1>1. ManagerOK(mem) /\ setting' = setting
  BY DEF MemoryInv, ClientAlloc, Idle
<1>2. MemoryOK(mem') /\ SameArrays(mem, mem')
  BY <1>1, AllocIs DEF ManagerOK
<1>3. ArraysOK(mem')
  BY <1>1, <1>2, SameArraysOK DEF ManagerOK
<1>4. ManagerOK(mem')
  BY <1>1, <1>2, <1>3, SameRequestsOK DEF SameArrays
<1> QED
  BY <1>1, <1>4, StaysOK DEF ManagerOK

LEMMA ClientRequestOK ==
    ASSUME MemoryInv, ClientRequest
    PROVE  MemoryInv'
<1> DEFINE n == Len(mem.arrays) + 1
           request == setting.requests[n]
<1>1. ManagerOK(mem) /\ setting' = setting /\ Len(mem.arrays) < Len(setting.requests)
  BY DEF MemoryInv, ClientRequest, Idle
<1>2. DOMAIN mem.arrays = 1..Len(mem.arrays) /\ Len(mem.arrays) \in Nat
  BY <1>1, SequenceDomain DEF ManagerOK, ArraysOK
<1>3. request \in Requests
  BY <1>1, <1>2, SettingOK
<1>4. mem' = Requested(alloc_small(mem, JPOOL_IMAGE, CONTROL), request)
  BY DEF ClientRequest, request_virt_sarray, request_virt_barray
<1> HIDE DEF request
<1>5. /\ MemoryOK(mem') /\ ArraysOK(mem')
      /\ \/ SameArrays(mem, mem')
         \/ /\ mem'.arrays[n].request = request
            /\ Len(mem'.arrays) = n
            /\ DOMAIN mem'.arrays = DOMAIN mem.arrays \cup {n}
            /\ \A i \in DOMAIN mem.arrays : mem'.arrays[i] = mem.arrays[i]
  BY <1>1, <1>3, <1>4, RequestOK DEF ManagerOK
<1>6. CASE SameArrays(mem, mem')
  <2>1. ManagerOK(mem')
    BY <1>1, <1>5, <1>6, SameRequestsOK DEF SameArrays
  <2> QED
    BY <1>1, <2>1, StaysOK DEF ManagerOK
<1>7. CASE ~SameArrays(mem, mem')
  <2>1. Len(mem'.arrays) <= Len(setting.requests)
    BY <1>1, <1>2, <1>5, <1>7, SettingOK
  <2>2. \A i \in DOMAIN mem'.arrays : mem'.arrays[i].request = setting.requests[i]
    BY <1>1, <1>5, <1>7 DEF ManagerOK, request
  <2> QED
    BY <1>1, <1>5, <2>1, <2>2, StaysOK DEF ManagerOK
<1> QED
  BY <1>6, <1>7

LEMMA ClientRealizeOK ==
    ASSUME MemoryInv, ClientRealize
    PROVE  MemoryInv' /\ RowsKept(mem, mem')
<1>1. ManagerOK(mem) /\ setting' = setting /\ setting \in Settings /\ mem' = realize_virt_arrays(mem)
  BY DEF MemoryInv, ClientRealize, Idle
<1>2. MemoryOK(mem') /\ ArraysOK(mem') /\ RowsKept(mem, mem')
  BY <1>1, RealizeVirtArraysOK DEF ManagerOK, InOrder
<1>3. ManagerOK(mem')
  BY <1>1, <1>2, SameRequestsOK DEF RowsKept
<1> QED
  BY <1>1, <1>2, <1>3, StaysOK DEF ManagerOK

(* An access that fails leaves the rows of all arrays what they were; one   *)
(* that does not shows its caller a strip, and stores in it for a writer.   *)
FailedAccess(i) ==
    RowsSame(mem, mem', i) /\ mem'.failed /\ shown' = shown

ServedAccess(i, start, num, writable, t) ==
    /\ Accessed(mem, t, i, start, start + num, writable) /\ ~t.failed
    /\ shown' = Strip(t, i, start, num)
    /\ IF writable
       THEN \E S \in SUBSET (0..(num - 1)) :
                /\ \A k \in 0..(num - 1) : Undefined(mem.arrays[i], start + k) => k \in S
                /\ IsStored(t, mem', i, start, S, accesses')
       ELSE mem' = t

LEMMA AccessIs ==
    ASSUME MemoryInv, ClientAccess
    PROVE  /\ ManagerOK(mem) /\ ~mem.failed /\ setting' = setting
           /\ \E i \in DOMAIN mem.arrays, num \in Nat \ {0}, start \in Nat :
                /\ mem.arrays[i].realized /\ start + num <= mem.arrays[i].request.numrows
                /\ \/ FailedAccess(i)
                   \/ \E writable \in BOOLEAN : \E t : ServedAccess(i, start, num, writable, t)
<1>1. ManagerOK(mem) /\ ~mem.failed /\ setting' = setting
  BY DEF MemoryInv, ClientAccess, Idle
<1> DEFINE
      Outcome(i, writable, num, start, t) ==
        LET needed == {k \in 0..(num - 1) : Undefined(mem.arrays[i], start + k)}
        IN  IF t.failed THEN mem' = t /\ shown' = shown
            ELSE /\ shown' = Strip(t, i, start, num)
                 /\ IF writable
                    THEN \E S \in {needed, needed \cup {0}, 0..(num - 1)} :
                            mem' = Stored(t, i, start, S, accesses')
                    ELSE mem' = t
<1>2. PICK i \in DOMAIN mem.arrays, writable \in BOOLEAN, num \in 1..2 :
        /\ mem.arrays[i].realized
        /\ \E start \in 0..(mem.arrays[i].request.numrows - num) :
            Outcome(i, writable, num, start,
                    IF mem.arrays[i].request.kind = "sarray"
                    THEN access_virt_sarray(mem, i, start, num, writable)
                    ELSE access_virt_barray(mem, i, start, num, writable))
  BY Zenon DEF ClientAccess
<1> DEFINE a == mem.arrays[i]
<1>3. ArrayOK(a) /\ a.request.numrows \in Nat
  BY <1>1, <1>2, WindowTypes DEF ManagerOK, ArraysOK
<1> HIDE DEF Outcome
<1>4. PICK start \in 0..(a.request.numrows - num) :
        Outcome(i, writable, num, start, AccessVirt(mem, i, start, num, writable))
  BY <1>2 DEF access_virt_sarray, access_virt_barray
<1> HIDE DEF a
<1>5. start \in Nat /\ start + num <= a.request.numrows /\ num \in Nat \ {0}
  BY <1>3
<1> DEFINE needed == {k \in 0..(num - 1) : Undefined(a, start + k)}
           t == AccessVirt(mem, i, start, num, writable)
<1>6. IF t.failed THEN RowsSame(mem, t, i) ELSE Accessed(mem, t, i, start, start + num, writable)
  BY <1>1, <1>2, <1>5, AccessOK DEF ManagerOK
<1>7. CASE t.failed
  <2>1. FailedAccess(i)
    BY <1>4, <1>6, <1>7 DEF FailedAccess, Outcome
  <2> QED
    BY <1>1, <1>2, <1>5, <2>1 DEF a
<1>8. CASE ~t.failed
  <2>1. /\ shown' = Strip(t, i, start, num)
        /\ IF writable
           THEN \E S \in {needed, needed \cup {0}, 0..(num - 1)} : mem' = Stored(t, i, start, S, accesses')
           ELSE mem' = t
    BY <1>4, <1>8 DEF a, Outcome
  <2>2. Accessed(mem, t, i, start, start + num, writable)
    BY <1>6, <1>8
  <2>3. /\ MemoryOK(t) /\ ArraysOK(t) /\ i \in DOMAIN t.arrays /\ t.arrays[i].realized
        /\ writable => t.arrays[i].dirty
    BY <1>2, <2>2 DEF Accessed, ArrayKept
  <2> HIDE DEF t
  <2>4. ASSUME writable
        PROVE  \E S \in SUBSET (0..(num - 1)) :
                /\ \A k \in 0..(num - 1) : Undefined(a, start + k) => k \in S
                /\ IsStored(t, mem', i, start, S, accesses')
    <3>1. PICK S \in {needed, needed \cup {0}, 0..(num - 1)} : mem' = Stored(t, i, start, S, accesses')
      BY <2>1, <2>4
    <3>2. needed \subseteq S /\ S \in SUBSET (0..(num - 1))
      BY <1>5
    <3>3. IsStored(t, Stored(t, i, start, S, accesses'), i, start, S, accesses')
      BY <1>8, <2>3, <2>4, StoredOK
    <3> QED
      BY <3>1, <3>2, <3>3
  <2>5. ServedAccess(i, start, num, writable, t)
    BY <1>8, <2>1, <2>2, <2>4 DEF ServedAccess, a
  <2> QED
    BY <1>1, <1>2, <1>5, <2>5 DEF a
<1> QED
  BY <1>7, <1>8

LEMMA ClientAccessOK ==
    ASSUME MemoryInv, ClientAccess
    PROVE  MemoryInv'
<1>1. ManagerOK(mem) /\ setting' = setting
  BY AccessIs
<1>2. PICK i \in DOMAIN mem.arrays, num \in Nat \ {0}, start \in Nat :
        \/ FailedAccess(i)
        \/ \E writable \in BOOLEAN : \E t : ServedAccess(i, start, num, writable, t)
  BY AccessIs
<1>3. ArrayKept(mem, mem', i)
  <2>1. CASE FailedAccess(i)
    BY <2>1 DEF FailedAccess, RowsSame
  <2>2. ASSUME NEW writable \in BOOLEAN, NEW t, ServedAccess(i, start, num, writable, t)
        PROVE  ArrayKept(mem, mem', i)
    <3>1. ArrayKept(mem, t, i)
      BY <2>2 DEF ServedAccess, Accessed
    <3>2. mem' = t \/ (ArrayKept(t, mem', i) /\ mem'.files = t.files)
      BY <2>2 DEF ServedAccess, IsStored
    <3> QED
      BY <3>1, <3>2 DEF ArrayKept
  <2> QED
    BY <1>2, <2>1, <2>2
<1>4. ManagerOK(mem')
  <2>1. /\ MemoryOK(mem') /\ ArraysOK(mem') /\ DOMAIN mem'.arrays = DOMAIN mem.arrays
        /\ \A j \in DOMAIN mem.arrays : mem'.arrays[j].request = mem.arrays[j].request
    BY <1>3 DEF ArrayKept
  <2> QED
    BY <1>1, <2>1, SameRequestsOK
<1> QED
  BY <1>1, <1>4, StaysOK DEF ManagerOK

LEMMA ClientFreeImageOK ==
    ASSUME MemoryInv, ClientFreeImage
    PROVE  MemoryInv' /\ mem'.arrays = <<>>
<1>1. ManagerOK(mem) /\ setting' = setting /\ mem' = free_pool(mem, JPOOL_IMAGE)
  BY DEF MemoryInv, ClientFreeImage, Idle
<1>2. Freed(mem, mem', JPOOL_IMAGE) /\ ArraysOK(mem')
  BY <1>1, FreePoolOK DEF ManagerOK, Pool
<1>3. MemoryOK(mem') /\ mem'.arrays = <<>>
  BY <1>2 DEF Freed
<1>4. DOMAIN mem'.arrays = {} /\ Len(mem'.arrays) = 0 /\ Len(setting.requests) \in Nat
  BY <1>3, SettingOK
<1>5. ManagerOK(mem')
  BY <1>2, <1>3, <1>4 DEF ManagerOK
<1> QED
  BY <1>1, <1>3, <1>5, StaysOK DEF ManagerOK

LEMMA ClientDestroyOK ==
    ASSUME MemoryInv, ClientDestroy
    PROVE  MemoryInv' /\ mem'.arrays = <<>>
<1>1. ManagerOK(mem) /\ setting' = setting /\ mem' = self_destruct(mem)
  BY DEF MemoryInv, ClientDestroy
<1>2. /\ mem'.state = "destroyed" /\ mem'.heap = 0
      /\ mem'.arrays = <<>> /\ mem'.files = <<>> /\ mem'.objects = {}
  BY <1>1, SelfDestructOK DEF ManagerOK
<1> QED
  BY <1>1, <1>2 DEF MemoryInv

(* The pools, the account and the arrays are in order in every state, for   *)
(* every sequence of a client's calls and wherever a routine was left.      *)
THEOREM MemoryInOrder ==
    MemorySpec => []MemoryInv
<1>1. ASSUME MemoryInv, [MemoryNext]_memory_vars
      PROVE  MemoryInv'
  <2>1. CASE UNCHANGED memory_vars
    <3>1. mem' = mem /\ setting' = setting
      BY <2>1 DEF memory_vars
    <3>2. ManagerOK(mem)' = ManagerOK(mem)
      BY <3>1, Zenon DEF ManagerOK
    <3> QED
      BY <1>1, <3>1, <3>2, Zenon DEF MemoryInv
  <2> QED
    BY <1>1, <2>1, JinitOK, AllocOK, ClientRequestOK, ClientRealizeOK, ClientAccessOK,
       ClientFreeImageOK, ClientDestroyOK DEF MemoryNext
<1> QED
  BY <1>1, InitOK, PTL DEF MemorySpec

(* Objects of a pool lie aligned in what malloc gave, and none over another.*)
THEOREM ObjectsAreDisjoint ==
    MemorySpec => []ObjectsDisjoint
<1>1. ASSUME MemoryInv
      PROVE  ObjectsDisjoint
  <2>1. CASE mem.state = "alive"
    <3>1. PoolsOK(mem)
      BY <1>1, <2>1 DEF MemoryInv, ManagerOK, MemoryOK
    <3>2. ASSUME NEW o \in mem.objects
          PROVE  /\ o.at % ALIGN_TYPE = 0
                 /\ HDR + o.at + o.size <= mem.small_list[o.pool][o.block].malloced
      <4> DEFINE b == mem.small_list[o.pool][o.block]
      <4>1. ObjectOK(mem, o)
        BY <3>1 DEF PoolsOK
      <4>2. b \in Block
        BY <3>1, <4>1 DEF PoolsOK, ObjectOK
      <4> HIDE DEF b
      <4>3. /\ o.at \in Nat /\ o.size \in Nat /\ o.at % ALIGN_TYPE = 0
            /\ o.at + o.size <= b.bytes_used
        BY <4>1 DEF ObjectOK, b
      <4>4. HDR + o.at + o.size <= b.malloced
        BY <4>2, <4>3, MemoryAssumption DEF Block
      <4> QED
        BY <4>3, <4>4 DEF b
    <3> QED
      BY <3>1, <3>2 DEF ObjectsDisjoint, PoolsOK, Apart
  <2>2. CASE mem.state # "alive"
    <3>1. mem.objects = {}
      BY <1>1, <2>2 DEF MemoryInv, NoManager, Failed
    <3> QED
      BY <3>1 DEF ObjectsDisjoint
  <2> QED
    BY <2>1, <2>2
<1> QED
  BY <1>1, MemoryInOrder, PTL

(* The space the manager believes to hold is what malloc gave, and nothing  *)
(* of it and no temporary file remains after the manager is destroyed.      *)
THEOREM MemoryDoesNotLeak ==
    MemorySpec => []NothingLeaks
<1>1. MemoryInv => NothingLeaks
  BY DEF MemoryInv, ManagerOK, MemoryOK, SpaceOK, NothingLeaks
<1> QED
  BY <1>1, MemoryInOrder, PTL
=============================================================================
