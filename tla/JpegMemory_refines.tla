------------------------ MODULE JpegMemory_refines ------------------------
(***************************************************************************)
(* The windows, the temporary files, the transfers between them and the    *)
(* zeroing of rows implement arrays that keep what is stored in them:      *)
(* every step of the memory manager is one of VirtualArray's, or none.     *)
(***************************************************************************)
EXTENDS JpegMemory_proofs

(* Row r of array i, as its client may think of it, when the manager is s:  *)
(* wherever it is, once it is defined.                                      *)
RowOf(s, i, r) ==
    IF /\ i \in DOMAIN s.arrays /\ s.arrays[i].realized
       /\ r < s.arrays[i].first_undef_row
    THEN RowAt(s.arrays[i], s.files[i], r)
    ELSE NeverWritten(setting.requests[i])

Content(s) ==
    [i \in DOMAIN setting.requests |-> [r \in 0..(setting.requests[i].numrows - 1) |-> RowOf(s, i, r)]]

(* What ArrayContent says of mem, of any manager.                           *)
ContentOf(s, i) ==
    LET request == setting.requests[i]
        a == s.arrays[i]
        inWindow(r) == r - a.cur_start_row \in 0..(a.rows_in_mem - 1)
        realized == i \in DOMAIN s.arrays /\ a.realized
    IN  [r \in 0..(request.numrows - 1) |->
            IF ~realized THEN NeverWritten(request)
            ELSE IF r >= a.first_undef_row THEN NeverWritten(request)
            ELSE IF inWindow(r) THEN a.mem_buffer[r - a.cur_start_row]
            ELSE s.files[i][r]]

LEMMA ContentIs ==
    ASSUME MemoryInv, NEW s, ArraysOK(s)
    PROVE  [i \in DOMAIN setting.requests |-> ContentOf(s, i)] = Content(s)
<1> SUFFICES ASSUME NEW i \in DOMAIN setting.requests, NEW r \in 0..(setting.requests[i].numrows - 1)
             PROVE  ContentOf(s, i)[r] = RowOf(s, i, r)
  BY Zenon DEF Content, ContentOf
<1> DEFINE a == s.arrays[i]
<1>1. setting.requests[i].numrows \in Nat /\ r \in Nat
  <2>1. setting.requests[i] \in Requests
    BY SettingOK
  <2> QED
    BY <2>1 DEF Requests
<1>2. CASE i \in DOMAIN s.arrays /\ a.realized
  <2>1. /\ a.first_undef_row \in Nat /\ a.rows_in_mem \in Nat
        /\ DOMAIN a.mem_buffer = 0..(a.rows_in_mem - 1)
    BY <1>2 DEF ArraysOK, ArrayOK, WindowOK
  <2> HIDE DEF a
  <2>2. r < a.first_undef_row <=> ~(r >= a.first_undef_row)
    BY <1>1, <2>1
  <2>3. ContentOf(s, i)[r] = IF r >= a.first_undef_row THEN NeverWritten(setting.requests[i])
                             ELSE IF r - a.cur_start_row \in 0..(a.rows_in_mem - 1)
                             THEN a.mem_buffer[r - a.cur_start_row] ELSE s.files[i][r]
    BY <1>2 DEF ContentOf, a
  <2>4. RowOf(s, i, r) = IF r < a.first_undef_row THEN RowAt(a, s.files[i], r)
                         ELSE NeverWritten(setting.requests[i])
    BY <1>2 DEF RowOf, a
  <2> QED
    BY <2>1, <2>2, <2>3, <2>4 DEF RowAt
<1>3. CASE ~(i \in DOMAIN s.arrays /\ a.realized)
  BY <1>3 DEF ContentOf, RowOf
<1> QED
  BY <1>2, <1>3

(* The rows the refinement mapping shows, before and after a step.          *)
ContentNow == [i \in DOMAIN setting.requests |-> ArrayContent(i)]

LEMMA InvArraysOK ==
    ASSUME MemoryInv
    PROVE  ArraysOK(mem)
<1>1. CASE mem.state = "alive"
  BY <1>1 DEF MemoryInv, ManagerOK
<1>2. CASE mem.state # "alive"
  <2>1. mem.arrays = <<>> /\ mem.files = <<>>
    BY <1>2 DEF MemoryInv, NoManager, Failed
  <2>2. IsSequence(mem.arrays) /\ DOMAIN mem.arrays = {} /\ DOMAIN mem.files = {}
    BY <2>1 DEF IsSequence
  <2> QED
    BY <2>2 DEF ArraysOK
<1> QED
  BY <1>1, <1>2

LEMMA ContentNowIs ==
    ASSUME MemoryInv
    PROVE  ContentNow = Content(mem)
<1>1. ArraysOK(mem)
  BY InvArraysOK
<1>2. [i \in DOMAIN setting.requests |-> ContentOf(mem, i)] = Content(mem)
  BY <1>1, ContentIs
<1> QED
  BY <1>2 DEF ContentNow, ArrayContent, ContentOf

LEMMA ContentNextIs ==
    ASSUME MemoryInv, ArraysOK(mem'), setting' = setting
    PROVE  ContentNow' = Content(mem')
<1>1. [i \in DOMAIN setting.requests |-> ContentOf(mem', i)] = Content(mem')
  BY ContentIs
<1> QED
  BY <1>1 DEF ContentNow, ArrayContent, ContentOf

LEMMA SameContent ==
    ASSUME NEW s, NEW t, \A i \in DOMAIN setting.requests :
                            \A r \in 0..(setting.requests[i].numrows - 1) : RowOf(t, i, r) = RowOf(s, i, r)
    PROVE  Content(t) = Content(s)
BY Zenon DEF Content

(* Without arrays, every row is as if never written.                        *)
LEMMA NoArraysContent ==
    ASSUME NEW s, s.arrays = <<>>, NEW i, NEW r
    PROVE  RowOf(s, i, r) = NeverWritten(setting.requests[i])
<1>1. DOMAIN s.arrays = {}
  OBVIOUS
<1> QED
  BY <1>1 DEF RowOf

-----------------------------------------------------------------------------
(* Steps that change no row.                                                *)

(* Without a file the window is the whole array.                            *)
LEMMA AllInWindow ==
    ASSUME NEW a, ArrayOK(a), a.realized, ~a.b_s_open, NEW r \in 0..(a.request.numrows - 1)
    PROVE  r - a.cur_start_row \in DOMAIN a.mem_buffer
<1>1. a.cur_start_row = 0 /\ DOMAIN a.mem_buffer = 0..(a.request.numrows - 1)
  BY DEF ArrayOK, WindowOK
<1>2. a.request.numrows \in Nat /\ r - 0 = r
  BY WindowTypes
<1> QED
  BY <1>1, <1>2

(* An array that is left alone, with its file if it has one, keeps its rows.*)
LEMMA LeftAlone ==
    ASSUME NEW s, NEW t, ArraysOK(s), DOMAIN t.arrays = DOMAIN s.arrays, NEW i \in DOMAIN s.arrays,
           t.arrays[i] = s.arrays[i], s.arrays[i].b_s_open => t.files[i] = s.files[i],
           NEW r \in Nat
    PROVE  RowOf(t, i, r) = RowOf(s, i, r)
<1> DEFINE a == s.arrays[i]
<1>1. CASE a.realized /\ r < a.first_undef_row /\ ~a.b_s_open
  <2>1. ArrayOK(a) /\ a.first_undef_row \in Nat /\ a.request.numrows \in Nat
        /\ a.first_undef_row <= a.request.numrows
    BY <1>1, WindowTypes DEF ArraysOK
  <2>2. r \in 0..(a.request.numrows - 1)
    BY <1>1, <2>1
  <2>3. r - a.cur_start_row \in DOMAIN a.mem_buffer
    BY <1>1, <2>1, <2>2, AllInWindow
  <2> QED
    BY <2>3 DEF RowOf, RowAt
<1>2. CASE a.b_s_open
  BY <1>2 DEF RowOf
<1>3. CASE ~a.realized \/ ~(r < a.first_undef_row)
  BY <1>3 DEF RowOf
<1> QED
  BY <1>1, <1>2, <1>3

LEMMA RowNumber ==
    ASSUME MemoryInv, NEW i \in DOMAIN setting.requests, NEW r \in 0..(setting.requests[i].numrows - 1)
    PROVE  setting.requests[i] \in Requests /\ setting.requests[i].numrows \in Nat \ {0} /\ r \in Nat
<1>1. setting.requests[i] \in Requests
  BY SettingOK
<1>2. setting.requests[i].numrows \in Nat \ {0}
  BY <1>1 DEF Requests
<1> QED
  BY <1>1, <1>2

LEMMA KeptContent ==
    ASSUME MemoryInv, NEW s, NEW t, ArraysOK(s), RowsKept(s, t)
    PROVE  Content(t) = Content(s)
<1> SUFFICES ASSUME NEW i \in DOMAIN setting.requests, NEW r \in 0..(setting.requests[i].numrows - 1)
             PROVE  RowOf(t, i, r) = RowOf(s, i, r)
  BY SameContent
<1>1. r \in Nat
  BY RowNumber
<1>2. CASE i \in DOMAIN s.arrays /\ s.arrays[i].realized
  BY <1>1, <1>2, LeftAlone DEF RowsKept
<1>3. CASE i \in DOMAIN s.arrays /\ ~s.arrays[i].realized
  <2>1. t.arrays[i].first_undef_row = 0 /\ ~(r < 0)
    BY <1>1, <1>3 DEF RowsKept
  <2> QED
    BY <1>3, <2>1 DEF RowOf
<1>4. CASE i \notin DOMAIN s.arrays
  BY <1>4 DEF RowOf, RowsKept
<1> QED
  BY <1>2, <1>3, <1>4

LEMMA SameArraysContent ==
    ASSUME NEW s, NEW t, SameArrays(s, t)
    PROVE  Content(t) = Content(s)
BY DEF SameArrays, Content, RowOf

LEMMA RequestContent ==
    ASSUME MemoryInv, ClientRequest
    PROVE  Content(mem') = Content(mem)
<1> DEFINE n == Len(mem.arrays) + 1
           request == setting.requests[n]
<1>1. ManagerOK(mem) /\ Len(mem.arrays) < Len(setting.requests)
  BY DEF MemoryInv, ClientRequest, Idle
<1>2. DOMAIN mem.arrays = 1..Len(mem.arrays) /\ Len(mem.arrays) \in Nat
  BY <1>1, SequenceDomain DEF ManagerOK, ArraysOK
<1>3. request \in Requests
  BY <1>1, <1>2, SettingOK
<1>4. mem' = Requested(alloc_small(mem, JPOOL_IMAGE, CONTROL), request)
  BY DEF ClientRequest, request_virt_sarray, request_virt_barray
<1> HIDE DEF request
<1>5. \/ SameArrays(mem, mem')
      \/ /\ mem'.arrays[n].first_undef_row = 0
         /\ DOMAIN mem'.arrays = DOMAIN mem.arrays \cup {n}
         /\ \A i \in DOMAIN mem.arrays : mem'.arrays[i] = mem.arrays[i]
         /\ mem'.files = mem.files
  BY <1>1, <1>3, <1>4, RequestOK DEF ManagerOK
<1>6. CASE ~SameArrays(mem, mem')
  <2> SUFFICES ASSUME NEW i \in DOMAIN setting.requests, NEW r \in 0..(setting.requests[i].numrows - 1)
               PROVE  RowOf(mem', i, r) = RowOf(mem, i, r)
    BY SameContent
  <2>1. r \in Nat
    BY RowNumber
  <2>2. CASE i \in DOMAIN mem.arrays
    BY <1>5, <1>6, <2>2 DEF RowOf
  <2>3. CASE i = n
    <3>1. n \notin DOMAIN mem.arrays /\ ~(r < 0)
      BY <1>2, <2>1
    <3> QED
      BY <1>5, <1>6, <2>3, <3>1 DEF RowOf
  <2>4. CASE i \notin DOMAIN mem.arrays \cup {n}
    BY <1>5, <1>6, <2>4 DEF RowOf
  <2> QED
    BY <2>2, <2>3, <2>4
<1> QED
  BY <1>5, <1>6, SameArraysContent

LEMMA FailedContent ==
    ASSUME MemoryInv, NEW s, NEW t, ArraysOK(s), NEW i \in DOMAIN s.arrays, RowsSame(s, t, i)
    PROVE  Content(t) = Content(s)
<1> SUFFICES ASSUME NEW j \in DOMAIN setting.requests, NEW r \in 0..(setting.requests[j].numrows - 1)
             PROVE  RowOf(t, j, r) = RowOf(s, j, r)
  BY SameContent
<1>1. r \in Nat /\ DOMAIN t.arrays = DOMAIN s.arrays
  BY RowNumber DEF RowsSame, ArrayKept
<1>2. CASE j = i
  <2> DEFINE a == s.arrays[i]
             b == t.arrays[i]
  <2>1. /\ b.realized = a.realized /\ b.first_undef_row = a.first_undef_row
        /\ SameRows(a, b, s.files[i], t.files[i]) /\ a.first_undef_row \in Nat
    BY DEF RowsSame, ArrayKept, ArraysOK, ArrayOK
  <2>2. r < a.first_undef_row => RowAt(b, t.files[i], r) = RowAt(a, s.files[i], r)
    BY <1>1, <2>1 DEF SameRows
  <2> QED
    BY <1>1, <1>2, <2>1, <2>2 DEF RowOf
<1>3. CASE j \in DOMAIN s.arrays /\ j # i
  BY <1>1, <1>3, LeftAlone DEF RowsSame, ArrayKept
<1>4. CASE j \notin DOMAIN s.arrays
  BY <1>1, <1>4 DEF RowOf
<1> QED
  BY <1>2, <1>3, <1>4

-----------------------------------------------------------------------------
(* Steps that read or write a strip.                                        *)

(* The rows start..end - 1 of the window, after an access to them.          *)
LEMMA ServedRow ==
    ASSUME NEW s, NEW t, ArraysOK(s), NEW i \in DOMAIN s.arrays, s.arrays[i].realized,
           s.arrays[i].request = setting.requests[i],
           NEW start \in Nat, NEW end \in Nat, NEW writable \in BOOLEAN,
           Accessed(s, t, i, start, end, writable), NEW r \in start..(end - 1)
    PROVE  LET a == s.arrays[i]
               b == t.arrays[i]
           IN  /\ r - b.cur_start_row \in DOMAIN b.mem_buffer
               /\ Undefined(a, r) => RowOf(s, i, r) = Junk
               /\ ~Undefined(a, r) => RowOf(s, i, r) = b.mem_buffer[r - b.cur_start_row]
<1> DEFINE a == s.arrays[i]
           b == t.arrays[i]
           k == r - b.cur_start_row
<1>1. ArrayOK(b) /\ b.realized /\ a.first_undef_row \in Nat /\ ArraysOK(t)
  BY DEF Accessed, ArrayKept, ArraysOK, ArrayOK
<1>2. /\ b.cur_start_row \in Nat /\ b.rows_in_mem \in Nat
      /\ DOMAIN b.mem_buffer = 0..(b.rows_in_mem - 1)
      /\ b.cur_start_row <= start /\ end <= b.cur_start_row + b.rows_in_mem
  BY <1>1 DEF ArrayOK, WindowOK, Accessed
<1>3. k \in DOMAIN b.mem_buffer
  <2>1. r \in Int /\ start <= r /\ r <= end - 1 /\ k \in Int
    BY <1>2
  <2> HIDE DEF b
  <2>2. 0 <= k /\ k <= b.rows_in_mem - 1
    BY <1>2, <2>1
  <2> HIDE DEF k
  <2> QED
    BY <1>2, <2>1, <2>2
<1>4. RowAt(b, t.files[i], r) = b.mem_buffer[k]
  BY <1>3 DEF RowAt
<1>5. CASE r < a.first_undef_row
  <2>1. r \in 0..(a.first_undef_row - 1) /\ ~(r >= a.first_undef_row)
    BY <1>1, <1>5
  <2>2. RowAt(b, t.files[i], r) = RowAt(a, s.files[i], r)
    BY <2>1 DEF Accessed, SameRows
  <2>3. RowOf(s, i, r) = RowAt(a, s.files[i], r)
    BY <1>5 DEF RowOf
  <2> QED
    BY <1>3, <1>4, <2>1, <2>2, <2>3 DEF Undefined
<1>6. CASE ~(r < a.first_undef_row)
  <2>1. r >= a.first_undef_row
    BY <1>1, <1>6
  <2>2. RowOf(s, i, r) = IF a.request.pre_zero THEN 0 ELSE Junk
    BY <1>6 DEF RowOf, NeverWritten
  <2>3. a.request.pre_zero => b.mem_buffer[k] = 0
    BY <1>4, <2>1 DEF Accessed
  <2> QED
    BY <1>3, <2>1, <2>2, <2>3 DEF Undefined
<1> QED
  BY <1>5, <1>6

LEMMA StripIs ==
    ASSUME MemoryInv, ManagerOK(mem), NEW i \in DOMAIN mem.arrays, mem.arrays[i].realized,
           NEW start \in Nat, NEW num \in Nat \ {0}, NEW writable \in BOOLEAN, NEW t,
           start + num <= mem.arrays[i].request.numrows,
           Accessed(mem, t, i, start, start + num, writable)
    PROVE  Strip(t, i, start, num) = [n \in 1..num |-> Content(mem)[i][start + n - 1]]
<1> DEFINE a == mem.arrays[i]
           b == t.arrays[i]
           shows(n) == IF Undefined(a, start + n - 1) THEN Junk
                       ELSE b.mem_buffer[start + n - 1 - b.cur_start_row]
<1>1. a.request = setting.requests[i] /\ i \in DOMAIN setting.requests
  <2>1. i \in 1..Len(mem.arrays) /\ Len(mem.arrays) \in Nat /\ Len(mem.arrays) <= Len(setting.requests)
    BY SequenceDomain DEF ManagerOK, ArraysOK
  <2> QED
    BY <2>1, SettingOK DEF ManagerOK
<1>2. ASSUME NEW n \in 1..num
      PROVE  shows(n) = Content(mem)[i][start + n - 1]
  <2> DEFINE r == start + n - 1
             end == start + num
  <2>1. r \in start..(end - 1) /\ r \in 0..(a.request.numrows - 1) /\ end \in Nat
    <3>1. a.request.numrows \in Nat
      BY WindowTypes DEF ManagerOK, ArraysOK
    <3> HIDE DEF a
    <3> QED
      BY <3>1 DEF a
  <2>2. start + n - 1 - b.cur_start_row = r - b.cur_start_row
    <3>1. b.cur_start_row \in Nat
      BY DEF Accessed, ArrayKept, ArraysOK, ArrayOK
    <3> QED
      BY <3>1
  <2>3. Content(mem)[i][r] = RowOf(mem, i, r)
    BY <1>1, <2>1 DEF Content
  <2>4. shows(n) = IF Undefined(a, r) THEN Junk ELSE b.mem_buffer[r - b.cur_start_row]
    BY <2>2
  <2> HIDE DEF r, end, shows
  <2>5. /\ Undefined(a, r) => RowOf(mem, i, r) = Junk
        /\ ~Undefined(a, r) => RowOf(mem, i, r) = b.mem_buffer[r - b.cur_start_row]
    <3>1. Accessed(mem, t, i, start, end, writable) /\ ArraysOK(mem)
      BY DEF ManagerOK, end
    <3> QED
      BY <1>1, <2>1, <3>1, ServedRow
  <2>6. shows(n) = Content(mem)[i][r]
    BY <2>3, <2>4, <2>5
  <2> QED
    BY <2>6 DEF r
<1>3. Strip(t, i, start, num) = [n \in 1..num |-> shows(n)]
  BY Zenon DEF Strip
<1> HIDE DEF shows
<1> QED
  BY <1>2, <1>3, Zenon

(* A strip that is only read: the rows stay.                                *)
LEMMA ReadContent ==
    ASSUME MemoryInv, NEW s, NEW t, ArraysOK(s), NEW i \in DOMAIN s.arrays,
           NEW start, NEW end, Accessed(s, t, i, start, end, FALSE)
    PROVE  Content(t) = Content(s)
<1>1. RowsSame(s, t, i)
  BY DEF Accessed, RowsSame
<1> QED
  BY <1>1, FailedContent

(* What a client stores in: rows of the strip, and all that are undefined.  *)
StoresIn(a, start, end, S) ==
    /\ \A k \in S : k \in Int /\ start + k \in start..(end - 1)
    /\ \A r \in start..(end - 1) : Undefined(a, r) => r - start \in S

RowWritten(s, u, i, r, start, S, v) ==
    RowOf(u, i, r) = IF r - start \in S THEN v ELSE RowOf(s, i, r)

(* A strip that is written: the rows stored in are changed, and those only. *)
LEMMA WrittenRow ==
    ASSUME NEW s, NEW t, NEW u, ArraysOK(s), NEW i \in DOMAIN s.arrays, s.arrays[i].realized,
           s.arrays[i].request = setting.requests[i],
           NEW start \in Nat, NEW end \in Nat, NEW S, NEW v,
           StoresIn(s.arrays[i], start, end, S),
           Accessed(s, t, i, start, end, TRUE), IsStored(t, u, i, start, S, v),
           NEW r \in Nat
    PROVE  RowWritten(s, u, i, r, start, S, v)
<1> DEFINE a == s.arrays[i]
           b == t.arrays[i]
           c == u.arrays[i]
           k == r - b.cur_start_row
<1>1. /\ b.realized /\ b.cur_start_row \in Nat /\ a.first_undef_row \in Nat
      /\ c.realized /\ c.cur_start_row = b.cur_start_row /\ DOMAIN c.mem_buffer = DOMAIN b.mem_buffer
      /\ c.first_undef_row = b.first_undef_row /\ u.files = t.files
      /\ i \in DOMAIN u.arrays /\ start <= a.first_undef_row
      /\ b.first_undef_row = IF a.first_undef_row < end THEN end ELSE a.first_undef_row
  BY DEF Accessed, ArrayKept, ArraysOK, ArrayOK, IsStored
<1>2. k + b.cur_start_row - start = r - start
  BY <1>1
<1>3. k \in DOMAIN b.mem_buffer =>
        c.mem_buffer[k] = IF r - start \in S THEN v ELSE b.mem_buffer[k]
  <2>1. k \in DOMAIN b.mem_buffer =>
          c.mem_buffer[k] = IF k + b.cur_start_row - start \in S THEN v ELSE b.mem_buffer[k]
    <3> HIDE DEF k
    <3> QED
      BY DEF IsStored
  <2> QED
    BY <1>2, <2>1
<1>4. RowAt(c, u.files[i], r) = IF k \in DOMAIN b.mem_buffer THEN c.mem_buffer[k] ELSE t.files[i][r]
  BY <1>1 DEF RowAt
<1>5. CASE r - start \in S
  <2>1. r \in start..(end - 1)
    <3>1. start + (r - start) = r
      OBVIOUS
    <3> QED
      BY <1>5, <3>1 DEF StoresIn
  <2>2. r < c.first_undef_row
    BY <1>1, <2>1
  <2>3. k \in DOMAIN b.mem_buffer
    BY <2>1, ServedRow
  <2> QED
    BY <1>1, <1>3, <1>4, <1>5, <2>2, <2>3 DEF RowOf, RowWritten
<1>6. CASE r - start \notin S
  <2>1. RowAt(c, u.files[i], r) = RowAt(b, t.files[i], r)
    BY <1>3, <1>4, <1>6 DEF RowAt
  <2>2. CASE r < a.first_undef_row
    <3>1. r < c.first_undef_row /\ r \in 0..(a.first_undef_row - 1)
      BY <1>1, <2>2
    <3>2. RowAt(b, t.files[i], r) = RowAt(a, s.files[i], r)
      BY <3>1 DEF Accessed, SameRows
    <3> QED
      BY <1>1, <1>6, <2>1, <2>2, <3>1, <3>2 DEF RowOf, RowWritten
  <2>3. CASE ~(r < a.first_undef_row) /\ r < c.first_undef_row
    <3>1. r \in start..(end - 1) /\ r >= a.first_undef_row
      BY <1>1, <2>3
    <3>2. a.request.pre_zero
      BY <1>6, <3>1 DEF Undefined, StoresIn
    <3>3. RowAt(b, t.files[i], r) = 0
      BY <3>1, <3>2 DEF Accessed
    <3> QED
      BY <1>1, <1>6, <2>1, <2>3, <3>2, <3>3 DEF RowOf, RowWritten, NeverWritten
  <2>4. CASE ~(r < a.first_undef_row) /\ ~(r < c.first_undef_row)
    BY <1>1, <1>6, <2>4 DEF RowOf, RowWritten
  <2> QED
    BY <2>2, <2>3, <2>4
<1> QED
  BY <1>5, <1>6 DEF RowWritten

Filled(a, start, num, S) ==
    \A k \in 0..(num - 1) : Undefined(a, start + k) => k \in S

Stores(old, new, i, start, S, v) ==
    new = [old EXCEPT ![i] = [r \in DOMAIN @ |-> IF r - start \in S THEN v ELSE @[r]]]

LEMMA WrittenContent ==
    ASSUME MemoryInv, NEW s, NEW t, NEW u, ArraysOK(s), NEW i \in DOMAIN s.arrays, s.arrays[i].realized,
           s.arrays[i].request = setting.requests[i], i \in DOMAIN setting.requests,
           NEW start \in Nat, NEW num \in Nat \ {0}, NEW S \in SUBSET (0..(num - 1)), NEW v,
           Filled(s.arrays[i], start, num, S),
           Accessed(s, t, i, start, start + num, TRUE), IsStored(t, u, i, start, S, v)
    PROVE  Stores(Content(s), Content(u), i, start, S, v)
<1> DEFINE end == start + num
           rows == 0..(setting.requests[i].numrows - 1)
<1>1. end \in Nat /\ \A k \in S : k \in Int /\ start + k \in start..(end - 1)
  OBVIOUS
<1>2. ASSUME NEW r \in start..(end - 1), Undefined(s.arrays[i], r)
      PROVE  r - start \in S
  <2> DEFINE k == r - start
  <2>1. k \in 0..(num - 1) /\ start + k = r
    OBVIOUS
  <2> HIDE DEF k
  <2>2. k \in S
    BY <1>2, <2>1 DEF Filled
  <2> QED
    BY <2>2 DEF k
<1>3. Accessed(s, t, i, start, end, TRUE)
  OBVIOUS
<1> HIDE DEF end
<1>4. StoresIn(s.arrays[i], start, end, S)
  BY <1>1, <1>2 DEF StoresIn
<1>5. ASSUME NEW r \in rows
      PROVE  r \in Nat /\ RowOf(u, i, r) = IF r - start \in S THEN v ELSE RowOf(s, i, r)
  <2>1. r \in Nat
    BY RowNumber
  <2>2. RowWritten(s, u, i, r, start, S, v)
    BY <1>1, <1>3, <1>4, <2>1, WrittenRow
  <2> QED
    BY <2>1, <2>2 DEF RowWritten
<1>6. \A r \in rows : RowOf(u, i, r) = IF r - start \in S THEN v ELSE RowOf(s, i, r)
  BY <1>5
<1>7. ASSUME NEW j \in DOMAIN setting.requests, j # i, NEW r \in 0..(setting.requests[j].numrows - 1)
      PROVE  RowOf(u, j, r) = RowOf(s, j, r)
  <2>1. /\ r \in Nat /\ DOMAIN t.arrays = DOMAIN s.arrays /\ DOMAIN u.arrays = DOMAIN t.arrays
        /\ ArraysOK(t) /\ ArrayKept(s, t, i) /\ ArrayKept(t, u, i)
    BY <1>3, RowNumber DEF Accessed, IsStored, ArrayKept
  <2>2. CASE j \in DOMAIN s.arrays
    <3>1. RowOf(t, j, r) = RowOf(s, j, r)
      BY <1>7, <2>1, <2>2, LeftAlone DEF ArrayKept
    <3>2. /\ j \in DOMAIN t.arrays /\ u.arrays[j] = t.arrays[j]
          /\ t.arrays[j].b_s_open => u.files[j] = t.files[j]
      BY <1>7, <2>1, <2>2 DEF ArrayKept
    <3>3. RowOf(u, j, r) = RowOf(t, j, r)
      BY <2>1, <3>2, LeftAlone
    <3> QED
      BY <3>1, <3>3
  <2>3. CASE j \notin DOMAIN s.arrays
    BY <2>1, <2>3 DEF RowOf
  <2> QED
    BY <2>2, <2>3
<1>8. Content(s)[i] = [r \in rows |-> RowOf(s, i, r)]
  BY DEF Content
<1>9. [r \in rows |-> RowOf(u, i, r)]
        = [r \in DOMAIN Content(s)[i] |-> IF r - start \in S THEN v ELSE Content(s)[i][r]]
  BY <1>6, <1>8
<1> DEFINE new == [r \in DOMAIN Content(s)[i] |-> IF r - start \in S THEN v ELSE Content(s)[i][r]]
<1>10. Content(u) = [Content(s) EXCEPT ![i] = new]
  <2> HIDE DEF new, rows
  <2>1. DOMAIN Content(s) = DOMAIN setting.requests
    BY DEF Content
  <2>2. ASSUME NEW j \in DOMAIN setting.requests
        PROVE  [r \in 0..(setting.requests[j].numrows - 1) |-> RowOf(u, j, r)]
                    = [Content(s) EXCEPT ![i] = new][j]
    <3>1. CASE j = i
      BY <1>9, <2>1, <3>1 DEF new, rows
    <3>2. CASE j # i
      <4>1. Content(s)[j] = [r \in 0..(setting.requests[j].numrows - 1) |-> RowOf(s, j, r)]
        BY DEF Content
      <4>2. [Content(s) EXCEPT ![i] = new][j] = Content(s)[j]
        BY <2>1, <3>2
      <4> QED
        BY <1>7, <3>2, <4>1, <4>2
    <3> QED
      BY <3>1, <3>2
  <2> DEFINE f == [Content(s) EXCEPT ![i] = new]
  <2>3. DOMAIN f = DOMAIN setting.requests /\ f = [j \in DOMAIN f |-> f[j]]
    BY <2>1
  <2> HIDE DEF f
  <2>4. \A j \in DOMAIN setting.requests :
            [r \in 0..(setting.requests[j].numrows - 1) |-> RowOf(u, j, r)] = f[j]
    BY <2>2 DEF f
  <2>5. Content(u) = f
    BY <2>3, <2>4, Zenon DEF Content
  <2> QED
    BY <2>5 DEF f
<1> QED
  BY <1>10 DEF Stores

-----------------------------------------------------------------------------
(* The refinement.                                                          *)

LEMMA AccessesOK ==
    MemorySpec => [](accesses \in Nat)
<1>1. MemoryInit => accesses \in Nat
  BY DEF MemoryInit, MemoryStart
<1>2. accesses \in Nat /\ [MemoryNext]_memory_vars => (accesses \in Nat)'
  BY DEF MemoryNext, memory_vars, jinit_memory_mgr, ClientAlloc, ClientRequest, ClientRealize,
         ClientAccess, ClientFreeImage, ClientDestroy
<1> QED
  BY <1>1, <1>2, PTL DEF MemorySpec

LEMMA EmptyContent ==
    ASSUME MemoryInv, NEW s, s.arrays = <<>>
    PROVE  Content(s) = [i \in DOMAIN Shape(setting.requests) |->
                [r \in 0..(Shape(setting.requests)[i].rows - 1) |-> Shape(setting.requests)[i].fresh]]
<1>1. \A i \in DOMAIN setting.requests : \A r : RowOf(s, i, r) = NeverWritten(setting.requests[i])
  BY NoArraysContent
<1>2. /\ DOMAIN Shape(setting.requests) = DOMAIN setting.requests
      /\ \A i \in DOMAIN setting.requests :
            /\ Shape(setting.requests)[i].rows = setting.requests[i].numrows
            /\ Shape(setting.requests)[i].fresh = NeverWritten(setting.requests[i])
  BY DEF Shape
<1> QED
  BY <1>1, <1>2 DEF Content

LEMMA InitRefines ==
    MemoryInit => Promise!Init
<1> SUFFICES ASSUME MemoryInit
             PROVE  Promise!Init
  OBVIOUS
<1>1. MemoryInv /\ shown = <<>> /\ mem.arrays = <<>> /\ setting \in Settings
  BY InitOK DEF MemoryInit, MemoryStart, NoManager
<1>2. ContentNow = Content(mem)
  BY <1>1, ContentNowIs
<1>3. Content(mem) = [i \in DOMAIN Shape(setting.requests) |->
            [r \in 0..(Shape(setting.requests)[i].rows - 1) |-> Shape(setting.requests)[i].fresh]]
  BY <1>1, EmptyContent
<1>4. Shape(setting.requests) \in {Shape(s.requests) : s \in Settings}
  BY <1>1
<1> QED
  BY <1>1, <1>2, <1>3, <1>4 DEF Promise!Init, Promise!Arrays, Promise!EmptyArray, ContentNow

LEMMA ReleaseRefines ==
    ASSUME MemoryInv, MemoryInv', setting' = setting, mem'.arrays = <<>>, shown' = <<>>
    PROVE  Promise!Release
<1>1. ArraysOK(mem')
  <2>1. ManagerOK(mem') \/ mem'.files = <<>>
    BY DEF MemoryInv, NoManager, Failed, ManagerOK
  <2>2. IsSequence(mem'.arrays) /\ DOMAIN mem'.arrays = {}
    BY DEF IsSequence
  <2>3. CASE mem'.files = <<>>
    <3>1. DOMAIN mem'.files = {}
      BY <2>3
    <3> QED
      BY <2>2, <3>1 DEF ArraysOK
  <2> QED
    BY <2>1, <2>3 DEF ManagerOK
<1>2. ContentNow' = Content(mem')
  BY <1>1, ContentNextIs
<1>3. Content(mem') = [i \in DOMAIN Shape(setting.requests) |->
            [r \in 0..(Shape(setting.requests)[i].rows - 1) |-> Shape(setting.requests)[i].fresh]]
  BY EmptyContent
<1> QED
  BY <1>2, <1>3 DEF Promise!Release, Promise!Arrays, Promise!EmptyArray, ContentNow

LEMMA StutterRefines ==
    ASSUME MemoryInv, setting' = setting, ArraysOK(mem'), Content(mem') = Content(mem), shown' = shown
    PROVE  UNCHANGED <<Shape(setting.requests), ContentNow, shown>>
BY ContentNowIs, ContentNextIs

(* An access that was served is a read or a write, with the strip it shows. *)
LEMMA ServedRefines ==
    ASSUME MemoryInv, MemoryInv', ManagerOK(mem), setting' = setting, ArraysOK(mem'),
           accesses' \in 1..MaxAccesses,
           NEW i \in DOMAIN mem.arrays, NEW num \in Nat \ {0}, NEW start \in Nat, NEW writable \in BOOLEAN,
           mem.arrays[i].realized, start + num <= mem.arrays[i].request.numrows,
           NEW t, ServedAccess(i, start, num, writable, t)
    PROVE  Promise!Next
<1> DEFINE shape == Shape(setting.requests)
<1>1. i \in DOMAIN setting.requests /\ mem.arrays[i].request = setting.requests[i]
  <2>1. i \in 1..Len(mem.arrays) /\ Len(mem.arrays) \in Nat /\ Len(mem.arrays) <= Len(setting.requests)
    BY SequenceDomain DEF ManagerOK, ArraysOK
  <2> QED
    BY <2>1, SettingOK DEF ManagerOK
<1>2. DOMAIN shape = DOMAIN setting.requests /\ shape[i].rows = setting.requests[i].numrows
  BY <1>1 DEF Shape
<1>3. ContentNow = Content(mem) /\ ContentNow' = Content(mem')
  BY ContentNowIs, ContentNextIs
<1>4. Accessed(mem, t, i, start, start + num, writable) /\ shown' = Strip(t, i, start, num)
  BY DEF ServedAccess
<1>5. shown' = [n \in 1..num |-> ContentNow[i][start + n - 1]]
  <2>1. Strip(t, i, start, num) = [n \in 1..num |-> Content(mem)[i][start + n - 1]]
    BY <1>4, StripIs
  <2> QED
    BY <1>3, <1>4, <2>1
<1>6. start \in 0..(shape[i].rows - 1) /\ num \in 1..shape[i].rows /\ start + num <= shape[i].rows
  <2>1. setting.requests[i].numrows \in Nat /\ start + num <= setting.requests[i].numrows
    <3>1. setting.requests[i] \in Requests
      BY <1>1, SettingOK
    <3> QED
      BY <1>1, <3>1 DEF Requests
  <2> QED
    BY <1>2, <2>1
<1>7. UNCHANGED Shape(setting.requests)
  OBVIOUS
<1>8. CASE ~writable
  <2>1. ContentNow' = ContentNow
    <3>1. writable = FALSE /\ mem' = t
      BY <1>8 DEF ServedAccess
    <3>2. Content(t) = Content(mem)
      BY <1>4, <3>1, ReadContent DEF ManagerOK
    <3> QED
      BY <1>3, <3>1, <3>2
  <2>2. Promise!Read(i, start, num)
    BY <1>5, <1>6, <1>7, <2>1 DEF Promise!Read, ContentNow
  <2> QED
    BY <1>1, <1>2, <1>6, <2>2 DEF Promise!Next, Promise!Arrays
<1>9. CASE writable
  <2>1. PICK S \in SUBSET (0..(num - 1)) :
            /\ Filled(mem.arrays[i], start, num, S)
            /\ IsStored(t, mem', i, start, S, accesses')
    BY <1>9 DEF ServedAccess, Filled
  <2>2. Stores(Content(mem), Content(mem'), i, start, S, accesses')
    <3>1. Accessed(mem, t, i, start, start + num, TRUE) /\ ArraysOK(mem)
      BY <1>4, <1>9 DEF ManagerOK
    <3> QED
      BY <1>1, <2>1, <3>1, WrittenContent
  <2>3. ContentNow' = [ContentNow EXCEPT ![i] =
                            [r \in DOMAIN @ |-> IF r - start \in S THEN accesses' ELSE @[r]]]
    BY <1>3, <2>2 DEF Stores
  <2>4. Promise!Write(i, start, num, S, accesses')
    BY <1>5, <1>6, <1>7, <2>3 DEF Promise!Write, ContentNow
  <2> QED
    BY <1>1, <1>2, <1>6, <2>4 DEF Promise!Next, Promise!Arrays
<1> QED
  BY <1>8, <1>9

LEMMA AccessRefines ==
    ASSUME MemoryInv, MemoryInv', accesses \in Nat, ClientAccess
    PROVE  Promise!Next \/ UNCHANGED <<Shape(setting.requests), ContentNow, shown>>
<1>1. /\ ManagerOK(mem) /\ setting' = setting
      /\ \E i \in DOMAIN mem.arrays, num \in Nat \ {0}, start \in Nat :
            /\ mem.arrays[i].realized /\ start + num <= mem.arrays[i].request.numrows
            /\ \/ FailedAccess(i)
               \/ \E writable \in BOOLEAN : \E t : ServedAccess(i, start, num, writable, t)
  BY AccessIs
<1>2. PICK i \in DOMAIN mem.arrays, num \in Nat \ {0}, start \in Nat :
        /\ mem.arrays[i].realized /\ start + num <= mem.arrays[i].request.numrows
        /\ \/ FailedAccess(i)
           \/ \E writable \in BOOLEAN : \E t : ServedAccess(i, start, num, writable, t)
  BY <1>1
<1>3. ArraysOK(mem') /\ ArraysOK(mem)
  <2>1. mem.state = "alive" /\ mem'.state = "alive"
    <3>1. mem.state = "alive"
      BY <1>1 DEF ManagerOK, MemoryOK
    <3>2. MemoryOK(mem')
      <4>1. CASE FailedAccess(i)
        BY <4>1 DEF FailedAccess, RowsSame, ArrayKept
      <4>2. ASSUME NEW writable \in BOOLEAN, NEW t, ServedAccess(i, start, num, writable, t)
            PROVE  MemoryOK(mem')
        BY <4>2 DEF ServedAccess, Accessed, IsStored, ArrayKept
      <4> QED
        BY <1>2, <4>1, <4>2
    <3> QED
      BY <3>1, <3>2 DEF MemoryOK
  <2> QED
    BY <1>1, <2>1 DEF MemoryInv, ManagerOK
<1>4. accesses' \in 1..MaxAccesses
  <2>1. accesses < MaxAccesses /\ accesses' = accesses + 1 /\ MaxAccesses \in Nat
    BY MemoryAssumption DEF ClientAccess
  <2> QED
    BY <2>1
<1>5. CASE FailedAccess(i)
  <2>1. Content(mem') = Content(mem) /\ shown' = shown
    BY <1>3, <1>5, FailedContent DEF FailedAccess
  <2> QED
    BY <1>1, <1>3, <2>1, StutterRefines
<1>6. ASSUME NEW writable \in BOOLEAN, NEW t, ServedAccess(i, start, num, writable, t)
      PROVE  Promise!Next
  BY <1>1, <1>2, <1>3, <1>4, <1>6, ServedRefines
<1> QED
  BY <1>2, <1>5, <1>6

(* Every step of the manager is a step of the promise, or changes nothing   *)
(* its clients can see.                                                     *)
LEMMA StepRefines ==
    ASSUME MemoryInv, MemoryInv', accesses \in Nat, [MemoryNext]_memory_vars
    PROVE  Promise!Next \/ UNCHANGED <<Shape(setting.requests), ContentNow, shown>>
<1>1. ArraysOK(mem) /\ ArraysOK(mem')
  <2>1. ArraysOK(mem)
    BY InvArraysOK
  <2>2. CASE mem'.state = "alive"
    <3>1. ManagerOK(mem)'
      BY <2>2 DEF MemoryInv
    <3> QED
      BY <2>1, <3>1 DEF ManagerOK
  <2>3. CASE mem'.state # "alive"
    <3>1. mem'.arrays = <<>> /\ mem'.files = <<>>
      BY <2>3 DEF MemoryInv, NoManager, Failed
    <3>2. IsSequence(mem'.arrays) /\ DOMAIN mem'.arrays = {} /\ DOMAIN mem'.files = {}
      BY <3>1 DEF IsSequence
    <3> QED
      BY <2>1, <3>2 DEF ArraysOK
  <2> QED
    BY <2>1, <2>2, <2>3
<1>2. CASE UNCHANGED memory_vars
  BY <1>1, <1>2, StutterRefines DEF memory_vars
<1>3. CASE jinit_memory_mgr
  <2>1. SameArrays(mem, mem')
    <3>1. mem = NoManager /\ DOMAIN mem = Fields
      BY <1>3 DEF MemoryInv, jinit_memory_mgr, Failed, NoManager, Fields
    <3> QED
      BY <1>3, <3>1 DEF jinit_memory_mgr, SameArrays, Failed, Fields
  <2> QED
    BY <1>1, <1>3, <2>1, SameArraysContent, StutterRefines DEF jinit_memory_mgr
<1>4. CASE ClientAlloc
  <2>1. ManagerOK(mem)
    BY <1>4 DEF MemoryInv, ClientAlloc, Idle
  <2>2. SameArrays(mem, mem')
    BY <1>4, <2>1, AllocIs DEF ManagerOK
  <2> QED
    BY <1>1, <1>4, <2>2, SameArraysContent, StutterRefines DEF ClientAlloc
<1>5. CASE ClientRequest
  BY <1>1, <1>5, RequestContent, StutterRefines DEF ClientRequest
<1>6. CASE ClientRealize
  BY <1>1, <1>6, ClientRealizeOK, KeptContent, StutterRefines DEF ClientRealize
<1>7. CASE ClientAccess
  BY <1>7, AccessRefines
<1>8. CASE ClientFreeImage
  <2>1. Promise!Release
    BY <1>8, ClientFreeImageOK, ReleaseRefines DEF ClientFreeImage
  <2> QED
    BY <2>1 DEF Promise!Next
<1>9. CASE ClientDestroy
  <2>1. Promise!Release
    BY <1>9, ClientDestroyOK, ReleaseRefines DEF ClientDestroy
  <2> QED
    BY <2>1 DEF Promise!Next
<1> QED
  BY <1>2, <1>3, <1>4, <1>5, <1>6, <1>7, <1>8, <1>9 DEF MemoryNext

(* The windows, the temporary files, the chunks and the zeroing together    *)
(* are arrays that keep what was stored in them, also when the disk or      *)
(* malloc runs short in the middle of an access.                            *)
THEOREM MemoryKeepsRows ==
    MemorySpec => KeepsRows
<1>1. MemoryInv /\ MemoryInv' /\ accesses \in Nat /\ [MemoryNext]_memory_vars
        => [Promise!Next]_<<Shape(setting.requests), ContentNow, shown>>
  BY StepRefines
<1> QED
  BY <1>1, InitRefines, MemoryInOrder, AccessesOK, PTL DEF MemorySpec, KeepsRows, Promise!Spec, ContentNow
=============================================================================
