----------------------------- MODULE JpegMemory -----------------------------
(***************************************************************************)
(* The memory manager of libjpeg, jmemmgr.c, over the system-dependent     *)
(* part jmemname.c: pools of small and large objects, arrays of rows, and  *)
(* virtual arrays that keep a window of their rows in memory and the rest  *)
(* in a temporary file.  malloc and the disk may be short of space; an     *)
(* error leaves the routine wherever it is (ERREXIT), and the application  *)
(* then destroys the object.                                               *)
(*                                                                         *)
(* Sizes are in units of the bound constants.  A row of a virtual array    *)
(* has one value; Junk stands for memory nobody has initialised.           *)
(***************************************************************************)
EXTENDS Integers, Sequences, FiniteSets, Loops

CONSTANTS
    Settings,           \* records [heap, disk, max_memory_to_use, objects, requests]
    Junk,               \* the contents of memory from malloc
    ALIGN_TYPE,         \* alignment of objects
    HDR,                \* size of a pool header
    CONTROL,            \* size of the manager and of a virtual array's control block
    MAX_ALLOC_CHUNK,    \* the most malloc is asked for
    MIN_SLOP,
    FirstSlop,          \* first_pool_slop, by pool
    ExtraSlop,          \* extra_pool_slop, by pool
    SmallSizes,         \* what clients ask alloc_small for
    MaxAccesses         \* bound on accesses to virtual arrays; the n-th stores n

JPOOL_PERMANENT == 0
JPOOL_IMAGE == 1
Pool == {JPOOL_PERMANENT, JPOOL_IMAGE}

Requests ==
    [kind : {"sarray", "barray"}, pre_zero : BOOLEAN,
     width : Nat \ {0}, numrows : Nat \ {0}, maxaccess : Nat \ {0}]

(* What jinit_memory_mgr checks of the first, what the definitions of the   *)
(* pool headers and of the slops give, and the sizes a client may ask for.  *)
ASSUME MemoryAssumption ==
    /\ ALIGN_TYPE \in Nat \ {0} /\ HDR \in Nat /\ CONTROL \in Nat \ {0} /\ MAX_ALLOC_CHUNK \in Nat
    /\ HDR <= MAX_ALLOC_CHUNK
    /\ MAX_ALLOC_CHUNK % ALIGN_TYPE = 0 /\ HDR % ALIGN_TYPE = 0
    /\ MIN_SLOP \in Nat \ {0} /\ FirstSlop \in [Pool -> Nat] /\ ExtraSlop \in [Pool -> Nat]
    /\ SmallSizes \subseteq Nat /\ MaxAccesses \in Nat
    /\ \A s \in Settings :
        /\ s.heap \in Nat /\ s.disk \in Nat /\ s.max_memory_to_use \in Int /\ s.objects \in Nat
        /\ s.requests \in Seq(Requests)

VARIABLES
    setting,            \* the system, and the objects (a bound) and arrays the client wants
    mem,                \* the memory manager, with what it holds of the system
    shown,              \* the strip the last access returned
    accesses            \* how many accesses there were

memory_vars == <<setting, mem, shown, accesses>>

Least(a, b) == IF a <= b THEN a ELSE b
Aligned(size) == ((size + ALIGN_TYPE - 1) \div ALIGN_TYPE) * ALIGN_TYPE

(* mem.heap is what malloc has given out, mem.files the rows in the open    *)
(* temporary files, by array.  A routine maps the manager to the manager;   *)
(* once failed is set it is left.                                           *)
NoManager ==
    [state |-> "none", failed |-> FALSE, heap |-> 0, files |-> <<>>, total_space_allocated |-> 0,
     small_list |-> [p \in Pool |-> <<>>], large_list |-> [p \in Pool |-> <<>>],
     objects |-> {}, last_rowsperchunk |-> 0, arrays |-> <<>>]

Failed(s) == [s EXCEPT !.failed = TRUE]

MemoryStart ==
    /\ mem = NoManager
    /\ shown = <<>>
    /\ accesses = 0

MemoryInit == setting \in Settings /\ MemoryStart

-----------------------------------------------------------------------------
(* Pools.                                                                  *)

jpeg_get(s, size) == IF s.heap + size > setting.heap THEN 0 ELSE size

(* Mutant: the space left is not reduced.                                   *)
Carve_KeepLeft(s, pool, i, size) ==
    [s EXCEPT !.small_list[pool][i].bytes_used = @ + size,
              !.objects = @ \cup {[pool |-> pool, block |-> i, size |-> size,
                                   at |-> s.small_list[pool][i].bytes_used]}]

(* Takes size bytes from pool i of the list.                                *)
Taken(b, size) == [b EXCEPT !.bytes_used = @ + size, !.bytes_left = @ - size]

Carve(s, pool, i, size) ==
    [s EXCEPT !.small_list[pool][i] = Taken(@, size),
              !.objects = @ \cup {[pool |-> pool, block |-> i, size |-> size,
                                   at |-> s.small_list[pool][i].bytes_used]}]

(* A new pool, with as much slop as malloc can give when it is halved again *)
(* and again.                                                               *)
NewPool(s, pool, size) ==
    LET min_request == size + HDR
        slops == IF s.small_list[pool] = <<>> THEN FirstSlop[pool] ELSE ExtraSlop[pool]
        slop(i) == Least(slops, MAX_ALLOC_CHUNK - min_request) \div 2^i
        possible == {i \in 0..10 : /\ i = 0 \/ slop(i) >= MIN_SLOP
                                   /\ jpeg_get(s, min_request + slop(i)) # 0}
        got == slop(CHOOSE i \in possible : \A j \in possible : i <= j)
    IN  IF possible = {} THEN Failed(s)
        ELSE [s EXCEPT !.heap = @ + min_request + got,
                       !.total_space_allocated = @ + min_request + got,
                       !.small_list[pool] =
                            Append(@, [bytes_used |-> 0, bytes_left |-> size + got,
                                       malloced |-> min_request + got])]

alloc_small(s, pool, sizeofobject) ==
    LET size == Aligned(sizeofobject)
        enough == {i \in DOMAIN s.small_list[pool] : s.small_list[pool][i].bytes_left >= size}
        first == CHOOSE i \in enough : \A j \in enough : i <= j
        carved(t) == IF t.failed THEN t ELSE Carve(t, pool, Len(t.small_list[pool]), size)
    IN  IF s.failed THEN s
        ELSE IF sizeofobject > MAX_ALLOC_CHUNK - HDR THEN Failed(s)
        ELSE IF enough # {} THEN Carve(s, pool, first, size)
        ELSE carved(NewPool(s, pool, size))

alloc_large(s, pool, sizeofobject) ==
    LET size == Aligned(sizeofobject)
    IN  IF s.failed THEN s
        ELSE IF sizeofobject > MAX_ALLOC_CHUNK - HDR \/ jpeg_get(s, size + HDR) = 0 THEN Failed(s)
        ELSE [s EXCEPT !.heap = @ + size + HDR,
                       !.total_space_allocated = @ + size + HDR,
                       !.large_list[pool] = <<[bytes_used |-> size, bytes_left |-> 0,
                                                malloced |-> size + HDR]>> \o @]

(* Rows in chunks of as many as an allocation can hold; a row pointer has   *)
(* size 1.                                                                  *)
AllocRows(s, pool, rowsize, numrows) ==
    LET perchunk == (MAX_ALLOC_CHUNK - HDR) \div rowsize
        rowsperchunk == Least(perchunk, numrows)
        chunks == (numrows + rowsperchunk - 1) \div rowsperchunk
        rows(i) == Least(rowsperchunk, numrows - (i - 1) * rowsperchunk)
    IN  IF s.failed \/ perchunk <= 0 THEN Failed(s)
        ELSE Iterate(chunks, LAMBDA t, i : alloc_large(t, pool, rows(i) * rowsize),
                     alloc_small([s EXCEPT !.last_rowsperchunk = rowsperchunk], pool, numrows))

alloc_sarray(s, pool, samplesperrow, numrows) == AllocRows(s, pool, samplesperrow, numrows)
alloc_barray(s, pool, blocksperrow, numrows) == AllocRows(s, pool, 2 * blocksperrow, numrows)
-----------------------------------------------------------------------------
(* Virtual arrays: control blocks in mem.arrays, in the order of the        *)
(* requests; the lists of the code run from the latest to the first, all    *)
(* sample arrays before all block arrays.                                   *)

RowSize(a) == IF a.kind = "sarray" THEN a.width ELSE 2 * a.width

Requested(s, request) ==
    IF s.failed THEN s
    ELSE [s EXCEPT !.arrays = Append(@,
            [request |-> request, realized |-> FALSE, rows_in_mem |-> 0, rowsperchunk |-> 0,
             mem_buffer |-> <<>>, cur_start_row |-> 0, first_undef_row |-> 0,
             dirty |-> FALSE, b_s_open |-> FALSE])]

request_virt_sarray(s, request) == Requested(alloc_small(s, JPOOL_IMAGE, CONTROL), request)
request_virt_barray(s, request) == Requested(alloc_small(s, JPOOL_IMAGE, CONTROL), request)

(* What jpeg_mem_available leaves.                                          *)
jpeg_mem_available(s) == setting.max_memory_to_use - s.total_space_allocated

Minheights(r) == (r.numrows - 1) \div r.maxaccess + 1

(* As many strips of maxaccess rows as every array may have in memory.      *)
MaxMinheights(s) ==
    LET unrealized == {i \in DOMAIN s.arrays : ~s.arrays[i].realized}
        sum(rows(_)) == Iterate(Len(s.arrays), LAMBDA n, i :
            IF i \in unrealized THEN n + rows(s.arrays[i].request) * RowSize(s.arrays[i].request)
            ELSE n, 0)
        parcelled(least, most, available) ==
            IF available >= most THEN 1000
            ELSE IF available < least THEN 1 ELSE available \div least
    IN  parcelled(sum(LAMBDA r : r.maxaccess), sum(LAMBDA r : r.numrows), jpeg_mem_available(s))

(* An array that does not fit gets a temporary file, before its buffer; the *)
(* disk takes setting.disk rows, and no file at all if that is none.        *)
OpenStore(s, i) ==
    IF setting.disk = 0 THEN Failed(s)
    ELSE [s EXCEPT !.arrays[i].b_s_open = TRUE,
                   !.files = [j \in DOMAIN s.files \cup {i} |->
                       IF j = i THEN [k \in 0..(s.arrays[i].request.numrows - 1) |-> Junk]
                       ELSE s.files[j]]]

Realized(a, height, perchunk) ==
    [a EXCEPT !.realized = TRUE, !.rows_in_mem = height, !.rowsperchunk = perchunk,
              !.mem_buffer = [k \in 0..(height - 1) |-> Junk]]

RealizeArray(s, i, max_minheights) ==
    LET r == s.arrays[i].request
        fits == Minheights(r) <= max_minheights
        height == IF fits THEN r.numrows ELSE max_minheights * r.maxaccess
        opened == IF fits THEN s ELSE OpenStore(s, i)
        realized(t) == IF t.failed THEN t
                       ELSE [t EXCEPT !.arrays[i] = Realized(@, height, t.last_rowsperchunk)]
    IN  IF s.failed \/ s.arrays[i].realized THEN s
        ELSE realized(IF r.kind = "sarray" THEN alloc_sarray(opened, JPOOL_IMAGE, r.width, height)
                                           ELSE alloc_barray(opened, JPOOL_IMAGE, r.width, height))

(* The sample arrays, then the block arrays, the latest request first.      *)
realize_virt_arrays(s) ==
    LET n == Len(s.arrays)
        all(kind, t, most) ==
            Iterate(n, LAMBDA x, k : IF x.arrays[n + 1 - k].request.kind = kind
                                     THEN RealizeArray(x, n + 1 - k, most) ELSE x, t)
    IN  With(MaxMinheights(s), LAMBDA most : all("barray", all("sarray", s, most), most))

Buffered(s, i, rows) == [s EXCEPT !.arrays[i].mem_buffer = rows]
Filed(s, i, rows) == [s EXCEPT !.files[i] = rows]

(* One chunk of the buffer.  The transfer stops at the first undefined row  *)
(* and at the end of the array; the file goes on where the last chunk ended.*)
IoChunk(x, i, writing, k) ==
    LET a == x.s.arrays[i]
        first == k * a.rowsperchunk
        rows == Least(Least(a.rowsperchunk, a.rows_in_mem - first),
                      Least(a.first_undef_row, a.request.numrows) - (a.cur_start_row + first))
        written == [f \in 0..(a.request.numrows - 1) |->
            IF f - x.offset \in 0..(rows - 1) THEN a.mem_buffer[first + f - x.offset]
            ELSE x.s.files[i][f]]
        read == [b \in DOMAIN a.mem_buffer |->
            IF b - first \in 0..(rows - 1) THEN x.s.files[i][x.offset + b - first]
            ELSE a.mem_buffer[b]]
    IN  IF x.s.failed \/ x.break THEN x
        ELSE IF rows <= 0 THEN [x EXCEPT !.break = TRUE]
        ELSE IF ~writing THEN [x EXCEPT !.s = Buffered(@, i, read), !.offset = @ + rows]
        ELSE IF x.offset + rows > setting.disk THEN [x EXCEPT !.s = Failed(@)]
        ELSE [x EXCEPT !.s = Filed(@, i, written), !.offset = @ + rows]

DoIo(s, i, writing) ==
    LET a == s.arrays[i]
        chunks == (a.rows_in_mem + a.rowsperchunk - 1) \div a.rowsperchunk
    IN  Iterate(chunks, LAMBDA x, k : IoChunk(x, i, writing, k - 1),
                [s |-> s, offset |-> a.cur_start_row, break |-> FALSE]).s

do_sarray_io(s, i, writing) == DoIo(s, i, writing)
do_barray_io(s, i, writing) == DoIo(s, i, writing)

ArrayIo(s, i, writing) ==
    IF s.arrays[i].request.kind = "sarray" THEN do_sarray_io(s, i, writing)
    ELSE do_barray_io(s, i, writing)

(* Makes rows start..end - 1 part of the window: a forward scan continues   *)
(* from start, a backward scan ends the window at end.                      *)
WindowStart(a, start, end) ==
    IF start > a.cur_start_row THEN start
    ELSE IF end < a.rows_in_mem THEN 0 ELSE end - a.rows_in_mem

Moved(a, start) == [a EXCEPT !.dirty = FALSE, !.cur_start_row = start]

MoveWindow(s, i, start, end) ==
    LET a == s.arrays[i]
        loaded(t) ==
            IF t.failed THEN t
            ELSE ArrayIo([t EXCEPT !.arrays[i] = Moved(@, WindowStart(a, start, end))], i, FALSE)
    IN  IF start >= a.cur_start_row /\ end <= a.cur_start_row + a.rows_in_mem THEN s
        ELSE IF ~a.b_s_open THEN Failed(s)
        ELSE loaded(IF a.dirty THEN ArrayIo(s, i, TRUE) ELSE s)

(* Rows that nobody has written yet: a writer defines them and may not skip *)
(* any; a reader sees zeroes if the array is pre-zeroed.                    *)
DefineRows(s, i, start, end, writable) ==
    LET a == s.arrays[i]
        undef_row == IF a.first_undef_row < start THEN start ELSE a.first_undef_row
        zeroed == [b \in DOMAIN a.mem_buffer |->
            IF b + a.cur_start_row \in undef_row..(end - 1) THEN 0 ELSE a.mem_buffer[b]]
    IN  IF s.failed \/ a.first_undef_row >= end THEN s
        ELSE IF (IF writable THEN a.first_undef_row < start ELSE ~a.request.pre_zero) THEN Failed(s)
        ELSE [s EXCEPT !.arrays[i] =
                [a EXCEPT !.first_undef_row = IF writable THEN end ELSE @,
                          !.mem_buffer = IF a.request.pre_zero THEN zeroed ELSE @]]

(* Mutant: a window that was written is not written back.                   *)
Marked_Never(s, i, writable) == s
Marked(s, i, writable) == IF s.failed \/ ~writable THEN s ELSE [s EXCEPT !.arrays[i].dirty = TRUE]

AccessVirt(s, i, start, num, writable) ==
    LET a == s.arrays[i]
    IN  IF start + num > a.request.numrows \/ num > a.request.maxaccess \/ ~a.realized
        THEN Failed(s)
        ELSE Marked(DefineRows(MoveWindow(s, i, start, start + num), i, start, start + num, writable),
                    i, writable)

access_virt_sarray(s, i, start, num, writable) == AccessVirt(s, i, start, num, writable)
access_virt_barray(s, i, start, num, writable) == AccessVirt(s, i, start, num, writable)

-----------------------------------------------------------------------------
(* Release.                                                                *)

(* Mutant: the header is not counted.                                       *)
FreedSpace_NoHeader(b) == b.bytes_used + b.bytes_left
FreedSpace(b) == b.bytes_used + b.bytes_left + HDR

free_pool(s, pool) ==
    LET all == s.small_list[pool] \o s.large_list[pool]
        sum(size(_)) == Iterate(Len(all), LAMBDA n, k : n + size(all[k]), 0)
        closed == IF pool = JPOOL_IMAGE
                  THEN [s EXCEPT !.arrays = <<>>,
                                 !.files = [i \in {j \in DOMAIN s.files : ~s.arrays[j].b_s_open} |-> s.files[i]]]
                  ELSE s
    IN  [closed EXCEPT !.small_list[pool] = <<>>, !.large_list[pool] = <<>>,
                       !.objects = {o \in @ : o.pool # pool},
                       !.total_space_allocated = @ - sum(FreedSpace),
                       !.heap = @ - sum(LAMBDA b : b.malloced)]

(* self_destruct, which every jpeg_destroy comes to.                        *)
self_destruct(s) ==
    LET empty == free_pool(free_pool(s, JPOOL_IMAGE), JPOOL_PERMANENT)
    IN  [empty EXCEPT !.heap = @ - CONTROL, !.state = "destroyed"]

-----------------------------------------------------------------------------
(* The client.                                                             *)

Idle == mem.state = "alive" /\ ~mem.failed

jinit_memory_mgr ==
    /\ mem.state = "none"
    /\ ~mem.failed
    /\ mem' = IF jpeg_get(mem, CONTROL) = 0 THEN Failed(mem)
              ELSE [mem EXCEPT !.state = "alive", !.heap = CONTROL, !.total_space_allocated = CONTROL]
    /\ UNCHANGED <<setting, shown, accesses>>

ClientAlloc ==
    /\ Idle
    /\ Cardinality(mem.objects) < setting.objects
    /\ mem.arrays = <<>>
    /\ \E pool \in Pool :
        \/ \E size \in SmallSizes : mem' = alloc_small(mem, pool, size)
        \/ \E rows \in 1..2 : mem' = alloc_sarray(mem, pool, 3, rows)
    /\ UNCHANGED <<setting, shown, accesses>>

ClientRequest ==
    /\ Idle
    /\ Len(mem.arrays) < Len(setting.requests)
    /\ LET request == setting.requests[Len(mem.arrays) + 1]
       IN  mem' = IF request.kind = "sarray" THEN request_virt_sarray(mem, request)
                  ELSE request_virt_barray(mem, request)
    /\ UNCHANGED <<setting, shown, accesses>>

ClientRealize ==
    /\ Idle
    /\ \E i \in DOMAIN mem.arrays : ~mem.arrays[i].realized
    /\ mem' = realize_virt_arrays(mem)
    /\ UNCHANGED <<setting, shown, accesses>>

(* Of rows that were undefined and are not pre-zeroed the caller sees only  *)
(* what it stores itself, and it stores something in each.                  *)
Undefined(a, row) == ~a.request.pre_zero /\ row >= a.first_undef_row

Strip(t, i, start, num) ==
    LET a == t.arrays[i]
    IN  [k \in 1..num |-> IF Undefined(mem.arrays[i], start + k - 1) THEN Junk
                          ELSE a.mem_buffer[start + k - 1 - a.cur_start_row]]

Stored(t, i, start, S, v) ==
    LET a == t.arrays[i]
    IN  Buffered(t, i, [b \in DOMAIN a.mem_buffer |->
            IF b + a.cur_start_row - start \in S THEN v ELSE a.mem_buffer[b]])

ClientAccess ==
    /\ Idle
    /\ accesses < MaxAccesses
    /\ accesses' = accesses + 1
    /\ \E i \in DOMAIN mem.arrays, writable \in BOOLEAN, num \in 1..2 :
        /\ mem.arrays[i].realized
        /\ \E start \in 0..(mem.arrays[i].request.numrows - num) :
            LET needed == {k \in 0..(num - 1) : Undefined(mem.arrays[i], start + k)}
                served(t) ==
                    IF t.failed THEN mem' = t /\ UNCHANGED shown
                    ELSE /\ shown' = Strip(t, i, start, num)
                         /\ IF writable
                            THEN \E S \in {needed, needed \cup {0}, 0..(num - 1)} :
                                    mem' = Stored(t, i, start, S, accesses')
                            ELSE mem' = t
            IN  served(IF mem.arrays[i].request.kind = "sarray"
                       THEN access_virt_sarray(mem, i, start, num, writable)
                       ELSE access_virt_barray(mem, i, start, num, writable))
    /\ UNCHANGED setting

ClientFreeImage ==
    /\ Idle
    /\ accesses > 0
    /\ mem' = free_pool(mem, JPOOL_IMAGE)
    /\ shown' = <<>>
    /\ UNCHANGED <<setting, accesses>>

ClientDestroy ==
    /\ mem.state = "alive"
    /\ mem' = self_destruct(mem)
    /\ shown' = <<>>
    /\ UNCHANGED <<setting, accesses>>

MemoryNext ==
    \/ jinit_memory_mgr
    \/ ClientAlloc
    \/ ClientRequest
    \/ ClientRealize
    \/ ClientAccess
    \/ ClientFreeImage
    \/ ClientDestroy

MemorySpec == MemoryInit /\ [][MemoryNext]_memory_vars

-----------------------------------------------------------------------------
(* Properties.                                                             *)

(* The rows of array i wherever they are, as its client may think of them.  *)
NeverWritten(request) == IF request.pre_zero THEN 0 ELSE Junk

ArrayContent(i) ==
    LET request == setting.requests[i]
        a == mem.arrays[i]
        inWindow(r) == r - a.cur_start_row \in 0..(a.rows_in_mem - 1)
        realized == i \in DOMAIN mem.arrays /\ a.realized
    IN  [r \in 0..(request.numrows - 1) |->
            IF ~realized THEN NeverWritten(request)
            ELSE IF r >= a.first_undef_row THEN NeverWritten(request)
            ELSE IF inWindow(r) THEN a.mem_buffer[r - a.cur_start_row]
            ELSE mem.files[i][r]]

Shape(requests) ==
    [i \in DOMAIN requests |-> [rows |-> requests[i].numrows, fresh |-> NeverWritten(requests[i])]]

Promise == INSTANCE VirtualArray WITH
    Shapes <- {Shape(s.requests) : s \in Settings},
    Values <- 1..MaxAccesses,
    shape <- Shape(setting.requests),
    content <- [i \in DOMAIN setting.requests |-> ArrayContent(i)],
    strip <- shown

(* The windows, the temporary files, the chunks and the zeroing together    *)
(* are arrays that keep what was stored in them, also when the disk or      *)
(* malloc runs short in the middle of an access.                            *)
KeepsRows == Promise!Spec

(* The space the manager believes to hold is what malloc gave it, and after *)
(* it is destroyed, wherever a routine was left, nothing of that and no     *)
(* temporary file remains.                                                  *)
NothingLeaks ==
    /\ mem.state = "alive" => mem.total_space_allocated = mem.heap
    /\ mem.state = "destroyed" => mem.heap = 0 /\ mem.files = <<>>

(* Objects of a pool are aligned, lie within what malloc gave and do not    *)
(* overlap.                                                                 *)
ObjectsDisjoint ==
    /\ \A o \in mem.objects :
        /\ o.at % ALIGN_TYPE = 0
        /\ HDR + o.at + o.size <= mem.small_list[o.pool][o.block].malloced
    /\ \A o, p \in mem.objects :
        (o # p /\ o.pool = p.pool /\ o.block = p.block) => o.at + o.size <= p.at \/ p.at + p.size <= o.at
=============================================================================
