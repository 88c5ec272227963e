# Formal models of UnlimitedBurstShot

UnlimitedBurstShot is an Android camera application (minSdk 10, targetSdk 15).
While the shutter is held it takes preview frames one after the other, copies
each into native memory and has a worker thread encode and save it, until the
system runs low on memory. The encoder is libjpeg 8d, part of the repository.
This directory holds TLA+ models of the Java and JNI code and of libjpeg's
compressor, the TLC configurations that check them, and TLAPS proofs.

Paths below are relative to `src/src/com/fezrestia/android/application/unlimitedburstshot/`
unless they start with `src/`.

## 1. Inventory

| Component | State | Operations | Talks to |
|---|---|---|---|
| `controller/StateMachineController` | `currentState`, two-buffer ring, `mHandler`, interval | `sendEvent` (12 states, 24 events), `takeBurstFrame`, callbacks for focus, frame, stored photo | everything; on the UI thread, except `onPhotoStoreCompleted` (worker) |
| `nativesavingtask/NativeSavingTaskStackController` | task list, path prefix and count, first-photo flag, memory size, listener | `startCapturing`, `requestStore`, `finishCapturing`, `onStoreCompleted`, `release`, `isTaskStackEmpty/Full` | a Java monitor shared by the UI thread and the worker |
| `nativesavingtask/NativeSavingTask`, `src/jni/native_saving_task/*` | callback, address of native data: struct, YUV, RGB, path | `doInitialize`, `run` = `doStore...`, `doFinalize`, callback | created on the UI thread, run by the worker |
| `UnlimitedBurstShotApplication` | single worker thread, the one controller | `onCreate`, `onTerminate` | outlives every Activity |
| `UnlimitedBurstShotActivity` | references to the parts | life cycle callbacks, keys | `sendEvent`, `CameraDeviceHandler` |
| `device/CameraDeviceHandler` | status, `mCamera`, `mOpenDeviceFuture`, `mContext`, cached parameters | open, wait, release, reopen, focus, frame request, zoom | an opener thread per `startCameraOpen()`; fields shared without a lock |
| `view/ViewFinderVisuals` | surface, size of the resize under way, HUD, `mIsNowStoring` | surface callbacks, touches, `sendViewUpdateEvent` | `sendEvent`; the worker writes `mIsNowStoring` |
| `storage/RingBuffer` | buffers, current index | `getCurrent`, `getNext`, `increment` | state machine |
| `view/InteractiveSliderIndicator`, `device/PlatformDependencyResolver`, `Utility` | none or little | pure computations, I/O | |
| `storage/Async*`, `storage/OutputStreamMultiplexer` | queues of a writer | never called by the application | |
| libjpeg: compressor (`src/jni/jpegsr8d/jcapi*.c`, `jcinit.c`, `jcmaster.c`, `jcmainct.c`, `jcprepct.c`, `jcsample.c`, `jccoefct.c`, `jcparam.c`, `jcmarker.c`, `jdatadst.c`) | `cinfo`: parameters, tables and whether they were sent, pass, row counters, buffers, destination | `jpeg_start_compress`, `jpeg_write_scanlines`, `jpeg_write_raw_data`, `jpeg_finish_compress`, tables, markers, abort, destroy | called by `RGB888_2_JPEG`; drives the parts below; writes to a file, memory or a client's buffer that may suspend |
| libjpeg: entropy coder (`jchuff.c`, `jdhuff.c`, `jdmarker.c`) | predictions, end-of-band run, correction bits, counts, bit buffer, restart counter | statistics pass, output pass, decoding with suspension, resynchronisation | quantised blocks in, bits out |
| libjpeg: DCT (`jfdctint.c`, `jidctint.c`, `jcdctmgr.c`, `jddctmgr.c`, `jdmaster.c`) | quantisation tables | 32 forward and 32 inverse transforms, quantisation | samples in, coefficients out |
| libjpeg: memory manager (`jmemmgr.c`, `jmemname.c`) | pools, virtual arrays with a window in memory and a temporary file | allocation, request, realize, access, release | every other part of the library; `malloc` and the disk |
| colour conversion (`src/jni/native_saving_task/NativeSavingTask.c`, `jccolor.c`) | frame position | YUV to RGB888, RGB to YCbCr | camera frame in, encoder rows out |
| libjpeg: decompressor, arithmetic coder, quantisers, transforms, tools | | never called by the application | |
| build files, resources | | no behaviour | |

What is hard here, and hard to test:

* two threads in the saving back end, with `submit()` before `add()`, a listener
  setter outside the monitor, and a callback field read twice;
* bursts that are chains of messages and timers in one looper, none of which is
  removed when a burst ends;
* an Activity that is paused, resumed, destroyed and made anew while the back end
  goes on saving, the next one possibly before the last one is destroyed;
* a camera opened by a thread nobody joins except by a wait with a timeout, and
  nobody asks whether it died;
* parts that fail on their own: `malloc`, `fopen`, `Camera.open`;
* an encoder that may have to stop in the middle of a row, a decoder that may have
  to stop in the middle of a block, and both go on as if they had not;
* two passes over the same coefficients that have to agree symbol by symbol;
* 64 hand-unrolled fixed point transforms, of which an application uses one or two;
* arrays that live partly in memory and partly on disk, zeroed only when touched.

`PROJECT.json` lists each hazard with its line and the properties about it. What
makes each part correct:

* *saving back end*: every accepted photo is handled once, in order; the list,
  the count and the native buffers agree with the work that is left; no photo
  overwrites another; the first photo of each burst is announced as such;
* *state machine*: frames are stored only in an open burst, a burst is closed by
  whatever ends the capture, its chain neither dies nor forks, standby implies a
  camera and an attached back end, a destroyed Activity is let go;
* *camera*: held while resumed, released when paused, never lost, never competed
  for by the application itself, handed out only while it is held;
* *indicator*: on while photos are saved, off when they are stored;
* *compressor*: a finished image holds every row once, in order, coded with the
  tables and intervals a reader has at that place, and its scans send every bit;
* *entropy coder*: what is decoded is what was encoded, wherever the decoder had
  to suspend and whichever segments were lost; every symbol has a legal code;
* *DCT*: forward and inverse undo each other at every size, within the
  range of the coder and of the range limit table;
* *memory manager*: arrays keep what was stored in them, objects do not overlap,
  nothing is left when the manager is destroyed;
* *colours*: each pixel has the colour of its own luma and its block's chroma.

## 2. Modules

| Module | Models | Runs |
|---|---|---|
| `PhotoStore` | what the saving service promises: a FIFO store that handles each photo once | (abstract) |
| `NativeSavingTaskStack` | controller, tasks, native memory, worker thread | `stack_first_photo`, and `stack` through `StoringIndicator` |
| `NativeSavingTaskStack_proofs` | the inductive invariant, the theorems it gives, and that the steps are steps of `PhotoStore` | |
| `StoringIndicator` | extends the back end with the indicator and the order in which both threads reach it | `stack`, `indicator_stops` |
| `StoringIndicator_proofs` | its theorems | |
| `BurstStateMachine` | `sendEvent`, looper, timers, ring buffer, Activity life cycle, surface callbacks | `burst*` |
| `BurstStateMachine_proofs` | theorems about state, camera, back end and Activity | |
| `BurstStateMachine_chain` | theorems about the messages of a burst | |
| `CameraDevice` | camera ownership, opener threads, waits with timeout | `camera*` |
| `CameraDevice_proofs` | theorems about camera ownership | |
| `Loops` | a C loop and a local variable as operators | |
| `LongLoops` | the same for loops over whole images, by halves for TLC's sake | |
| `HuffmanCode` | tables and their construction, codes, optimal tables, the symbols of a block | `jpeg` |
| `EntropyScan` | the scans of an image through encoder, loss, and decoder | `jpeg` |
| `JpegTables` | constant tables of `jcparam.c` and `jutils.c` | `jpeg` |
| `DctCommon`, `ForwardDct`, `InverseDct` | the kernels of the transforms and their rounding | `jpeg`, `jpeg_fdct` |
| `BlockCodec` | a block through transform, quantiser, and back at any output size | `jpeg`, `jpeg_fdct` |
| `VirtualArray` | what a virtual array promises: rows that keep what was stored | (abstract) |
| `JpegMemory` | the memory manager, shown to implement `VirtualArray` | `jpeg` |
| `JpegMemory_proofs` | its inductive invariant: pools, account, windows and files | |
| `JpegMemory_refines` | the proof that its steps are steps of `VirtualArray` | |
| `JpegParameters` | defaults, scan scripts and their validation, layout of components and scans | `jpeg` |
| `JpegMarkers` | destinations, marker writer, marker reader | `jpeg` |
| `JpegEncoder` | the compression object and the calls of its client | `jpeg` |
| `CameraColours` | YUV frame to RGB888 to YCbCr | `jpeg` |
| `CameraColours_proofs` | the colours of every frame | |
| `MCJpeg`, `MCFdct` | values for them, and the parts side by side | |

`NativeSavingTaskStack` and `BurstStateMachine` meet in one contract: the back
end is used as a burst protocol (`startCapturing` only when no burst is open,
`requestStore` only while one is). `NativeSavingTaskStack` has it as guards of
`StartCapturing` and `GetNextFilePath`; `BurstStateMachine` shows it as
`StoredOnlyInOpenBurst`. `BurstStateMachine` sees the camera as one value
(released, opening, open); `CameraDevice` models what is behind it.

### NativeSavingTaskStack

Variables carry the names of the Java fields. `monitor` is the owner of the
controller's lock, `heap` the set of native blocks, `execQueue` the queue of the
executor, `worker` and `ui` the places where the threads are. Steps are cut where
the other thread can see a difference:

| Actions | Code |
|---|---|
| `RequestStoreSubmit`, `RequestStoreAdd`, `RequestStoreFails` | `requestStore()` up to `submit()`, the rest of it, the failing constructor |
| `StartCapturing`, `FinishCapturing`, `SetListener`, `Release` | the methods of these names; `Release` with the executor's `shutdown()` |
| `Take`, `Store`, `Finalize`, `CheckCallback`, `CallCallback` | the executor, then the lines of `NativeSavingTask.run()` |
| `OnStoreCompleted`, `Notify` | `onStoreCompleted()` before and at the listener call |

Abstractions: a path is the pair of prefix and count; the size of every task is
one (all frames of a controller have one size); the two reads of a listener that
may be cleared in between are kept. `mIs1stPhotoAlreadyCallbacked` is set a step
later than in the code, inside the monitor, which nobody can see.

### StoringIndicator

`StoreFrame`/`OnStoringStarted` and `Attach`/`CheckStack` are the two handlers of
`sendEvent` that touch back end and indicator one after the other; the worker's
`NotifyListener` is `onPhotoStoreCompleted()`, called inside the monitor. `inFront` is
the state machine that attached last, the one whose view finder the user sees.
`Detach` is the pause of that state machine or an event of an earlier one, so a
state machine may store frames while the worker reports to nobody. The steps of the
back end are unchanged, and so is the fairness of `ISpec`; the run `stack` therefore
checks the properties of both modules.

### BurstStateMachine

One operator per state of `sendEvent` (`InStandby`, `InCapture`, ...), one
disjunct per row; `Rows` lists the rows so that any other event is ignored.
`looper` holds the posted messages in order (`FRAME_NULL`, `FRAME`, `TICK`,
`RETRY`, and the camera's `AF`), `timers` those that are delayed. A message
carries, as an auxiliary field, the burst whose chain it belongs to. Callers of
`sendEvent` are actions: `UserInput`, `SurfaceCreated`, `SurfaceChanged`,
`SurfaceDestroyed`, `BackKey`, `OnResume`, `OnPause`, `OnDestroy`,
`EarlierEvent`, `ProcessMessage`. `WithoutFocus` leaves a focus message that the
camera took back in its place as a message that does nothing (`REMOVED`), as
`IsDropped` passes over a timer whose Runnable finds another state; so the other
messages keep their positions, which the proofs count. `surface` is how far the
window's surface got, `resizing` the pending resize of `ViewFinderVisuals`. A use of a null reference ends the process
(`crash`, which says where, then only `Dead`). `isTaskStackFull()` answers either
way.

A new Activity starts after the `onDestroy()` of the one before (`Recreate`) or, if
that one has called `finish()`, before it (`Relaunch`). The variables are then those
of the new state machine. Of a state machine that was left behind in `STATE_PAUSE`
only what can be seen is kept: how many events it is still to handle (`earlier`), its
`EVENT_FINALIZE` and maybe messages left in the looper; each of them clears the
listener of the shared back end (`EarlierEvent`). `Relaunch` takes any number of
messages if there were some. `listener` says whose it is: `this` state
machine's, an`other`'s or nobody's, or `cleared` by an earlier one after this one had
set it. `Relaunch` waits until the surface of the finished Activity, which
`STATE_PAUSE` hides, is destroyed, and an earlier Activity gets no surface callbacks
after that: what a surface callback of a window that is going away would do to the
new state machine is not modelled.

The rigid variable `cancelRemoves` tells Android 4.1 and later, where
`cancelAutoFocus()` drops a focus result under way, from earlier ones; the
manifest supports both, and every run explores both. A camera may be late with
the buffer it was lent (TODO at `StateMachineController.java:615`): the buffer is
then still in `requested`, which `FreshFrameStored` exempts.

### CameraDevice

`opener[i]` is where opener thread `i` is in `OpenDeviceTask.run()`; `hardware`
the Camera object that holds the device, named after its opener. A wait may
always end before its opener does; `timedOut` remembers that one did.
`ConfigureFails` is an exception of `getParameters()`, `setParameters()` or
`startPreview()`, or of a missing context or camera, at any point after `mCamera` was
set: the Future swallows it, and status and `mIsExpired` stay as they are. An opener
ends as `failed` (no camera), `opened` or `died`. The context that `startCameraOpen()`
is given is the Activity's or, after a change of camera, the one the handler has. A handler of the UI thread that has begun is finished before the next
(`ui`).

### EntropyScan, HuffmanCode

`GatherMcu` and `FinishGather` are the statistics pass, `EncodeMcu` and
`FinishScan` the output pass, each with the routine that `start_pass_huff` selects:
sequential, DC or AC, first or refinement. `LoseSegments` removes restart segments, `Deliver` makes more of
the stream available, `DecodeMcu` is one call of `decode_mcu`: when it suspends,
the decoder goes back to its state before the MCU, but the blocks keep what was
done to them, which is what `AlreadyCorrected` is for. The reference
(`KnownBlock`) says without codes or runs which bits of a coefficient the scans so
far have sent. The stream is made of bytes, with stuffing and padding, and a
coefficient is an integer without a width. A block is its 64 coefficients, of which the scans code the
first 25 (`block_size` 5), so that runs of more than 15 zeros, end-of-band runs
and full correction buffers occur in short scans.

### BlockCodec, ForwardDct, InverseDct

The transforms of libjpeg are linear up to their roundings. Each pass is a kernel:
the integer by which it multiplies each input to get each output, worked out from
the additions and `FIX()` constants of the source, with the places where the source
rounds. The tables were compared with the compiled C routines on random blocks, all
32 forward and all 32 inverse transforms, and agreed bit by bit. `BlockNext` takes
a block through rows, columns, quantiser, the coefficients the decoder discards for
a reduced size (`coef_limit`), columns and rows again.

### JpegMemory, VirtualArray

Sizes are counted in units of the bound constants, and the contents of a row is one
value; `Junk` is what `malloc` returns. Actions are the calls of a client; a routine
that meets a lack of space ends where `ERREXIT` does (`failed`), and then only
`ClientDestroy` is left. `VirtualArray` has no window, file, pool or zeroing:
`KeepsRows` shows that every access returns and keeps what it should.

### JpegEncoder, JpegMarkers, JpegParameters

`cinfo` is the compression object with its modules as fields. Actions are the API
calls; one `WriteScanlines` is a whole `jpeg_write_scanlines`, down to the bytes a
destination takes. A sample row is the set of input lines it was made from, a block
its component, column and sample rows, a table its version, an MCU one item of the
stream. So the properties see which lines are where, not which values. An
application whose error handler returns, as `jpegErrorHandler()` does
(`NativeSavingTask.c:323`), goes on after an error (`returns`).

### CameraColours

`ConvertPixel` is one iteration of the loops of `NativeSavingTask.c`, `rgb_ycc_convert`
the conversion of the finished frame. The reference is BT.601 and JFIF in decimal
fractions. Each pixel is compared with what its own luma (`LumaOf`) and the V and U of
its own block (`PairOf`, `VOf`, `UOf`) should give. Width and height are even, as
the sizes of preview frames are (`FramesAssumption`); the loops rely on it.

## 3. Runs

| Run | Bounds | Shows |
|---|---|---|
| `stack` | 3 frames, 2 bursts, 2 state machines or none attached | type, inductive invariant, list and memory accounting, buffers, paths, at most one first photo per burst, completion, refinement of `PhotoStore`; the indicator is never idle while saving |
| `burst` | 2 bursts, 1 event of an earlier state machine under way, Android before and from 4.1 | frames stored in open bursts only, one chain per burst, bursts closed, camera there and back end attached when active, detached when destroyed, fresh frames, a capture never stalls |
| `camera` | 4 openers, with and without timeout | ownership, no self-conflict, a camera that is handed out is held; no released Camera is kept |
| `jpeg` | see below | what libjpeg writes can be read again |

Three frames are enough for one task being stored, one queued and one being
submitted at the same time; two bursts for photos and timers of one burst to meet
the next; two state machines for an Activity and its successor; four openers for
a camera change between two resumes. `MaxLooper` only delays focus results while
the looper is long. One event of an earlier state machine at a time (`MaxEarlier`) is
enough: it may come at any moment, further ones would clear the same listener, and
when it has come another Activity may be left behind. `FreshFrameStored` speaks of the first burst, because
leftover timers of an earlier one break the interval (below), and with it the
freshness, and of a camera that delivers frames. It says that the buffer to be stored
was lent since it was last stored, and is filled or still with a late camera: a late
camera leaves the old frame in it. `ReadyWhenActive` says that the back end was told to
report to this state machine; that nobody has undone it is `ListenerKept`, which does
not hold (below). Deadlock is checked in every run of the Java code: where the system really may
rest, the module says so in an action (`Halted`, `Dead`, `StaysPaused`).

The run `jpeg` puts five parts of the library side by side (`part` says which one a
behaviour exercises, the others rest), so that one run covers them. The parts do not
share state in the model: the encoder calls the others through values that
`JpegEncoder` abstracts. Each part ends, so deadlock is not checked. Its bounds:

* *scan*: images of two components and three MCUs, seven plans: sequential with
  standard and optimal tables, a progression of seven scans down to single bits,
  restart intervals 1 and 2, up to two lost segments, delivery in small pieces or
  at once, and symbol counts so skewed that a code would exceed 16 bits. The end-of-band
  run ends at 2 (`MaxEobRun`) and the correction buffer holds 66 bits
  (`MaxCorrBits`: with more than 3 in it the run is forced out, as room for a
  block must be left), so that both limits are met with three MCUs. Three MCUs are enough for a run that begins, goes on and ends, and
  for a segment lost in front of, between and behind others; the number of a restart
  marker does not wrap modulo 8;
* *block*: each of the 32 sizes, with flat, periodic, irregular and smooth blocks and
  blocks made from a full spectrum, at qualities 1, 50 and 100, back at their own
  size, at 8 x 8 from every size, and at every size from 8 x 8. The tolerance is 2;
* *memory*: eight systems, from one without swapping to one whose disk or memory is
  short, up to two arrays and three accesses (`MaxAccesses`): write, write
  elsewhere so that the window moves, read. Alignment, headers and chunks keep
  their order of size;
* *encoder*: seventeen clients: the application with enough disk, a full disk
  at a write and at the flush; other destinations, suspension in the middle of
  an image, several images and tables of their own, scripts, reduced block size,
  optimal coding, smoothing, raw data, CMYK, abort. Most scale a block to
  one sample, so that a small image has many blocks and MCUs;
* *colours*: 98 frames of 4 x 4, in which each pixel meets footroom, headroom and the
  levels between with every pair of seven chroma values; the tolerance is 2.

Widths 12 and 14 are left out of the smooth and spectrum blocks at quality 100
(`FaultyWidths`): their row passes are wrong, which `jpeg_fdct` shows. So `ComesBack`
and `MeanKept` see of these widths flat or irregular blocks only.

Runs that find a violation, each a disagreement between the code and a comment
in it (`findings` of `PROJECT.json` quotes them):

| Run | What happens |
|---|---|
| `stack_first_photo` | a late photo of one burst is announced as the first of the next |
| `indicator_stops` | the worker's "finished" overtakes the UI thread's "started": the indicator stays on |
| `burst_interval` | a leftover timer drives a second chain in the next burst |
| `burst_abnormal_end` | the abnormal end goes on and uses null camera parameters |
| `burst_resize` | a camera that opens in `surfaceChanged()` leaves the state machine in `STATE_RESUME` for good |
| `burst_listener` | the `onDestroy()` of a finished Activity comes after the next one is in use and detaches that one's state machine from the back end |
| `camera_status` | `STATUS_OPENING` overwrites the result of the opener |
| `jpeg_fdct` | four forward transforms (12 x 12, 12 x 6, 14 x 14, 14 x 7) add a term without the scale of the fixed point arithmetic, so a coefficient is not what the comments say (`jfdctint.c:1472, 1874, 2644, 2770`) |

Further faults the models contain, of which no comment of the code claims the
contrary in a form worth a run; `PROJECT.json` lists them as hazards:

* `STATE_PAUSE` before the first prepared preview uses a controller nobody
  created (`crash = "controller"`);
* after a change of camera no preview callback is set, so lent buffers are never
  filled (`previewCallback`);
* each task leaves the copy of its path string in native memory;
* `jpegErrorHandler()` returns where libjpeg expects it not to: after a failed write
  the compression goes on and the photo counts as stored;
* a photo that cannot be written to disk is announced as stored;
* an opener that dies of an exception while it sets the camera up
  (`CameraDeviceHandler.java:253-301`) leaves it half set up; as its `Future` swallows
  the exception and nobody sets `mIsExpired`, a later `getCameraInstance()` (150-165)
  hands that camera out (`HandsOutHeldCamera` promises that the camera is held, and
  that its opener has done its work or died);
* an opener that outlives the wait of `onPause()` gets the camera and a paused
  Activity keeps it (`ReleasedWhenPaused` and `NoLostCamera` need `~timedOut`).

Before Android 4.1 (`~cancelRemoves`), `StoredOnlyInOpenBurst` does not hold: a focus
result that `cancelAutoFocus()` left under way reaches the next focus run and starts
its burst early, before the messages of the last one are handled. No comment of the
code speaks of it, so it is recorded as a hazard. `ChainAlive` holds there too.

Fairness: the worker is a started thread and runs; `requestStore()` does not
block between `submit()` and `add()`; the looper handles its messages, timers
become due, a camera with a callback and a buffer delivers. The camera module
needs no fairness, nor does libjpeg, which is sequential: its properties are safety,
and that a decoder with all the data does not wait is one of them (`NeverStarves`).
Users, windows and the system promise nothing.

## 4. Proofs

The proofs hold for every value of the constants that the named assumptions allow:
`BoundsAssumption` (bounds are natural numbers), `ListenerAssumption` (`NoListener` is
no listener), `OpensAssumption`, `FramesAssumption` (frames of even size, made of
bytes), `MemoryAssumption` (sizes that are multiples of the alignment where the code
relies on it, a chunk that holds at least a header, any heap, disk and requests). Each
inductive invariant was checked with TLC, added to the invariants of its run, before
it was proved; the run `stack` keeps that of the back end. Every safety property that the
passing runs of the Java code and the parts *colours* and *memory* of `jpeg` check is a
theorem.

| Component | Theorems | Inductive invariant |
|---|---|---|
| saving back end | `InvHolds`, `TypesCorrect`, `StackIsExact`, `BuffersAreSafe`, `PhotosAreKept`, `MemoryIsAccounted`, `FirstPhotosBounded`, `RefinesPhotoStore` | `Inv` of `NativeSavingTaskStack` |
| indicator | `IndicatorKeepsStack`, `IndicatorTypesCorrect`, `IndicatorNeverIdle` | `IInv` |
| state machine | `Ready`, `BurstIsClosed`, `DestroyedIsDetached` | `StateInv` |
| its messages | `InvHolds`, `TypesCorrect`, `ChainNeverDies`, `FramesAreOrdered`, `FramesAreFresh` | `Inv` of `BurstStateMachine` |
| camera | `TypesCorrect`, `PauseReleases`, `ReleasedIsForgotten`, `CameraNotLost`, `OpensAlone`, `HandsOutHeld` | `Inv` of `CameraDevice` |
| colours | `ColoursAreKept` | `ColourInv` |
| memory manager | `MemoryInOrder`, `ObjectsAreDisjoint`, `MemoryDoesNotLeak`, `MemoryKeepsRows` | `MemoryInv` |

### Saving back end

`StackMirrorsWork` is not inductive alone: that the list equals the unfinished
tasks when the monitor is free needs to know what it is inside the monitor
(`ListInv`), that the owner of the monitor is where the program counters say
(`MonitorInv`), and that the queue holds exactly the youngest tasks
(`QueueInv`), so that the task being submitted is not one the worker has
completed. `NoPhotoOverwritten` needs that all paths differ, which rests on the
count growing within a burst and the prefix differing between bursts (`PathInv`).
`CallbackInv` says that only `release()` takes a callback away. The proof shows that
`Init` implies `Inv` and that each action preserves it, one lemma per conjunct and
one step per action. Lemmas about the queue (`ConsecutiveElements`, `QueuedSubmit`,
`QueuedTake`, `QueuedSame`) carry the sequence reasoning.

`MemoryAccounting` and `OneFirstPerBurst` are proved beside `Inv`: the task that `requestStore()` adds is not listed yet and the one
`onStoreCompleted()` removes is (`ListInv`), so each changes the count by one; and
while the flag of the burst under way is not set there is one first photo less than
bursts (`FirstInv`).

`RefinesPhotoStore` is the safety of `ImplementsPhotoStore`: `Positions` says where the waiting photos are, `SubmitAccepts`
that `submit()` is `Accept`, `StoreHandles` that the worker's store step is `Handle`
(here the distinct paths of `PathInv` are needed: writing one photo may not save
another), and `Unseen` that the rest is not seen.

### Indicator

`IndicatorKeepsStack` shows that every step of `StoringIndicator` is a step of the back
end or leaves it alone, so `Inv` holds here as well. `NeverIdleWhileSaving` speaks of
states without a handler under way; `OwesInv` says what a handler is in the middle of
and that the worker reports to the state machine in front or to nobody, and `ShownInv`
drops the condition that the monitor is free. The step that needs the argument is the worker's "finished": it is
sent inside the monitor and only when the list is empty, so no `requestStore()` can
have listed a photo since the list was looked at.

### State machine

`StateInv` (which state goes with which part of the Activity's life, when the camera is
open and the back end attached, when a burst may be open) is inductive without the
looper: `Ready`, `BurstIsClosed` and `DestroyedIsDetached` follow whatever messages
arrive, and whenever events of earlier state machines do: these only turn `this` into
`cleared`.

The others are about messages. `ChainAlive` counts: `Due` and `Delayed` say how many
messages a step adds to the looper and the timers or takes from them, for any length
of the looper and any bag of timers, and every step that takes a chain message of the
current burst posts the next one. That no older message is mistaken for one of it is
`MessageInv`: all are of a burst that was started. `StoredOnlyInOpenBurst` rests on
the order of the looper. A focus result is handled before anything can be posted
behind it that would have to come first (`FocusInv`: at most one is under way, and
somebody waits for it), so when it starts a burst no frame message of an earlier one is
left, and `FRAME_NULL` precedes every `FRAME` that a leftover timer may still ask for
(`OrderInv`). This is where `cancelRemoves` enters, and only here. `FreshFrameStored`
needs that with a `FRAME` under way the next buffer is lent too (`FrameInv`), for
which the only chain message is that `FRAME` (`OneMessage`, from `ChainAlive`).

`Moves` describes a step by the messages it takes off the front, those it posts, and
the others, which keep their order; one lemma says which of these each step does
(`StepKinds`), and the conjuncts of `Inv` are proved from that.

### Camera

Ownership is not inductive alone: an opener at work must be the one whose Future is
kept (`OpeningInv`), with the status and the hardware as if it were alone; threads are
numbered in the order they start (`StartedInv`); a request begun in `onPause()` or
`onResume()` is ended before the next (`HandlerInv`); and once it has ended, a
released device has no camera and no opener (`RestingInv`). After a wait that timed out
only `TypeOK`, `StartedInv`, `HandlerInv`, `HardwareInv` and `NoReleasedCamera` remain, which is
why the other theorems are stated for waits that do not. An opener that died counts as
one that has ended: ownership does not depend on whether the camera was set up, and
`HandsOutHeld` promises no more than that it is held and that nobody works on it
(`HardwareInv`: its opener got through `Camera.open()`).

### Colours

`ColourClose` is the arithmetic: for each luma and chroma that bytes can make, each
channel of RGB is within 1.3 levels of BT.601, because the factors scaled by 1024
differ by less than 0.3 levels over the whole range and the shift loses less than
one (`ChannelClose`, with both ends of the clamping), and three such channels give
Y, Cb and Cr within 2 (`YccClose`). The rest is about places: `v`, `u` and `uvp` go
from pixel to pixel and change at every second one, and at the start of a line `uvp`
is set anew; `NextPair` shows that this is always the pair of the pixel's own block
(`PairInv`), `PairInFrame` that it lies in the frame. The run has 98 frames of 4 x 4;
the theorem covers every frame.

### Memory manager

A routine of the manager is a loop over pools, chunks or arrays, and the loops are
`Iterate`: a recursive function that applies a step n times. `Induction` is the
induction over numbers that these proofs rest on, proved from the well-foundedness of
finite sets (`LeastNumber`) because the library's own theorem takes an operator. Each
loop gets the same proof: it is defined, and what holds before it and is kept by its
step holds after it.

`MemoryInv` says that as long as the manager is there, it is in order (`ManagerOK`):
the pools (`MemoryOK`: sizes are multiples of the alignment, header, used and unused bytes
of a pool add up to what `malloc` gave, the objects of a pool lie below
`bytes_used`, and the account is the sum over all pools) and the arrays (`ArraysOK`: a
realized array has a window with its buffer, never narrower than an access, and a
temporary file unless the window is the whole array; the file agrees with the window
in every row that is defined, unless the window is dirty). It has to hold also where
`ERREXIT` leaves a routine in the middle, since `jpeg_destroy()` comes next. None of
`ObjectsDisjoint`, `NothingLeaks` and `KeepsRows` is inductive alone: the first needs
`bytes_used`, the second that the pools freed are those counted, one by one and from
the end, and the third the agreement of files and windows.

There is one lemma per routine, from `CarveOK` and `NewPoolOK` over `RealizeArrayOK`,
`ArrayIoOK` (by chunks: what one transfer has done so far, `ChunkOK`), `MoveWindowOK` and
`DefineRowsOK` to `SelfDestructOK`, and one per action. `MemoryKeepsRows` maps row r of
an array to the buffer, the file or to a row never written (`RowOf`), wherever it is. Moving
the window changes no row, defining rows zeroes those not yet written or leaves them
arbitrary, and a strip of an access is the content of its rows.

### Only model-checked

* Liveness (`ListedTaskCompletes`, `CaptureNeverStalls`, the fairness of the
  refinement), which TLAPS cannot reach.
* The entropy coder (`DecodedIsEncoded`, `NoMissingCode`, `NeverStarves`) and
  `StreamReadable`, `AllBitsSent` of the compressor. Their loops could be reasoned about as those of the
  memory manager are, but what they say is that two long computations are inverse,
  bit by bit and item by item. `OptimalTablesLegal` holds for counts whose codes are no
  longer than the 32 bits that `jpeg_gen_optimal_table()` admits.
* The transforms (`BlockCodec`): bounds on sums over the tables of 64 kernels, one by one.

## 5. Not modelled

* Of the application: sizes and focus modes, the slider, zoom values, sounds,
  media scanning, the delayed set-up of the head-up display, the storage helpers
  nobody calls. That `release()` is called on a real device at all: Android calls
  `onTerminate()` only in emulators.
* Of libjpeg: the upper layers of the decompressor (`jdapi*.c`, `jdcoefct.c`,
  `jdmainct.c`, `jdsample.c`, `jdmerge.c`, ...), the arithmetic coder, colour
  quantisation, lossless transformation and the tools, none of which the
  application calls; the fast and the floating point transforms, which nothing
  selects; the CMYK conversions.
* Between the parts: the values of samples do not pass through `JpegEncoder`, which
  knows them by their lines; the memory manager of `JpegEncoder` does not run short.

## 6. Plan

1. `NativeSavingTaskStack`, `PhotoStore`, `StoringIndicator`, `BurstStateMachine`,
   `CameraDevice`, first proofs (done).
2. libjpeg: `EntropyScan`, `BlockCodec`, `JpegMemory` with `VirtualArray`,
   `JpegEncoder`; `CameraColours` (done).
3. Proofs: the saving back end and its refinement of `PhotoStore`, the indicator, the
   state machine, the camera, the colours, the memory manager and its refinement of
   `VirtualArray` (done).
4. `HeadUpDisplay`: the delayed set-up, icon states and touch enabling of
   `ViewFinderVisuals` beside the state machine; `LazyInitializationTask`.
5. `BurstSystem`: `BurstStateMachine` composed with `NativeSavingTaskStack`, the
   burst protocol as an abstract specification both sides use, and the theorem that
   each side keeps its half: most of what it needs is in `OrderInv` and `PathInv`.
6. Sizes, finder rectangle, slider and interval, count strings, against reference
   definitions; the storage helpers.
7. Theorems about the entropy coder, beginning with a symbol through
   `jpeg_make_c_derived_tbl()` and `jpeg_huff_decode()`; lemmas about the quantiser.
