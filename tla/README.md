# Verification of the ASEQ spectrometer library

The repository drives ASEQ spectrometers over USB HID. `libspectrometer` (C) keeps
a device context, talks to the device through hidapi and offers some twenty calls;
`pyspectrometer` (Python, ctypes) wraps them in a `Spectrometer` object; an example
application runs one thread per spectrometer. This directory holds TLA+ models of
that code, the TLC runs that check them and the TLAPS proofs about them.

Paths below are relative to `src/`; `libspectrometer.c` and `internal.c` are in
`libspectrometer/src/`, `libspectrometer.h` and `internal.h` in `libspectrometer/include/`.

## Inventory

| component | state | operations | interacts with |
|---|---|---|---|
| device context (`libspectrometer.c`, `internal.c`) | one heap block: HID handle, `numOfPixelsInFrame`, saved serial; the caller holds its address in a `uintptr_t` | connect by serial or by index, disconnect, `_reconnect` | every API call goes through it; hidapi's table of open handles |
| request and reply exchange (`_tryWrite`, `_tryRead`, `_writeReadFunction`, `_writeOnlyFunction`, `getFrame`) | the reports queued on the way to the device and on each open handle | setters, getters, one-way commands, frames in packets | device context (handle, cached frame size), device |
| flash transfers (`readFlash`, `writeFlash`, `eraseFlash`) | offsets and counters of the transfer | batches of up to 100 packets read, chunks of up to 58 bytes written | device context (handle only; no retry) |
| device list | a linked list the caller owns | count, list, clear | hidapi |
| Python `Spectrometer` | the cached acquisition and frame parameters, the current memory object | properties with setters, connect, disconnect, reset | the C calls; writes the frame size into the context |
| Python `Memory`, `FakeMemory`, `Flash`, triggers | none of their own but the trigger's mode and edge | length, item, clear; read, write, erase; call | the C calls |
| ctypes bindings | none | error codes become exceptions | all Python classes |
| example application | a barrier counter, an event, locks, per-thread times | one thread per device: connect, read eleven frames, wait for the others before the last | `Spectrometer` |
| hidapi, firmware | open handles, report queues; frame size, settings, frames | | external, modelled from their use |

The layers meet in few places. A C call finds its handle and frame size in the
context; Python hands the address of its `uintptr_t` to every call, reads the frame
size out of the context to size a buffer and writes it there after a reset; the example
uses one `Spectrometer` in each thread, and its threads share an event, two locks and
two lists of times. Each layer sees the one below only as calls that return or fail,
which is how the modules are cut.

What makes each component correct, and what is hard about it:

* *Device context.* The connect functions free the block before they know whether
  there is a device, and they are called by `_reconnect` in the middle of calls
  whose functions hold copies of the block's address. The context must stay
  allocated while anyone holds it, its handle must be open when it is used, its
  serial number must be that of the device the handle is open on, a frame must be
  copied with the size it was asked for, and a call must end although the device
  comes and goes.
* *Exchange.* A reply names its command and nothing else. The answer to a call must
  be the device's answer to that call, a frame must not be put together from two,
  and the cached frame size must be the device's.
* *Flash transfers.* What was read must be what is in the flash, what was written
  must be a prefix of the buffer, and the caller must be told the truth about it.
* *Python `Spectrometer`.* The cached parameters must be the device's after every
  call that returns and every one that raises; the memory object must fit the mode.
* *Example application.* All threads must pass the barrier, and none before all have
  arrived; the time printed must be that of a measurement.

The hazards, each at its line, are in `PROJECT.json`.

## Modules

`DeviceContext` models the context and every call that goes through it, one step
per hidapi call. `heap` is the allocator's view of the context blocks, `ctx` the
caller's `uintptr_t`, `hid` hidapi's table of handles, `attached` the bus. A call
under way is a stack of at most three functions; `pc` is the step it has reached and
`dc` the copies of the block's address those functions hold: `dc.api` in `getFrame`,
`readFlash` and `writeFlash`, `dc.format` in `setFrameFormat` and `getFrameFormat`,
`dc.write` in `_tryWrite`. A copy that is read at once, before anything can free the
block, is read through `ctx`.

| action | code |
|---|---|
| `Connect`, with `Connected` and `NotConnected` | `connectToDeviceBySerial`, `connectToDeviceByIndex`: free, malloc, `hid_open`, in that order |
| `disconnectDeviceContext` | the function of that name |
| `Refused` | calls that return before they reach the device: context zero, buffer NULL |
| `BeginPlain`, `BeginLoop` | API functions up to the test of the handle |
| `reconnect` | `_reconnect`, before the first write or inside `_tryWrite` |
| `tryWrite`, `tryRead` | one round of `_tryWrite`; `_tryRead` and what the API function stores |
| `getFrameSize` ... `getFrameDone` | `getFrame` after the test of the handle, with the nested `getFrameFormat` |
| `flashWrite`, `flashRead` | the loops of `readFlash` and `writeFlash` (each reads with the handle found at the start) |
| `Unplug`, `Plug` | a device leaves the bus, one arrives |

What it leaves out: error codes are all `"failed"` (every caller tests for `OK`),
the setters and getters whose reply leaves the context alone are one command
`"query"`, a freed block is shown cleared and its serial string is part of it, and
the reply's content is any (see the next module). A failed connection may also come
from `hid_open` alone, with the device on the bus.

`ExposedContext` is `DeviceContext` with one history variable. `exposed` is set by a step
in which `malloc` returns another block than the one freed, while somebody still has the
address of the freed one: the caller, because the connection failed (`libspectrometer.c:71`,
`:88`), or the functions of a call, because it is their own reconnection (`internal.c:84`,
`:93`).

`ReportExchange` models who gets which reply. A session is a context with the thread
that uses it; the device executes requests in order and sends its reports to every open
handle. A report carries its command, a value (frame number or frame size, 0 for a
refusal), the count of packets left and, as history, the session whose call it belongs
to. The calls are the frame-format commands, `getFrame`, which may ask for the format
first, `setMultipleParameters`, `getAcquisitionParameters` standing for the other
commands with one reply, and the one-way commands. `setMultipleParameters` waits for the
reply of `getAcquisitionParameters` (`libspectrometer.c:400`, where `internal.h:65`
defines one of its own) and so rejects the device's: in the model too it never returns
OK. `resetDevice` leaves the frame size in the context alone; `WriteFrameSize` is the
write that `Spectrometer.reset` makes after it has returned (`spectrometer.py:260`), and
a caller in C, or a `reset()` that raises in between, does not make it: the history
variable `reset` says how far a session has got. With `Late`, a reply may come after the
timeout of its call and a write reported as failed may have been delivered. How the
context is replaced is `DeviceContext`'s subject: here a handle is open, dead or absent.
The two modules meet in the frame size, which both clear when a connection is made.

`DeviceCalls` is the abstract specification: a caller asks, the device executes and
answers, and a call that returns OK returns the answer to that very call; the device
may go and come back without its settings. `ReportExchange` implements it under the
mapping at its end: a call is answered while the report that answers it is the next in
the session's queue, and the one-way requests the device has still to execute are posted.

`FlashTransfer` models the transfers between a caller's buffer and the flash memory,
from `Flash.read`, `Flash.write` and `Flash.erase` down to the reports, for one thread
on one context. `op`, `off`, `len` and `data` are the call; `buffer`, `left`, `inc`,
`batch` and `total` the locals of the two loops, `left` being the packets of a
`readFlash` and the bytes of a `writeFlash` still to come. The reports carry offsets,
counts and bytes, so the model tells a packet that is placed wrongly from one that is
not. The device executes requests in order, may refuse any, and answers when it likes:
a call may give up before. What it answers then stays in the queues and is the next
call's to read, as in `ReportExchange`. Three history variables serve the
properties: `own` in a report (it belongs to the call under way), `mixed` (the call has
taken one that does not) and `written` (the bytes the device was told to program by
this call, at their place).

| action | code |
|---|---|
| `Begin` | `flash.py`: the length is cut at the end of flash; `Flash.write` first reads what is there |
| `Reconnect` | the `_reconnect` of a call that finds no handle |
| `ReadRequest`, `ReadPacket` | the loop of `readFlash` over batches, and over the packets of one |
| `WriteChunk`, `ChunkReply` | the loop of `writeFlash` |
| `EraseRequest`, `EraseReply` | `eraseFlash` through `_tryWrite`, with its retry, and `_tryRead` |
| `ReadError` | `hid_read_timeout` without a report |
| `Execute`, `Unplug`, `Plug` | the device |

It leaves out the context's block (`DeviceContext` has it) and bytes read past the end
of flash, which the code never copies. The 250 of `Refusal` stands for every value of
`REMAINING_PACKETS_ERROR` or above and for every error code.

`Spectrometer` models the Python class with its `Memory` or `FakeMemory`. `acq` and
`fmt` are the copies of the acquisition parameters and of the frame format, `size` is
`_frame_size`; `devAcq` and `devFmt` are the device's settings, `link`, `pixels` and
`late` the context as a call finds it: its handle, its frame size, and the answers in the
handle's queue that no call has taken. A call of the library is one step. `Ways` are the
ways its request can get through: on the handle, or on that of a new context, which has
no frame size and an empty queue. `_tryWrite` replaces a handle that is dead or NULL and
also an open one, whenever a write on it fails (`internal.c:86-99`), and such a write may
have reached the device all the same. The call then takes the first answer in the queue
(`Took`) and returns if it is of its command and no refusal; or it raises (`Raised`),
with the answer still to come, another one taken, or, if no write or no reconnection
succeeded, without one (`Broken`). The device may have obeyed in each of these cases. An
answer of several packets counts as one. `connect` and `memory[...]` are several calls
and several steps; every other method is one.

Three history variables serve the properties. `trusted` has the groups of settings that
were read or sent by a call that took its own answer and no later call has spoilt;
`halfway` marks a `connect` that raised before it called `_set_memory`; `cleared` a
context that was without a frame size when a buffer was made or since.

| action | code |
|---|---|
| `SetAcquisition(f, v)`, `SetFormat(f, v)` | the six setters that send; one that finds its value in the copy returns and is no step |
| `Connect`, `GetAcquisition`, `GetFormat` | `connect`, and `reconnect`, which calls it |
| `Disconnect`, `Reset`, `Query` | `disconnect`, `reset`, and the methods that are a call and nothing else |
| `GetItem`, `FrameFormat`, `GetFrame`, `GotItem` | `Memory.__getitem__` for an index or a slice, `FakeMemory.__getitem__`: `len`, the buffer, and for each row a `getFrame`, which asks for the frame format first if the context has no frame size |

`ExampleApp` models the multi-threaded example: `main`, which starts, joins and prints,
and one `pc` per thread, for connecting, initialising, triggering, the frame loop, the
barrier and the wait. Any call may raise, which ends its thread. `counter` is a function
of the thread because the code passes an `int`.

The proofs are in `DeviceContext_proofs` (also of `ExposedContext`),
`Spectrometer_proofs`, `ExampleApp_proofs`, `ReportExchange_proofs` (any number of
sessions, replies of any age) and `OneSession_proofs`, which extends it,
`FlashTransfer_proofs` (types and writes) and `FlashRead_proofs`, which extends it with
reads. `QueueLemmas` has the facts about queues that the last four share. The `MC`
modules instantiate the models for TLC; `MCExposedContext` for what holds of the
context, `MCDeviceContext` for what does not; `MCAskedDevice` adds the serial number the
caller asked for as a history variable.

## Runs

Passing:

| run | shows | bounds |
|---|---|---|
| `DeviceContext` | type invariant; until `malloc` has moved a context whose address is still held: no freed context is touched, handles used are open, the saved serial is the open device's, a whole frame is copied; always: every call returns, each step bringing it closer to that | 2 devices, 3 blocks, 2 handles, any `malloc` |
| `ReportExchange` | an OK comes with the call's own answer; the library implements `DeviceCalls` | 1 session, frame sizes of 1 and 2 packets, 2 frame numbers, 4 reports under way |
| `FlashTransfer` | type invariant; a read returns what is in flash; an OK means a complete write; a failed write leaves a prefix; every call returns, each step bringing it closer to that | 5 bytes of flash, packets of 2, chunks of 3, batches of 2, 2 reports left by earlier calls |
| `Spectrometer` | type invariant; the copies are the device's settings until an answer or the device is lost; a setter changes its setting only; the memory fits the scan mode; a frame fills its buffer | 2 values of each setting but the reduction mode, 2 frame sizes, slices of 2 frames, 1 late answer |
| `LateReplies` | late replies and failed writes that arrive never tear a frame and never leave an outdated frame size behind empty queues | as `ReportExchange`, `Late`, 3 reports |

Two devices are needed to connect to the wrong one; two blocks for `malloc` to return
another one than was freed, a third for it to do so again once one has leaked; the
second handle shows the leak of the first. With no closed handle left `hid_open` fails,
and with no free block left nobody connects: both only cut longer sequences of leaks of
the kinds already shown. Pixels come two to a packet, so a frame of 3 has a partly
filled packet and one of 5 exceeds `MAX_PACKETS_IN_FRAME` (`MaxPackets`). `MaxChunks`
bounds the replies of a flash transfer. `MaxQueue` bounds the start of a new call; a
late packet of a frame, the reply after it and a request in between fit. The flash sizes
are the smallest at which a read of 5 bytes takes two batches, the second with a packet
that is partly used, and a write two chunks, the second one short; lengths 0 and 3 end
with a batch or a chunk, and 5 from offset 1 is cut. Among the values of a setting is
the 0 that a copy holds before it is filled, and both scan modes that matter. `MaxLate`
bounds the answers a call leaves in its handle's queue: with one, every later call takes
the answer before its own, and two only put it further behind. The reduction mode has
one value: it is sent with the element range, in one request, and a
second value multiplies the states by five. Deadlock is checked in all passing
runs.

Where the properties of passing runs stop is marked by history variables, and each mark
stands for a weakness of the code that the model contains:

* `mixed` (`FlashTransfer`): a call that takes a report of an earlier flash call may copy
  bytes of another place, outside its buffer as well, or take the acknowledgement of
  another chunk for its own.
* `trusted` (`Spectrometer`): copies are wrong after a call that raised although the device
  obeyed, after one that took a late answer, and after the device has gone; Python is told
  of none of them but the first. A reconnection to a device that stayed on the bus does not
  end the trust: the settings are still there, and the frame size in the context is right
  or 0 until it is asked for again.
* `halfway`: after a `connect` that raised between its two reads `self.memory` is that of
  the session before.
* `cleared`: a context replaced inside a call has no frame size, so the next buffer has
  no room for the frame that is then copied into it (run `FrameBuffer`), or the frame
  that was asked for is not copied (run `FrameDelivered`).
* `reset` (`ReportExchange`): a device that was reset has its default frame size, and the
  context keeps the old one until Python writes it, which only a `reset()` that gets to its
  last line does.
* `exposed` (`ExposedContext`): see *The allocator* below.

The hazards in `PROJECT.json` name the lines of all of them.

Runs that find a disagreement between code and documentation (the findings in
`PROJECT.json` quote it):

| run | what TLC finds |
|---|---|
| `AnyMalloc` | with any allocator the pointers kept across `_reconnect` dangle, and so does the caller's after a failed connect |
| `OneOpenHandle` | connecting again leaves the earlier handle open |
| `FrameDelivered` | a `getFrame` that reconnects in `_tryWrite` returns OK and has copied no pixel |
| `AskedDevice` | after a failed reconnection the next call opens any spectrometer |
| `TwoSessions` | two contexts on one device take each other's replies |
| `FrameBuffer` | after a reconnection inside an earlier call the buffer of `memory[...]` has 0 pixels and a whole frame is written into it |
| `Barrier` | with two devices all threads of the example wait at a barrier that nobody opens |

*The allocator.* In the run `DeviceContext` `malloc` returns any free block. `AnyMalloc`
shows a freed context in use; the properties of `DeviceContext`, with their theorem, say when
that can be and when not: at a failed connect by serial number, or a reconnection inside
a call that has read the context, in which the block moves, and at nothing else. A connect
that succeeds, a connect by index, and the reconnection before a call's first look at the
context may move the block freely. With `LifoMalloc` `malloc` returns the block that
was freed just before, as glibc usually does for two such calls in a row on one thread
(`free` and `malloc` are adjacent in `libspectrometer.c:71-73`). No allocator promises it,
and nothing that passes or is proved rests on it; the runs `OneOpenHandle`,
`FrameDelivered` and `AskedDevice` set it to show that what they find is not the
allocator's doing.

*Fairness.* `DeviceContext` and `FlashTransfer` state weak fairness of a call's own
steps. Every hidapi call returns, reads after at most their timeout, so a call that can
take a step takes it. Nothing is assumed of the caller, of the device or of the bus.
`CallReturns` says that then every call returns: `_tryWrite` reconnects at most once and
every packet, batch and chunk is counted. The counting is a property of its own, without
fairness: `CallShrinks` says that each step of a call lowers `StepsToCome`, a number that
is 0 between calls, or leaves the call alone.

## Proofs

Assumptions on the constants: `NULL` is none of the values it stands beside; a device
reports frame sizes from 1 to 255 packets (the spectrometer has 3694 pixels, 124
packets of 30); `LifoMalloc` is a Boolean. Sizes of flash, packet and chunk are positive,
a batch is shorter than `REMAINING_PACKETS_ERROR`, offsets lie in the flash (`flash.py`
checks them); the defaults and zeros of the Python copies are among the values of the
settings, and no frame size is 0. All else is arbitrary.

The device context:

* `TypeCorrect`: `Spec => []TypeOK`, for any allocator. The type of `heap` after a
  reconnection depends on `ctx` being a block while a call runs, so the invariant is
  `TypeInv`, `TypeOK` with `StackOK`: which functions are on the stack at each step.
* `ContextSound`: `MemorySound`, `HandleSound`, `SerialSound` and `FrameSound`, for any
  allocator. They say of `ExposedSpec` that until `exposed` `NoUseAfterFree`, `HandleOpen`,
  `SerialNamesDevice` and `FrameCopied` hold. None of them
  is inductive. `MemoryInv` adds that every pointer on the stack equals `ctx` (`PointersOK`)
  and that past the test of the handle the context's handle is one that `hid_open` returned
  (`ContextOK`). A step that is not `Exposing` and connects through a live context either
  leaves a live context at the same address or happens while no function holds the old
  one and `ctx` gets the new one: so the copies stay right. `FrameInv` relates the counters
  of the packet loop to the context's frame size, `copied = min(received * 30, pixels)`; a
  reconnection clears the size before a packet is read, and `PacketsCover` shows that the
  8-bit, rounded-up count of packets covers the frame.
* `CallsShrink`: `CallShrinks`, for any allocator. Besides `TypeInv` it needs `LoopOK`:
  replies are counted in the loops only, and up to the number that was asked for.

The exchange:

* `ExchangeTypeCorrect`: `TypeOK` of `ReportExchange`, from `TypeInv`, which adds what a
  call under way has asked for (`CallOK`): its own request or, inside a `getFrame`, the
  one for the frame format.
* `FramesWhole`: `FrameNotTorn`, for any number of sessions and replies of any age. A
  packet names its command and the count of packets left, not its frame, so the argument
  is about the queues: `FramesOK` says that in every queue a packet that is not the last of
  its frame is followed by the next one (`Whole`), also where an earlier call has
  taken the first packets of the frame; and that while a frame is read the head of the
  queue continues it.
* `SizeNeverStale`: with one session, `FrameSizeCurrent`, also when replies are late and
  failed writes arrive. The invariant has to say what is wrong while it is wrong: a
  session is in step (`InStep`: its request is the last the device has and the only one
  it answers, or the queue holds exactly the packets of the answer that are still to
  come) or behind (`Behind`: more answers are there or to come than the call will take).
  One that is behind stays so until a reconnection, which clears the size; one that is in
  step has the device's size, or will when the answer is read or `reset()` has written it
  (`Known`, `Fits`), or has sent a `resetDevice` whose caller did not write it: the theorem
  excepts that session until its next answer with a format or its next reconnection.
* `AnswersAreOwn`: with one session and replies in time, `OwnAnswer`. Then nobody is
  behind.
* `CallsImplemented`: under the same two assumptions, `Implements`. There is one lemma per
  action (`BeginAsks` ... `BusCalls`), each naming the step of `DeviceCalls` it is mapped
  to, or none.

Both assumptions of the last two are needed. The run `TwoSessions` shows that a second
session takes the first one's answers, and with `Late` a call gets the answer that came
too late for the one before: that is the protocol, in which a reply names its command
only. Nothing in the library keeps a second session off a device, so one session is an
assumption about its callers. `SizeNeverStale` makes it as well: the device's frame size
is anybody's to set.

Flash transfers:

* `FlashTypeCorrect`, `WritesComplete`, `WritesInOrder`: `TypeOK`, `WriteComplete` and
  `WrittenInOrder` of `FlashTransfer`. What is programmed depends on the request that is
  under way, so `WriteInv` has `OneChunk`: of the reports of this `writeFlash` there is
  at most one, in one of the two queues; while it is the request, it holds the chunk that
  comes next and the chunks before it are programmed; while it is an acknowledgement the
  chunk is programmed too. `ChunksOK` relates the counters (`inc + left = len`),
  `Outside` says that no report of a write outlives its call. `WrittenInOrder` then holds
  at every step, so also where the call fails.
* `ReadsExact`: `ReadExact`. `ReadInv` relates the counters of the two loops to the
  buffer, whose first `total` bytes are those of flash (`PacketsOK`, `BufferOK`); says that
  the request for a batch is the last the device has and comes before the packets that
  answer it (`RequestOK`); and that the call's packets in the queue are numbered downwards,
  each with the place its number gives it and the bytes of flash (`ReportsOK`). Order and
  count together leave no gap: the packet that is read can only be the next one. A write
  left behind by an earlier call may still change the flash, but only before the device
  gets to the batch. All of it holds of a call that has taken nobody else's report.
* `TransfersShrink`: `CallShrinks` of `FlashTransfer`, from both invariants, whatever the
  call has taken.

Python and the example:

* `SettingsCorrect`: `TypeOK`, `CopiesCurrent`, `MemoryFollowsMode` and
  `FrameFillsBuffer` of `Spectrometer`, from `SettingsInv`, which adds `ContextInv`: what
  is trusted was read or sent since the device was last lost; while the format is trusted
  and the context has no frame size, no answer in the queue has another format (`Fresh`),
  so the next one read makes the size right; and a buffer made when the size was not 0 is as large as the context's frame
  until `cleared`. The proof follows every way a call can end: returned on the handle, on
  a new one, with the answer of a call before it, or raised with the device obeying or
  not. `SettersLocal`, the action property, follows from `CopiesCurrent`.
* `NobodyEverMeasures`: for every number of devices above one, the barrier of the example
  stays closed and no thread times or reads its last frame. `BarrierInv` says that a
  thread before the barrier has its whole count, which one step of `Barrier` cannot bring
  to 0, and that one that reads a frame is not at its last.

Only model-checked: `CallReturns` of both modules. That a call under way has a step to
take, which is what turns `CallShrinks` and the fairness into it, is about `ENABLED`,
which TLAPS does not reason about, and that the measure ends is an induction over it. The
runs that find a disagreement are counterexamples and have nothing to prove, but for
`Barrier`, whose finding `NobodyEverMeasures` gives for every number of devices above one.

## Not modelled

* Device lists, bindings and build files have no state worth a model.
* `ExternalTrigger` keeps two copies and sends both from each setter, as `Spectrometer`
  does with four; nothing in the repository makes one. `OpticalTrigger` is empty.
* `read_flash_example` of the example is commented out. (It compares the result of
  `Flash.erase` with 0; the method returns `None`, so it takes every erasure for failed.)
* Of the firmware, when frames are ready, what a full memory does and how pixels come to
  be; of hidapi, more than the order of the reports in a queue.
* Two threads on one context: nothing in the repository does that.

## Plan

Every property of a passing run that TLAPS can express is a theorem. What is left:

1. `MCAskedDevice`, `OneOpenHandle`: what does hold. A context opened for a serial number
   keeps the promise until the first failed reconnection, and a connection leaks one
   handle at most; both would be invariants of `DeviceContext` with a history variable.
2. `ReportExchange` with several sessions and frame formats that nobody sets: which part
   of `OwnAnswer` survives.
