---------------------------- MODULE Spectrometer ----------------------------
(***************************************************************************)
(* The Python Spectrometer with its Memory or FakeMemory, used by one      *)
(* thread: the copies of the device's settings it keeps, and the sizes of  *)
(* the buffers it hands to getFrame.                                       *)
(*                                                                         *)
(* A setter compares the new value with its copy, sends every copy of the  *)
(* group with the new value, and updates the copy if nothing raised.  The  *)
(* library may replace its context inside any call (DeviceContext): the    *)
(* new one has no frame size, and Python is not told.  A call takes the    *)
(* first answer in the queue of its handle, which may be one that came     *)
(* after the timeout of an earlier call (ReportExchange).                  *)
(***************************************************************************)
EXTENDS Naturals, Sequences

CONSTANTS
  Scans, BlankScans, Exposure,  \* the values callers set; exposures in 10 us
  ScanMode,                     \* the scan modes
  FRAME_AVERAGING,              \* the averaging one
  ElementRange,                 \* the element ranges, 0 being (0, 0)
  FullRange,                    \* (0, 3647)
  Reduction,                    \* the reduction modes
  FrameSize,                    \* the pixels of a frame of each format
  MaxFrames,                    \* bounds the frames of a slice
  MaxLate,                      \* bounds the answers left in the queue
  NULL

Acquisition ==
  [num_of_scans : Scans, num_of_blank_scans : BlankScans,
   scan_mode : ScanMode, exposure_time : Exposure]
Format == [element_range : ElementRange, reduction_mode : Reduction]

\* What resetDevice sets, and reset() writes into the copies.
DefaultAcquisition ==
  [num_of_scans |-> 1, num_of_blank_scans |-> 0, scan_mode |-> 0, exposure_time |-> 10]
DefaultFormat == [element_range |-> FullRange, reduction_mode |-> 0]

\* New ctypes objects are zero.
ZeroAcquisition == [f \in DOMAIN DefaultAcquisition |-> 0]
ZeroFormat      == [f \in DOMAIN DefaultFormat |-> 0]

ASSUME SettingsAssumption ==
  /\ DefaultAcquisition \in Acquisition /\ ZeroAcquisition \in Acquisition
  /\ DefaultFormat \in Format /\ ZeroFormat \in Format
  /\ FRAME_AVERAGING \in ScanMode \ {0}
  /\ FrameSize \in [Format -> Nat \ {0}]
  /\ MaxFrames \in Nat \ {0} /\ MaxLate \in Nat
  /\ NULL \notin Acquisition \cup Format \cup Nat

VARIABLES
  attached,        \* the device is on the bus
  devAcq, devFmt,  \* its settings
  link,            \* the context: "zero" if ctx is 0, else its handle: "none" if
                   \* NULL, "open", or "dead" once the device has gone
  pixels,          \* numOfPixelsInFrame in the context
  acq,             \* the copies of the acquisition parameters, NULL for None
  fmt,             \* the copies of the element range and the reduction mode
  size,            \* _frame_size
  memory,          \* the class of self.memory
  pc,              \* the step connect() or memory[...] has reached
  buf,             \* the pixels of each row of the buffer memory[...] has made
  todo,            \* the rows still to be filled
  filled,          \* the pixels copied into the row before, NULL if there is none
  late,            \* the answers queued on the handle that no call has taken
  trusted,         \* history: the groups of settings that were read or sent by a
                   \* call that took its own answer, with no later one of the group
                   \* that raised or took another's, lost device or connect()
  halfway,         \* history: a connect() has raised after it zeroed its copies
  cleared          \* history: the context was without a frame size when the buffer
                   \* was made or since

device  == <<attached, devAcq, devFmt>>
context == <<link, pixels, late>>
copies  == <<acq, fmt, size>>
slice   == <<buf, todo, filled, cleared>>
vars    == <<device, context, copies, memory, pc, slice, trusted, halfway>>

-----------------------------------------------------------------------------
Init ==
  /\ attached \in BOOLEAN
  /\ devAcq \in {DefaultAcquisition, [DefaultAcquisition EXCEPT !.scan_mode = FRAME_AVERAGING]}
  /\ devFmt \in Format
  /\ link = "zero" /\ pixels = 0
  /\ acq = NULL /\ fmt = NULL /\ size = NULL
  /\ memory = "Memory"
  /\ pc = "idle" /\ buf = 0 /\ todo = 0 /\ filled = NULL
  /\ late = <<>> /\ cleared = FALSE
  /\ trusted = {} /\ halfway = FALSE

-----------------------------------------------------------------------------
(* A call of the library. *)

\* The device's answer to a request; the answer to one for the frame format has
\* the format.
Answer(c, ok, s) == [cmd |-> c, ok |-> ok, fmt |-> s]

\* The ways a request can be written: on the handle, or on that of a new context,
\* if the handle is NULL or a write on it fails.  A write that fails may yet have
\* reached the device, whose answer a is then ahead of that to the second write.
Ways(a) ==
  CASE link = "open" ->
         {[size |-> pixels, ahead |-> late],
          [size |-> 0, ahead |-> <<>>], [size |-> 0, ahead |-> <<a>>]}
    [] link = "none" /\ attached -> {[size |-> 0, ahead |-> <<>>], [size |-> 0, ahead |-> <<a>>]}
    [] link = "dead" /\ attached -> {[size |-> 0, ahead |-> <<>>]}
    [] OTHER -> {}

\* What the handle's queue then has, and what the call takes: the first.
Queue(a, w) == Append(w.ahead, a)
Took(a, w)  == Head(Queue(a, w))
Accepted(a, w) == Took(a, w).cmd = a.cmd /\ Took(a, w).ok

\* The call returns; p is the frame size it leaves in the context.
Returned(a, w, p) ==
  /\ Accepted(a, w)
  /\ link' = "open" /\ pixels' = p /\ late' = Tail(Queue(a, w))

Blank(l) == link' = l /\ pixels' = 0 /\ late' = <<>>

\* Mutant: a reconnection that fails keeps the frame size.
BrokenKeepingSize(ok) ==
  \/ link = "zero" /\ ~ok /\ UNCHANGED context
  \/ /\ link # "zero" /\ (ok => attached /\ link # "dead")
     /\ link' = "none" /\ UNCHANGED pixels /\ late' = <<>>
  \/ link # "zero" /\ attached /\ Blank("open")

\* The call raises without a successful write: there is no context, or the
\* reconnection fails, or the write after it.  ok says that the device has
\* obeyed a write that hid_write reports as failed, which is none on a dead handle.
Broken(ok) ==
  \/ link = "zero" /\ ~ok /\ UNCHANGED context
  \/ link # "zero" /\ (ok => attached /\ link # "dead") /\ Blank("none")
  \/ link # "zero" /\ attached /\ Blank("open")

\* The call raises: it is broken, or the answer it takes is a refusal or another
\* command's, or none comes in time.
Raised(a) ==
  \/ Broken(a.ok)
  \/ \E w \in Ways(a) :
       /\ link' = "open" /\ pixels' = w.size
       /\ \/ ~Accepted(a, w) /\ late' = Tail(Queue(a, w))
          \/ Len(Queue(a, w)) <= MaxLate /\ late' = Queue(a, w)

\* A group of settings was read or sent, by a call that took its own answer.
Trust(g, w) == trusted' = IF w.ahead = <<>> THEN trusted \cup {g} ELSE trusted \ {g}

-----------------------------------------------------------------------------
(* Setters. *)

\* _set_memory.
MemoryFor(a) == IF a # NULL /\ a.scan_mode = FRAME_AVERAGING THEN "FakeMemory" ELSE "Memory"

\* Mutant: the copy of the blank scans is not cleared.
CopiesKeepingBlank(f, v) == [acq EXCEPT ![f] = v]

\* Mutant: a new scan mode is sent without the exposure.
SentZeroed(f, v) ==
  IF f = "scan_mode" THEN [acq EXCEPT ![f] = v, !.exposure_time = 0] ELSE [acq EXCEPT ![f] = v]

\* What the setter of f sends: its copies and the new value.  Averaging takes no
\* blank scans.
Sent(f, v) ==
  IF f = "scan_mode" /\ v = FRAME_AVERAGING
  THEN [acq EXCEPT ![f] = v, !.num_of_blank_scans = 0]
  ELSE [acq EXCEPT ![f] = v]

\* What the copies are once it is sent.
Copies(f, v) == Sent(f, v)

\* A setter of an acquisition parameter.  One that finds its value in the copy
\* returns at once; one may raise although the device has obeyed.
SetAcquisition(f, v) ==
  /\ pc = "idle" /\ acq # NULL /\ acq[f] # v
  /\ \E ok \in BOOLEAN :
       LET a == Answer("setAcquisition", ok, NULL) IN
       /\ devAcq' = IF ok THEN Sent(f, v) ELSE devAcq
       /\ \/ /\ \E w \in Ways(a) : Returned(a, w, w.size) /\ Trust("acq", w)
             /\ acq' = Copies(f, v)
             /\ IF f = "scan_mode" THEN memory' = MemoryFor(acq') /\ halfway' = FALSE
                ELSE UNCHANGED <<memory, halfway>>
          \/ /\ Raised(a)
             /\ trusted' = IF ok THEN trusted \ {"acq"} ELSE trusted
             /\ UNCHANGED <<acq, memory, halfway>>
  /\ UNCHANGED <<attached, devFmt, fmt, size, pc, slice>>

\* Mutant: setFrameFormat leaves the size in the context as it was.
SizedBase(a, w) == w.size

\* The size setFrameFormat writes into the context: that in the answer it takes.
Sized(a, w) == FrameSize[Took(a, w).fmt]

\* A setter of the element range or of the reduction mode; _frame_size is the size
\* in the same answer.
SetFormat(f, v) ==
  /\ pc = "idle" /\ fmt # NULL /\ fmt[f] # v
  /\ \E ok \in BOOLEAN :
       LET sent == [fmt EXCEPT ![f] = v]
           a == Answer("setFormat", ok, IF ok THEN sent ELSE NULL)
       IN /\ devFmt' = IF ok THEN sent ELSE devFmt
          /\ \/ /\ fmt' = sent
                /\ \E w \in Ways(a) :
                     /\ Returned(a, w, Sized(a, w)) /\ Trust("fmt", w)
                     /\ size' = FrameSize[Took(a, w).fmt]
             \/ /\ Raised(a)
                /\ trusted' = IF ok THEN trusted \ {"fmt"} ELSE trusted
                /\ UNCHANGED <<fmt, size>>
  /\ UNCHANGED <<attached, devAcq, acq, memory, pc, slice, halfway>>

-----------------------------------------------------------------------------
(* connect, disconnect, reset. *)

\* connect() opens the device; the copies become zero.  A context that was there
\* is cleared even if this fails.
Connect ==
  /\ pc = "idle"
  /\ trusted' = {}
  /\ \/ /\ attached /\ Blank("open")
        /\ acq' = ZeroAcquisition /\ pc' = "getAcquisition"
     \/ /\ Blank(IF link = "zero" THEN "zero" ELSE "none")
        /\ UNCHANGED <<acq, pc>>
  /\ UNCHANGED <<device, fmt, size, memory, slice, halfway>>

GetAcquisition ==
  /\ pc = "getAcquisition"
  /\ LET a == Answer("getAcquisition", TRUE, NULL) IN
     \/ /\ \E w \in Ways(a) : Returned(a, w, w.size) /\ Trust("acq", w)
        /\ acq' = devAcq /\ memory' = MemoryFor(acq')
        /\ fmt' = ZeroFormat /\ size' = 0
        /\ halfway' = FALSE
        /\ pc' = "getFormat"
     \/ /\ Raised(a)
        /\ halfway' = TRUE /\ pc' = "idle"
        /\ UNCHANGED <<copies, memory, trusted>>
  /\ UNCHANGED <<device, slice>>

GetFormat ==
  /\ pc = "getFormat" /\ pc' = "idle"
  /\ LET a == Answer("getFormat", TRUE, devFmt) IN
     \/ \E w \in Ways(a) :
          LET p == FrameSize[Took(a, w).fmt]
          IN /\ Returned(a, w, p) /\ Trust("fmt", w)
             /\ fmt' = Took(a, w).fmt /\ size' = p
     \/ Raised(a) /\ UNCHANGED <<fmt, size, trusted>>
  /\ UNCHANGED <<device, acq, memory, slice, halfway>>

\* disconnectDeviceContext reads through ctx, so ctx is not 0.
Disconnect ==
  /\ pc = "idle" /\ link # "zero"
  /\ Blank("zero")
  /\ acq' = NULL /\ fmt' = NULL /\ size' = NULL
  /\ memory' = MemoryFor(acq')
  /\ trusted' = {} /\ halfway' = FALSE
  /\ UNCHANGED <<device, pc, slice>>

\* Mutant: reset() does not look at the memory.
MemoryAfterResetKept == memory

MemoryAfterReset == MemoryFor(DefaultAcquisition)

\* Mutant: reset() leaves the frame size in the context.
ResetSizeKept(p) == p

\* The frame size reset() writes into a context of size p.
ResetSize(p) == FrameSize[DefaultFormat]

\* resetDevice has no answer.  reset() raises halfway if connect() never got to
\* the frame format.
Reset ==
  /\ pc = "idle"
  /\ \E ok \in BOOLEAN :
       /\ IF ok THEN devAcq' = DefaultAcquisition /\ devFmt' = DefaultFormat
          ELSE UNCHANGED <<devAcq, devFmt>>
       /\ \/ /\ ok
             /\ acq' = DefaultAcquisition
             /\ memory' = MemoryAfterReset /\ halfway' = FALSE
             /\ \E w \in Ways(NULL) :
                  /\ link' = "open" /\ w.ahead \in {late, <<>>} /\ late' = w.ahead
                  /\ pixels' = IF fmt = NULL THEN w.size ELSE ResetSize(w.size)
             /\ IF fmt = NULL THEN trusted' = {"acq"} /\ UNCHANGED <<fmt, size>>
                ELSE /\ trusted' = {"acq", "fmt"}
                     /\ fmt' = DefaultFormat /\ size' = FrameSize[DefaultFormat]
          \/ /\ Broken(ok)
             /\ trusted' = IF ok THEN {} ELSE trusted
             /\ UNCHANGED <<copies, memory, halfway>>
  /\ UNCHANGED <<attached, pc, slice>>

\* status(), trigger(), clear() of a Memory and the methods of Flash: a call of the
\* library that leaves the settings alone, whether it raises or not.  Those of
\* Flash never replace an open or dead handle, and may fail on it.
Query ==
  /\ pc = "idle"
  /\ LET a == Answer("query", TRUE, NULL) IN
     \/ Raised(a)
     \/ \E w \in Ways(a) : Returned(a, w, w.size)
     \/ link \in {"open", "dead"} /\ UNCHANGED context
  /\ UNCHANGED <<device, copies, memory, pc, slice, trusted, halfway>>

-----------------------------------------------------------------------------
(* memory[...]. *)

\* get_frame_size.
BufferSize == IF link' = "zero" THEN FrameSize[DefaultFormat] ELSE pixels'

\* The buffer is made: after len(), a call of its own, for a Memory, which may
\* also raise on the index; at once for a FakeMemory.
GetItem ==
  /\ pc = "idle"
  /\ LET a == Answer("query", TRUE, NULL) IN
     \/ /\ memory = "Memory" /\ \E w \in Ways(a) : Returned(a, w, w.size)
        /\ todo' \in 0 .. MaxFrames
        /\ pc' = "frames" /\ buf' = BufferSize /\ cleared' = (pixels' = 0)
     \/ /\ memory = "FakeMemory" /\ UNCHANGED context
        /\ todo' = 1
        /\ pc' = "frames" /\ buf' = BufferSize /\ cleared' = (pixels' = 0)
     \/ /\ memory = "Memory" /\ Raised(a)
        /\ UNCHANGED <<pc, buf, todo, cleared>>
  /\ UNCHANGED <<device, copies, memory, filled, trusted, halfway>>

\* memory[...] is over.
Leave ==
  /\ pc' = "idle" /\ buf' = 0 /\ todo' = 0 /\ filled' = NULL /\ cleared' = FALSE

\* getFrame on a context that has no frame size asks for the format first.
FrameFormat ==
  /\ pc = "frames" /\ todo > 0 /\ pixels = 0
  /\ LET a == Answer("getFormat", TRUE, devFmt) IN
     \/ /\ \E w \in Ways(a) : Returned(a, w, FrameSize[Took(a, w).fmt])
        /\ UNCHANGED <<pc, slice>>
     \/ Raised(a) /\ Leave
  /\ UNCHANGED <<device, copies, memory, trusted, halfway>>

\* getFrame.  The pixels it copies are counted by the frame size the context has
\* once the request is written: none, if that was on a new context.
GetFrame ==
  /\ pc = "frames" /\ todo > 0 /\ pixels # 0
  /\ LET a == Answer("getFrame", TRUE, NULL) IN
     \/ /\ \E w \in Ways(a) :
             /\ Returned(a, w, w.size) /\ filled' = w.size
             /\ cleared' = (cleared \/ w.size = 0)
        /\ todo' = todo - 1
        /\ UNCHANGED <<pc, buf>>
     \/ Raised(a) /\ Leave
  /\ UNCHANGED <<device, copies, memory, trusted, halfway>>

\* The frames are returned.
GotItem ==
  /\ pc = "frames" /\ todo = 0
  /\ Leave
  /\ UNCHANGED <<device, context, copies, memory, trusted, halfway>>

-----------------------------------------------------------------------------
Unplug ==
  /\ attached /\ attached' = FALSE
  /\ link' = IF link = "open" THEN "dead" ELSE link
  /\ late' = <<>> /\ trusted' = {}
  /\ UNCHANGED <<devAcq, devFmt, pixels, copies, memory, pc, slice, halfway>>

\* A device that comes back may have lost its settings.
Plug ==
  /\ ~attached /\ attached' = TRUE
  /\ \/ UNCHANGED <<devAcq, devFmt>>
     \/ devAcq' = DefaultAcquisition /\ devFmt' = DefaultFormat
  /\ UNCHANGED <<context, copies, memory, pc, slice, trusted, halfway>>

\* The values a caller can give each setter.
Value(f) ==
  CASE f = "num_of_scans" -> Scans [] f = "num_of_blank_scans" -> BlankScans
    [] f = "scan_mode" -> ScanMode [] f = "exposure_time" -> Exposure
    [] f = "element_range" -> ElementRange [] f = "reduction_mode" -> Reduction

Next ==
  \/ \E f \in DOMAIN DefaultAcquisition : \E v \in Value(f) : SetAcquisition(f, v)
  \/ \E f \in DOMAIN DefaultFormat : \E v \in Value(f) : SetFormat(f, v)
  \/ Connect \/ GetAcquisition \/ GetFormat \/ Disconnect \/ Reset \/ Query
  \/ GetItem \/ FrameFormat \/ GetFrame \/ GotItem
  \/ Unplug \/ Plug

Spec == Init /\ [][Next]_vars
-----------------------------------------------------------------------------
(* Properties. *)

AnswerType ==
  {a \in [cmd : {"setAcquisition", "getAcquisition", "setFormat", "getFormat", "getFrame",
                 "query"},
          ok : BOOLEAN, fmt : Format \cup {NULL}] :
     a.cmd \in {"setFormat", "getFormat"} /\ a.ok => a.fmt \in Format}

TypeOK ==
  /\ attached \in BOOLEAN /\ devAcq \in Acquisition /\ devFmt \in Format
  /\ link \in {"zero", "none", "open", "dead"} /\ pixels \in Nat
  /\ late \in Seq(AnswerType)
  /\ acq \in Acquisition \cup {NULL} /\ fmt \in Format \cup {NULL}
  /\ size \in Nat \cup {NULL}
  /\ memory \in {"Memory", "FakeMemory"}
  /\ pc \in {"idle", "getAcquisition", "getFormat", "frames"}
  /\ buf \in Nat /\ todo \in 0 .. MaxFrames /\ filled \in Nat \cup {NULL}
  /\ trusted \subseteq {"acq", "fmt"} /\ halfway \in BOOLEAN /\ cleared \in BOOLEAN
  /\ link = "open" => attached
  /\ link # "open" => late = <<>>
  /\ link = "none" => pixels = 0
  /\ acq = NULL <=> link = "zero"

\* The copies are the device's settings, and the frame size in the context is the
\* device's if it has one, whatever was set in whatever order and however often
\* the library connected again, until a call of the group raises although the
\* device obeyed or takes an earlier call's answer, or the device is lost.
CopiesCurrent ==
  /\ "acq" \in trusted => acq = devAcq
  /\ "fmt" \in trusted => fmt = devFmt /\ size = FrameSize[devFmt] /\ pixels \in {0, size}

\* A setter changes one setting of the device: the others, which it sends along,
\* are what they were.  Averaging alone takes the blank scans with it.
SetterLocal ==
  [][\A f, g \in DOMAIN DefaultAcquisition : \A v \in Value(f) :
       "acq" \in trusted /\ g # f /\ devAcq'[g] # devAcq[g] /\ SetAcquisition(f, v)
       => f = "scan_mode" /\ v = FRAME_AVERAGING /\ g = "num_of_blank_scans"]_vars

\* self.memory reads frames the way the scan mode wants it, whatever calls were
\* made or raised, except after a connect() that raised before its _set_memory.
MemoryFollowsMode ==
  pc # "getAcquisition" /\ ~halfway => memory = MemoryFor(acq)

\* A frame is as large as the device's format makes it, and fills its row of the
\* buffer and no more, if the format is trusted and the context had a frame size
\* when the buffer was made and has been the same since.
FrameFillsBuffer ==
  "fmt" \in trusted /\ filled # NULL /\ ~cleared =>
    filled = buf /\ filled = FrameSize[devFmt]

\* memory.py:14, "Frames contain 32 starting, 1 user, 14 final elements": the buffer
\* memory[...] makes has room for the pixels getFrame writes into it.
BufferHoldsFrame == filled # NULL => filled <= buf
=============================================================================
