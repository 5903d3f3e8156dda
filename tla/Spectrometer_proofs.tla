------------------------ MODULE Spectrometer_proofs ------------------------
(***************************************************************************)
(* The copies of a Spectrometer, its memory and its buffers, for every set *)
(* of settings and every frame size of a format.                           *)
(***************************************************************************)
EXTENDS Spectrometer, QueueLemmas

\* Every answer with a frame format in the queue q has the device's.
Fresh(q) == \A i \in DOMAIN q : q[i].cmd = "getFormat" => q[i].fmt = devFmt

\* connect() trusts each group once it has it; the rows of a buffer are as large as
\* the context's frame size until that is lost; and a getFrame that asks for the
\* format takes no answer from before a change of it.
ContextInv ==
  /\ ~attached => trusted = {}
  /\ pc = "getAcquisition" => trusted = {}
  /\ link = "zero" => pixels = 0
  /\ pc # "frames" => filled = NULL
  /\ pc = "frames" /\ ~cleared => buf = pixels /\ pixels # 0 /\ filled \in {NULL, buf}
  /\ "fmt" \in trusted /\ pixels = 0 => Fresh(late)

SettingsInv == TypeOK /\ CopiesCurrent /\ MemoryFollowsMode /\ FrameFillsBuffer /\ ContextInv

\* What a call leaves of the context that writes no frame size into it.
Kept ==
  /\ link' \in {"zero", "none", "open", "dead"} /\ pixels' \in {0, pixels}
  /\ late' \in Seq(AnswerType)
  /\ link' = "open" => attached
  /\ link' # "open" => late' = <<>>
  /\ link' \in {"zero", "none"} => pixels' = 0
  /\ link' = "zero" <=> link = "zero"
  /\ "fmt" \in trusted /\ pixels' = 0 => Fresh(late')

Setting == {"num_of_scans", "num_of_blank_scans", "scan_mode", "exposure_time"}

-----------------------------------------------------------------------------
\* The settings of each group, by name.
LEMMA Settings ==
  /\ DOMAIN DefaultAcquisition = Setting
  /\ DOMAIN DefaultFormat = {"element_range", "reduction_mode"}
  /\ ZeroAcquisition = [num_of_scans |-> 0, num_of_blank_scans |-> 0,
                        scan_mode |-> 0, exposure_time |-> 0]
  /\ ZeroFormat = [element_range |-> 0, reduction_mode |-> 0]
BY DEF DefaultAcquisition, DefaultFormat, ZeroAcquisition, ZeroFormat, Setting

\* The constants a copy can hold are of its type.
LEMMA Typed ==
  /\ DefaultAcquisition \in Acquisition /\ ZeroAcquisition \in Acquisition
  /\ DefaultFormat \in Format /\ ZeroFormat \in Format
  /\ \A s \in Format : FrameSize[s] \in Nat /\ FrameSize[s] # 0
  /\ NULL \notin Acquisition /\ NULL \notin Format /\ NULL \notin Nat
BY SettingsAssumption

\* A setter sends acquisition parameters: its copies but for the new value, and
\* for the blank scans if it is averaging.
LEMMA SentTyped ==
  ASSUME acq \in Acquisition, NEW f \in Setting, NEW v \in Value(f)
  PROVE  /\ Sent(f, v) \in Acquisition
         /\ f # "scan_mode" => Sent(f, v).scan_mode = acq.scan_mode
         /\ \A g \in Setting \ {f} :
              \/ Sent(f, v)[g] = acq[g]
              \/ f = "scan_mode" /\ v = FRAME_AVERAGING /\ g = "num_of_blank_scans"
<1>1. 0 \in BlankScans
  BY Settings, Typed DEF Acquisition
<1>2. CASE f = "num_of_scans"
  BY <1>2 DEF Sent, Value, Acquisition, Setting
<1>3. CASE f = "num_of_blank_scans"
  BY <1>3 DEF Sent, Value, Acquisition, Setting
<1>4. CASE f = "scan_mode"
  BY <1>1, <1>4 DEF Sent, Value, Acquisition, Setting
<1>5. CASE f = "exposure_time"
  BY <1>5 DEF Sent, Value, Acquisition, Setting
<1> QED
  BY <1>2, <1>3, <1>4, <1>5 DEF Setting

\* The same for the frame format.
LEMMA FormatTyped ==
  ASSUME fmt \in Format, NEW f \in DOMAIN DefaultFormat, NEW v \in Value(f)
  PROVE  [fmt EXCEPT ![f] = v] \in Format
<1>1. CASE f = "element_range"
  BY <1>1 DEF Value, Format
<1>2. CASE f = "reduction_mode"
  BY <1>2 DEF Value, Format
<1> QED
  BY <1>1, <1>2, Settings

\* The empty queue is one of answers, and fresh.
LEMMA EmptyFresh == <<>> \in Seq(AnswerType) /\ Fresh(<<>>)
BY EmptySeq DEF Fresh

\* An answer is of its type.
LEMMA AnswerTyped ==
  ASSUME NEW c \in {"setAcquisition", "getAcquisition", "setFormat", "getFormat", "getFrame",
                    "query"},
         NEW ok \in BOOLEAN, NEW s \in Format \cup {NULL},
         c \in {"setFormat", "getFormat"} /\ ok => s \in Format
  PROVE  Answer(c, ok, s) \in AnswerType
BY DEF Answer, AnswerType

\* What a request finds on the handle it is written to.
LEMMA WayFound ==
  ASSUME TypeOK, NEW a, NEW w \in Ways(a)
  PROVE  /\ attached /\ link # "zero"
         /\ \/ w.size = pixels /\ w.ahead = late
            \/ w.size = 0 /\ w.ahead \in {<<>>, <<a>>}
<1>1. CASE link = "open"
  <2>1. \/ w = [size |-> pixels, ahead |-> late]
        \/ w = [size |-> 0, ahead |-> <<>>]
        \/ w = [size |-> 0, ahead |-> <<a>>]
    BY <1>1 DEF Ways
  <2>2. CASE w = [size |-> pixels, ahead |-> late]
    BY <1>1, <2>2 DEF TypeOK
  <2>3. CASE w = [size |-> 0, ahead |-> <<>>]
    BY <1>1, <2>3 DEF TypeOK
  <2>4. CASE w = [size |-> 0, ahead |-> <<a>>]
    BY <1>1, <2>4 DEF TypeOK
  <2> QED
    BY <2>1, <2>2, <2>3, <2>4
<1>2. CASE link \in {"dead", "none"}
  <2>1. attached
    BY <1>2 DEF Ways
  <2>2. \/ w = [size |-> 0, ahead |-> <<>>]
        \/ w = [size |-> 0, ahead |-> <<a>>]
    BY <1>2, <2>1 DEF Ways
  <2>3. CASE w = [size |-> 0, ahead |-> <<>>]
    BY <1>2, <2>1, <2>3
  <2>4. CASE w = [size |-> 0, ahead |-> <<a>>]
    BY <1>2, <2>1, <2>4
  <2> QED
    BY <2>2, <2>3, <2>4
<1>3. CASE link = "zero"
  BY <1>3 DEF Ways
<1> QED
  BY <1>1, <1>2, <1>3 DEF TypeOK

\* Its types.
LEMMA WayTyped ==
  ASSUME TypeOK, NEW a \in AnswerType, NEW w \in Ways(a)
  PROVE  /\ w.size \in Nat /\ w.size \in {0, pixels} /\ w.ahead \in Seq(AnswerType)
         /\ attached /\ link # "zero"
         /\ \/ w.size = pixels /\ w.ahead = late
            \/ w.size = 0 /\ w.ahead \in {<<>>, <<a>>}
<1>1. /\ <<a>> \in Seq(AnswerType) /\ <<>> \in Seq(AnswerType) /\ late \in Seq(AnswerType)
      /\ pixels \in Nat /\ 0 \in Nat
  BY EmptySeq DEF TypeOK
<1> QED
  BY <1>1, WayFound, Zenon

\* The queue a call finds, and what it takes from it; without an older answer, its
\* own.
LEMMA QueueTyped ==
  ASSUME TypeOK, ContextInv, NEW a \in AnswerType, NEW w \in Ways(a)
  PROVE  /\ Queue(a, w) \in Seq(AnswerType) /\ Queue(a, w) # <<>>
         /\ Took(a, w) \in AnswerType /\ Tail(Queue(a, w)) \in Seq(AnswerType)
         /\ w.ahead = <<>> => Took(a, w) = a
<1>1. w.ahead \in Seq(AnswerType)
  BY WayTyped
<1>2. /\ Queue(a, w) \in Seq(AnswerType) /\ Len(Queue(a, w)) = Len(w.ahead) + 1
      /\ Len(w.ahead) \in Nat /\ Queue(a, w)[Len(w.ahead) + 1] = a
  BY <1>1, Appended DEF Queue
<1>3. Queue(a, w) # <<>>
  BY <1>2, EmptySeq
<1>4. /\ Took(a, w) \in AnswerType /\ Tail(Queue(a, w)) \in Seq(AnswerType)
      /\ Took(a, w) = Queue(a, w)[1]
  BY <1>2, <1>3, Taken DEF Took
<1>5. w.ahead = <<>> => Len(w.ahead) = 0
  BY EmptySeq
<1> QED
  BY <1>2, <1>3, <1>4, <1>5

\* While the format is trusted, no call that finds a context without a frame size
\* takes or leaves an answer with another one.
LEMMA QueueFresh ==
  ASSUME TypeOK, ContextInv, "fmt" \in trusted,
         NEW a \in AnswerType, a.cmd = "getFormat" => a.fmt = devFmt,
         NEW w \in Ways(a), w.size = 0
  PROVE  /\ Fresh(Queue(a, w)) /\ Fresh(Tail(Queue(a, w)))
         /\ Took(a, w).cmd = "getFormat" => Took(a, w).fmt = devFmt
<1>1. w.ahead \in Seq(AnswerType) /\ ((w.ahead = late /\ pixels = 0) \/ w.ahead \in {<<>>, <<a>>})
  BY WayTyped
<1>2. Fresh(<<a>>)
  BY DEF Fresh
<1>3. Fresh(w.ahead)
  BY <1>1, <1>2, EmptyFresh DEF ContextInv
<1>4. Fresh(Queue(a, w))
  BY <1>1, <1>3, Appended DEF Queue, Fresh
<1>5. /\ Took(a, w) = Queue(a, w)[1] /\ 1 \in DOMAIN Queue(a, w)
      /\ \A i \in DOMAIN Tail(Queue(a, w)) :
           i + 1 \in DOMAIN Queue(a, w) /\ Tail(Queue(a, w))[i] = Queue(a, w)[i + 1]
  BY QueueTyped, Taken DEF Took
<1> QED
  BY <1>4, <1>5 DEF Fresh

\* A call that returns leaves an open handle and the frame size it says.
LEMMA CallReturned ==
  ASSUME TypeOK, ContextInv,
         NEW a \in AnswerType, a.cmd = "getFormat" => a.fmt = devFmt,
         NEW w \in Ways(a), NEW p, Returned(a, w, p)
  PROVE  /\ link' = "open" /\ attached /\ link # "zero" /\ pixels' = p
         /\ late' \in Seq(AnswerType)
         /\ Took(a, w).cmd = a.cmd /\ Took(a, w).ok
         /\ "fmt" \in trusted /\ w.size = 0 => Fresh(late')
<1>1. "fmt" \in trusted /\ w.size = 0 => Fresh(late')
  BY QueueFresh DEF Returned
<1> QED
  BY <1>1, WayTyped, QueueTyped DEF Returned, Accepted

\* One that writes no frame size keeps that of the context or clears it.
LEMMA CallKept ==
  ASSUME TypeOK, ContextInv,
         NEW a \in AnswerType, a.cmd = "getFormat" => a.fmt = devFmt,
         NEW w \in Ways(a), Returned(a, w, w.size)
  PROVE  Kept /\ link' = "open" /\ attached
BY CallReturned, WayTyped DEF Kept

\* A call that raises does too.
LEMMA BrokenKept ==
  ASSUME TypeOK, ContextInv, NEW ok, Broken(ok)
  PROVE  Kept
BY EmptyFresh DEF Broken, Blank, Kept, context, TypeOK, ContextInv

\* Whatever it took.
LEMMA RaisedKept ==
  ASSUME TypeOK, ContextInv,
         NEW a \in AnswerType, a.cmd = "getFormat" => a.fmt = devFmt, Raised(a)
  PROVE  Kept
<1>1. CASE Broken(a.ok)
  BY <1>1, BrokenKept
<1>2. ASSUME NEW w \in Ways(a), link' = "open", pixels' = w.size,
             late' \in {Tail(Queue(a, w)), Queue(a, w)}
      PROVE  Kept
  <2>1. "fmt" \in trusted /\ w.size = 0 => Fresh(late')
    BY <1>2, QueueFresh
  <2> QED
    BY <1>2, <2>1, WayTyped, QueueTyped DEF Kept
<1> QED
  BY <1>1, <1>2 DEF Raised

\* A context that is left alone is kept.
LEMMA UnchangedKept ==
  ASSUME TypeOK, ContextInv, UNCHANGED context
  PROVE  Kept
BY DEF Kept, TypeOK, ContextInv, context

\* A call of a group that takes its own answer is trusted.
LEMMA Trusted ==
  ASSUME TypeOK, NEW g \in {"acq", "fmt"}, NEW w, Trust(g, w)
  PROVE  /\ trusted' \subseteq {"acq", "fmt"}
         /\ \A h \in {"acq", "fmt"} \ {g} : h \in trusted' <=> h \in trusted
         /\ g \in trusted' => w.ahead = <<>>
BY DEF Trust, TypeOK

\* SettingsInv holds at the start.
LEMMA SettingsInit == Init => SettingsInv
<1> SUFFICES ASSUME Init PROVE SettingsInv
  OBVIOUS
<1>1. [DefaultAcquisition EXCEPT !.scan_mode = FRAME_AVERAGING] \in Acquisition
  BY SettingsAssumption DEF Acquisition, DefaultAcquisition
<1>2. devAcq \in Acquisition
  BY <1>1, Typed DEF Init
<1>3. attached \in BOOLEAN /\ halfway \in BOOLEAN /\ trusted \subseteq {"acq", "fmt"}
  BY DEF Init
<1>4. MaxFrames \in Nat
  BY SettingsAssumption
<1>5. TypeOK
  <2>1. late \in Seq(AnswerType)
    BY EmptyFresh DEF Init
  <2>2. /\ devFmt \in Format /\ link = "zero" /\ pixels = 0
        /\ acq = NULL /\ fmt = NULL /\ size = NULL /\ memory = "Memory"
        /\ pc = "idle" /\ buf = 0 /\ todo = 0 /\ filled = NULL
        /\ late = <<>> /\ cleared = FALSE
    BY DEF Init
  <2>3. 0 \in 0 .. MaxFrames
    BY <1>4
  <2> QED
    BY <1>2, <1>3, <2>1, <2>2, <2>3, Typed, Zenon DEF TypeOK
<1>6. Fresh(late)
  BY EmptyFresh DEF Init
<1>7. ContextInv
  BY <1>6 DEF Init, ContextInv
<1>8. CopiesCurrent /\ MemoryFollowsMode /\ FrameFillsBuffer
  BY DEF Init, CopiesCurrent, MemoryFollowsMode, MemoryFor, FrameFillsBuffer
<1> QED
  BY <1>5, <1>7, <1>8 DEF SettingsInv

-----------------------------------------------------------------------------
(* One lemma per action. *)
\* A step outside memory[...] that leaves the context's frame size as it was or
\* clears it, and trusts no format it did not.
LEMMA Outside ==
  ASSUME SettingsInv, Kept, UNCHANGED <<attached, slice>>,
         pc # "frames", pc' \in {"idle", "getAcquisition", "getFormat"},
         devAcq' \in Acquisition, devFmt' \in Format,
         acq' \in Acquisition \cup {NULL}, acq' = NULL <=> acq = NULL,
         fmt' \in Format \cup {NULL}, size' \in Nat \cup {NULL},
         memory' \in {"Memory", "FakeMemory"}, halfway' \in BOOLEAN,
         trusted' \subseteq {"acq", "fmt"}, ~attached => trusted' = {},
         pc' = "getAcquisition" => trusted' = {},
         "acq" \in trusted' => acq' = devAcq',
         "fmt" \in trusted' => "fmt" \in trusted /\ UNCHANGED <<devFmt, fmt, size>>,
         pc' # "getAcquisition" /\ ~halfway' => memory' = MemoryFor(acq')
  PROVE  SettingsInv'
<1> USE DEF SettingsInv
<1>1. pixels' \in Nat
  BY DEF Kept, TypeOK
<1>2. TypeOK'
  BY <1>1 DEF Kept, TypeOK, slice
<1>3. CopiesCurrent'
  BY DEF CopiesCurrent, Kept
<1>4. MemoryFollowsMode'
  BY DEF MemoryFollowsMode
<1>5. filled' = NULL
  BY DEF ContextInv, slice
<1>6. FrameFillsBuffer'
  BY <1>5 DEF FrameFillsBuffer
<1>7. "fmt" \in trusted' /\ pixels' = 0 => Fresh(late)'
  BY DEF Kept, Fresh
<1>8. ContextInv'
  BY <1>5, <1>7 DEF ContextInv, Kept
<1> QED
  BY <1>2, <1>3, <1>4, <1>6, <1>8

\* A setter of an acquisition parameter leaves copy and device equal if it takes its
\* own answer, and not trusted if it takes another's or raises once obeyed.
LEMMA SetAcquisitionStep ==
  ASSUME SettingsInv, NEW f \in Setting, NEW v \in Value(f), SetAcquisition(f, v)
  PROVE  SettingsInv'
<1>1. TypeOK /\ ContextInv /\ CopiesCurrent /\ MemoryFollowsMode
  BY DEF SettingsInv
<1>2. /\ acq \in Acquisition /\ pc = "idle"
      /\ UNCHANGED <<attached, devFmt, fmt, size, pc, slice>>
  BY <1>1 DEF SetAcquisition, TypeOK
<1>3. /\ Sent(f, v) \in Acquisition
      /\ f # "scan_mode" => Sent(f, v).scan_mode = acq.scan_mode
  BY <1>2, SentTyped
<1> DEFINE a(ok) == Answer("setAcquisition", ok, NULL)
<1>4. PICK ok \in BOOLEAN :
        /\ devAcq' = IF ok THEN Sent(f, v) ELSE devAcq
        /\ \/ /\ \E w \in Ways(a(ok)) : Returned(a(ok), w, w.size) /\ Trust("acq", w)
              /\ acq' = Copies(f, v)
              /\ IF f = "scan_mode" THEN memory' = MemoryFor(acq') /\ halfway' = FALSE
                 ELSE UNCHANGED <<memory, halfway>>
           \/ /\ Raised(a(ok))
              /\ trusted' = IF ok THEN trusted \ {"acq"} ELSE trusted
              /\ UNCHANGED <<acq, memory, halfway>>
  BY DEF SetAcquisition
<1>5. a(ok) \in AnswerType /\ a(ok).cmd = "setAcquisition" /\ a(ok).ok = ok
  BY AnswerTyped DEF Answer
<1> HIDE DEF a
<1>6. devAcq' \in Acquisition /\ fmt \in Format \cup {NULL} /\ size \in Nat \cup {NULL}
      /\ devFmt \in Format
  BY <1>1, <1>3, <1>4 DEF TypeOK
<1>7. CASE /\ \E w \in Ways(a(ok)) : Returned(a(ok), w, w.size) /\ Trust("acq", w)
           /\ acq' = Copies(f, v)
           /\ IF f = "scan_mode" THEN memory' = MemoryFor(acq') /\ halfway' = FALSE
              ELSE UNCHANGED <<memory, halfway>>
  <2>1. PICK w \in Ways(a(ok)) : Returned(a(ok), w, w.size) /\ Trust("acq", w)
    BY <1>7
  <2>2. Kept /\ attached
    BY <1>1, <1>5, <2>1, CallKept
  <2>3. w.ahead = <<>> => ok
    BY <1>1, <1>5, <2>1, QueueTyped DEF Returned, Accepted
  <2>4. acq' = Sent(f, v)
    BY <1>7 DEF Copies
  <2>5. /\ trusted' \subseteq {"acq", "fmt"} /\ ("fmt" \in trusted' => "fmt" \in trusted)
        /\ "acq" \in trusted' => acq' = devAcq'
    BY <1>1, <1>4, <2>1, <2>3, <2>4, Trusted
  <2>6. memory' \in {"Memory", "FakeMemory"} /\ halfway' \in BOOLEAN
    BY <1>1, <1>7 DEF TypeOK, MemoryFor
  <2>7. ~halfway' => memory' = MemoryFor(acq')
    BY <1>1, <1>2, <1>3, <1>7, <2>4, Typed DEF MemoryFollowsMode, MemoryFor
  <2> QED
    BY <1>2, <1>3, <1>6, <2>2, <2>4, <2>5, <2>6, <2>7, Typed, Outside
<1>8. CASE /\ Raised(a(ok))
           /\ trusted' = IF ok THEN trusted \ {"acq"} ELSE trusted
           /\ UNCHANGED <<acq, memory, halfway>>
  <2>1. Kept
    BY <1>1, <1>5, <1>8, RaisedKept
  <2>2. /\ trusted' \subseteq {"acq", "fmt"} /\ ("fmt" \in trusted' => "fmt" \in trusted)
        /\ "acq" \in trusted' => acq' = devAcq'
        /\ ~attached => trusted' = {}
    BY <1>1, <1>4, <1>8 DEF TypeOK, CopiesCurrent, ContextInv
  <2>3. memory' \in {"Memory", "FakeMemory"} /\ halfway' \in BOOLEAN
    BY <1>1, <1>8 DEF TypeOK
  <2>4. ~halfway' => memory' = MemoryFor(acq')
    BY <1>1, <1>2, <1>8 DEF MemoryFollowsMode
  <2> QED
    BY <1>2, <1>6, <1>8, <2>1, <2>2, <2>3, <2>4, Typed, Outside
<1> QED
  BY <1>4, <1>7, <1>8
\* A setter of the frame format brings the size in the context up to date if it
\* takes its own answer.
LEMMA SetFormatStep ==
  ASSUME SettingsInv, NEW f \in DOMAIN DefaultFormat, NEW v \in Value(f), SetFormat(f, v)
  PROVE  SettingsInv'
<1>1. TypeOK /\ ContextInv /\ CopiesCurrent /\ MemoryFollowsMode
  BY DEF SettingsInv
<1> DEFINE sent == [fmt EXCEPT ![f] = v]
           a(ok) == Answer("setFormat", ok, IF ok THEN sent ELSE NULL)
<1>2. /\ fmt \in Format /\ pc = "idle" /\ sent \in Format
      /\ UNCHANGED <<attached, devAcq, acq, memory, pc, slice, halfway>>
  BY <1>1, FormatTyped DEF SetFormat, TypeOK
<1>3. PICK ok \in BOOLEAN :
        /\ devFmt' = IF ok THEN sent ELSE devFmt
        /\ \/ /\ fmt' = sent
              /\ \E w \in Ways(a(ok)) :
                   /\ Returned(a(ok), w, Sized(a(ok), w)) /\ Trust("fmt", w)
                   /\ size' = FrameSize[Took(a(ok), w).fmt]
           \/ /\ Raised(a(ok))
              /\ trusted' = IF ok THEN trusted \ {"fmt"} ELSE trusted
              /\ UNCHANGED <<fmt, size>>
  BY DEF SetFormat
<1>4. /\ a(ok) \in AnswerType /\ a(ok).cmd = "setFormat" /\ a(ok).ok = ok
      /\ ok => a(ok).fmt = sent
  BY <1>2, AnswerTyped DEF Answer
<1> HIDE DEF sent, a
<1>5. /\ devFmt' \in Format /\ size \in Nat \cup {NULL} /\ devAcq \in Acquisition
      /\ acq \in Acquisition \cup {NULL} /\ memory \in {"Memory", "FakeMemory"}
      /\ halfway \in BOOLEAN
  BY <1>1, <1>2, <1>3 DEF TypeOK
<1>6. CASE /\ fmt' = sent
           /\ \E w \in Ways(a(ok)) :
                /\ Returned(a(ok), w, Sized(a(ok), w)) /\ Trust("fmt", w)
                /\ size' = FrameSize[Took(a(ok), w).fmt]
  <2>1. PICK w \in Ways(a(ok)) :
          /\ Returned(a(ok), w, Sized(a(ok), w)) /\ Trust("fmt", w)
          /\ size' = FrameSize[Took(a(ok), w).fmt]
    BY <1>6
  <2>2. /\ link' = "open" /\ attached /\ link # "zero" /\ pixels' = size'
        /\ late' \in Seq(AnswerType)
        /\ Took(a(ok), w).cmd = "setFormat" /\ Took(a(ok), w).ok
    BY <1>1, <1>4, <2>1, CallReturned DEF Sized
  <2>3. Took(a(ok), w).fmt \in Format
    BY <1>1, <1>4, <2>2, QueueTyped DEF AnswerType
  <2>4. size' \in Nat /\ size' # 0
    BY <2>1, <2>3, Typed
  <2>5. /\ trusted' \subseteq {"acq", "fmt"} /\ ("acq" \in trusted' => "acq" \in trusted)
        /\ "fmt" \in trusted' => fmt' = devFmt' /\ size' = FrameSize[devFmt']
    <3>1. w.ahead = <<>> => Took(a(ok), w) = a(ok)
      BY <1>1, <1>4, QueueTyped
    <3>2. w.ahead = <<>> => ok /\ Took(a(ok), w).fmt = sent
      BY <1>4, <2>2, <3>1
    <3> QED
      BY <1>1, <1>3, <1>6, <2>1, <3>2, Trusted
  <2>6. TypeOK'
    BY <1>1, <1>2, <1>5, <1>6, <2>2, <2>4, <2>5 DEF TypeOK, slice
  <2>7. filled' = NULL /\ pixels' # 0
    BY <1>1, <1>2, <2>2, <2>4 DEF ContextInv, slice
  <2>8. CopiesCurrent' /\ MemoryFollowsMode' /\ FrameFillsBuffer' /\ ContextInv'
    BY <1>1, <1>2, <2>2, <2>5, <2>7 DEF CopiesCurrent, MemoryFollowsMode, FrameFillsBuffer,
      ContextInv
  <2> QED
    BY <2>6, <2>8 DEF SettingsInv
<1>7. CASE /\ Raised(a(ok))
           /\ trusted' = IF ok THEN trusted \ {"fmt"} ELSE trusted
           /\ UNCHANGED <<fmt, size>>
  <2>1. Kept
    BY <1>1, <1>4, <1>7, RaisedKept
  <2>2. /\ trusted' \subseteq {"acq", "fmt"} /\ ("acq" \in trusted' => acq' = devAcq')
        /\ "fmt" \in trusted' => "fmt" \in trusted /\ UNCHANGED <<devFmt, fmt, size>>
        /\ ~attached => trusted' = {}
    BY <1>1, <1>2, <1>3, <1>7 DEF TypeOK, CopiesCurrent, ContextInv
  <2>3. ~halfway' => memory' = MemoryFor(acq')
    BY <1>1, <1>2 DEF MemoryFollowsMode
  <2> QED
    BY <1>2, <1>5, <1>7, <2>1, <2>2, <2>3, Outside
<1> QED
  BY <1>3, <1>6, <1>7

\* connect() trusts nothing until it has read it.
LEMMA ConnectStep ==
  ASSUME SettingsInv, Connect
  PROVE  SettingsInv'
<1> USE DEF SettingsInv
<1>1. TypeOK'
  <2>1. CASE attached /\ Blank("open") /\ acq' = ZeroAcquisition /\ pc' = "getAcquisition"
    BY <2>1, Typed, EmptyFresh DEF Connect, Blank, TypeOK, device, slice
  <2>2. CASE Blank(IF link = "zero" THEN "zero" ELSE "none") /\ UNCHANGED <<acq, pc>>
    BY <2>2, EmptyFresh DEF Connect, Blank, TypeOK, device, slice
  <2> QED
    BY <2>1, <2>2 DEF Connect
<1>2. CopiesCurrent' /\ FrameFillsBuffer' /\ ContextInv'
  BY DEF Connect, Blank, CopiesCurrent, FrameFillsBuffer, ContextInv, slice
<1>3. MemoryFollowsMode'
  BY DEF Connect, MemoryFollowsMode
<1> QED
  BY <1>1, <1>2, <1>3

\* connect trusts the acquisition parameters it has read.
LEMMA GetAcquisitionStep ==
  ASSUME SettingsInv, GetAcquisition
  PROVE  SettingsInv'
<1>1. TypeOK /\ ContextInv /\ CopiesCurrent
  BY DEF SettingsInv
<1> DEFINE a == Answer("getAcquisition", TRUE, NULL)
<1>2. a \in AnswerType /\ a.cmd = "getAcquisition"
  BY AnswerTyped DEF Answer
<1>3. /\ pc = "getAcquisition" /\ UNCHANGED <<device, slice>> /\ trusted = {}
      /\ acq # NULL => link # "zero"
  BY <1>1 DEF GetAcquisition, ContextInv, TypeOK
<1>4. devAcq' \in Acquisition /\ devFmt' \in Format /\ UNCHANGED attached
  BY <1>1, <1>3 DEF TypeOK, device
<1>5. CASE /\ \E w \in Ways(a) : Returned(a, w, w.size) /\ Trust("acq", w)
           /\ acq' = devAcq /\ memory' = MemoryFor(acq')
           /\ fmt' = ZeroFormat /\ size' = 0
           /\ halfway' = FALSE
           /\ pc' = "getFormat"
  <2>1. PICK w \in Ways(a) : Returned(a, w, w.size) /\ Trust("acq", w)
    BY <1>5
  <2>2. Kept /\ attached /\ link # "zero"
    BY <1>1, <1>2, <2>1, CallKept, WayTyped
  <2>3. trusted' \subseteq {"acq", "fmt"} /\ "fmt" \notin trusted'
    BY <1>1, <1>3, <2>1, Trusted
  <2>4. memory' \in {"Memory", "FakeMemory"} /\ halfway' \in BOOLEAN
    BY <1>5 DEF MemoryFor
  <2>5. acq' = devAcq' /\ acq' # NULL /\ acq # NULL
    BY <1>1, <1>3, <1>4, <1>5, <2>2, Typed DEF device, TypeOK
  <2> QED
    BY <1>3, <1>4, <1>5, <2>2, <2>3, <2>4, <2>5, Typed, Outside
<1>6. CASE /\ Raised(a)
           /\ halfway' = TRUE /\ pc' = "idle"
           /\ UNCHANGED <<copies, memory, trusted>>
  <2>1. Kept
    BY <1>1, <1>2, <1>6, RaisedKept
  <2>2. /\ acq' \in Acquisition \cup {NULL} /\ fmt' \in Format \cup {NULL}
        /\ size' \in Nat \cup {NULL} /\ memory' \in {"Memory", "FakeMemory"}
        /\ halfway' \in BOOLEAN /\ trusted' = {} /\ acq' = acq
    BY <1>1, <1>3, <1>6 DEF TypeOK, copies
  <2> QED
    BY <1>3, <1>4, <1>6, <2>1, <2>2, Outside
<1> HIDE DEF a
<1> QED
  BY <1>5, <1>6 DEF GetAcquisition, a

\* connect trusts the frame format it has read, with the context's frame size, if
\* the answer is its own.
LEMMA GetFormatStep ==
  ASSUME SettingsInv, GetFormat
  PROVE  SettingsInv'
<1>1. TypeOK /\ ContextInv /\ CopiesCurrent /\ MemoryFollowsMode
  BY DEF SettingsInv
<1> DEFINE a == Answer("getFormat", TRUE, devFmt)
<1>2. a \in AnswerType /\ a.cmd = "getFormat" /\ a.fmt = devFmt
  BY <1>1, AnswerTyped DEF Answer, TypeOK
<1>3. pc = "getFormat" /\ pc' = "idle" /\ UNCHANGED <<device, acq, memory, slice, halfway>>
  BY DEF GetFormat
<1>4. \/ \E w \in Ways(a) :
           LET p == FrameSize[Took(a, w).fmt]
           IN /\ Returned(a, w, p) /\ Trust("fmt", w)
              /\ fmt' = Took(a, w).fmt /\ size' = p
      \/ Raised(a) /\ UNCHANGED <<fmt, size, trusted>>
  BY DEF GetFormat
<1> HIDE DEF a
<1>5. ASSUME NEW w \in Ways(a), Returned(a, w, FrameSize[Took(a, w).fmt]), Trust("fmt", w),
             fmt' = Took(a, w).fmt, size' = FrameSize[Took(a, w).fmt]
      PROVE  SettingsInv'
  <2>1. /\ link' = "open" /\ attached /\ link # "zero" /\ pixels' = size'
        /\ late' \in Seq(AnswerType)
        /\ Took(a, w).cmd = "getFormat" /\ Took(a, w).ok
    BY <1>1, <1>2, <1>5, CallReturned
  <2>2. fmt' \in Format
    BY <1>1, <1>2, <1>5, <2>1, QueueTyped DEF AnswerType
  <2>3. size' \in Nat /\ size' # 0
    BY <1>5, <2>2, Typed
  <2>4. /\ trusted' \subseteq {"acq", "fmt"} /\ ("acq" \in trusted' => "acq" \in trusted)
        /\ "fmt" \in trusted' => fmt' = devFmt' /\ size' = FrameSize[devFmt']
    BY <1>1, <1>2, <1>3, <1>5, QueueTyped, Trusted DEF device
  <2>5. TypeOK'
    BY <1>1, <1>3, <2>1, <2>2, <2>3, <2>4 DEF TypeOK, device, slice
  <2>6. filled' = NULL /\ pixels' # 0
    BY <1>1, <1>3, <2>1, <2>3 DEF ContextInv, slice
  <2>7. CopiesCurrent' /\ MemoryFollowsMode' /\ FrameFillsBuffer' /\ ContextInv'
    BY <1>1, <1>3, <2>1, <2>4, <2>6 DEF CopiesCurrent, MemoryFollowsMode, FrameFillsBuffer,
      ContextInv, device
  <2> QED
    BY <2>5, <2>7 DEF SettingsInv
<1>6. CASE Raised(a) /\ UNCHANGED <<fmt, size, trusted>>
  <2>1. Kept
    BY <1>1, <1>2, <1>6, RaisedKept
  <2>2. /\ devAcq' \in Acquisition /\ devFmt' \in Format /\ acq' \in Acquisition \cup {NULL}
        /\ fmt' \in Format \cup {NULL} /\ size' \in Nat \cup {NULL}
        /\ memory' \in {"Memory", "FakeMemory"} /\ halfway' \in BOOLEAN
        /\ trusted' \subseteq {"acq", "fmt"} /\ UNCHANGED <<attached, devAcq, devFmt>>
    BY <1>1, <1>3, <1>6 DEF TypeOK, device
  <2>3. /\ ~attached => trusted' = {}
        /\ "acq" \in trusted' => acq' = devAcq'
        /\ ~halfway' => memory' = MemoryFor(acq')
    BY <1>1, <1>3, <1>6 DEF ContextInv, CopiesCurrent, MemoryFollowsMode, device
  <2> QED
    BY <1>3, <1>6, <2>1, <2>2, <2>3, Outside
<1> QED
  BY <1>4, <1>5, <1>6

\* disconnect leaves no context, and nothing to trust.
LEMMA DisconnectStep ==
  ASSUME SettingsInv, Disconnect
  PROVE  SettingsInv'
<1> USE DEF SettingsInv
<1>1. TypeOK'
  BY EmptyFresh DEF Disconnect, Blank, TypeOK, device, slice, MemoryFor
<1>2. CopiesCurrent' /\ MemoryFollowsMode' /\ FrameFillsBuffer' /\ ContextInv'
  BY DEF Disconnect, Blank, CopiesCurrent, MemoryFollowsMode, FrameFillsBuffer, ContextInv,
    slice
<1> QED
  BY <1>1, <1>2
\* reset() writes the defaults into the copies it has; a copy it has not ends it.
LEMMA ResetStep ==
  ASSUME SettingsInv, Reset
  PROVE  SettingsInv'
<1>1. TypeOK /\ ContextInv /\ CopiesCurrent /\ MemoryFollowsMode
  BY DEF SettingsInv
<1>2. pc = "idle" /\ UNCHANGED <<attached, pc, slice>>
  BY DEF Reset
<1>3. PICK ok \in BOOLEAN :
       /\ IF ok THEN devAcq' = DefaultAcquisition /\ devFmt' = DefaultFormat
          ELSE UNCHANGED <<devAcq, devFmt>>
       /\ \/ /\ ok
             /\ acq' = DefaultAcquisition
             /\ memory' = MemoryAfterReset /\ halfway' = FALSE
             /\ \E w \in Ways(NULL) :
                  /\ link' = "open" /\ w.ahead \in {late, <<>>} /\ late' = w.ahead
                  /\ pixels' = IF fmt = NULL THEN w.size ELSE ResetSize(w.size)
             /\ IF fmt = NULL THEN trusted' = {"acq"} /\ UNCHANGED <<fmt, size>>
                ELSE /\ trusted' = {"acq", "fmt"}
                     /\ fmt' = DefaultFormat /\ size' = FrameSize[DefaultFormat]
          \/ /\ Broken(ok)
             /\ trusted' = IF ok THEN {} ELSE trusted
             /\ UNCHANGED <<copies, memory, halfway>>
  BY DEF Reset
<1>4. devAcq' \in Acquisition /\ devFmt' \in Format
  BY <1>1, <1>3, Typed DEF TypeOK
<1>5. CASE /\ Broken(ok)
           /\ trusted' = IF ok THEN {} ELSE trusted
           /\ UNCHANGED <<copies, memory, halfway>>
  <2>1. Kept
    BY <1>1, <1>5, BrokenKept
  <2>2. /\ acq' \in Acquisition \cup {NULL} /\ fmt' \in Format \cup {NULL}
        /\ size' \in Nat \cup {NULL} /\ memory' \in {"Memory", "FakeMemory"}
        /\ halfway' \in BOOLEAN /\ trusted' \subseteq {"acq", "fmt"}
        /\ UNCHANGED <<acq, fmt, size>>
    BY <1>1, <1>5 DEF TypeOK, copies
  <2>3. /\ ~attached => trusted' = {}
        /\ "acq" \in trusted' => acq' = devAcq'
        /\ "fmt" \in trusted' => "fmt" \in trusted /\ UNCHANGED <<devFmt, fmt, size>>
        /\ ~halfway' => memory' = MemoryFor(acq')
    BY <1>1, <1>2, <1>3, <1>5, <2>2 DEF ContextInv, CopiesCurrent, MemoryFollowsMode
  <2> QED
    BY <1>2, <1>4, <2>1, <2>2, <2>3, Outside
<1>6. CASE /\ ok
           /\ acq' = DefaultAcquisition
           /\ memory' = MemoryAfterReset /\ halfway' = FALSE
           /\ \E w \in Ways(NULL) :
                /\ link' = "open" /\ w.ahead \in {late, <<>>} /\ late' = w.ahead
                /\ pixels' = IF fmt = NULL THEN w.size ELSE ResetSize(w.size)
           /\ IF fmt = NULL THEN trusted' = {"acq"} /\ UNCHANGED <<fmt, size>>
              ELSE /\ trusted' = {"acq", "fmt"}
                   /\ fmt' = DefaultFormat /\ size' = FrameSize[DefaultFormat]
  <2>1. PICK w \in Ways(NULL) :
          /\ link' = "open" /\ w.ahead \in {late, <<>>} /\ late' = w.ahead
          /\ pixels' = IF fmt = NULL THEN w.size ELSE ResetSize(w.size)
    BY <1>6
  <2>2. attached /\ link # "zero" /\ w.size \in {0, pixels}
    BY <1>1, WayFound
  <2>3. late' \in Seq(AnswerType) /\ pixels' \in Nat
    <3>1. late \in Seq(AnswerType) /\ pixels \in Nat
      BY <1>1 DEF TypeOK
    <3>2. late' \in Seq(AnswerType)
      BY <2>1, <3>1, EmptyFresh
    <3>3. FrameSize[DefaultFormat] \in Nat
      BY Typed
    <3>4. pixels' \in {0, pixels, FrameSize[DefaultFormat]}
      BY <2>1, <2>2 DEF ResetSize
    <3> QED
      BY <3>1, <3>2, <3>3, <3>4
  <2>4. memory' \in {"Memory", "FakeMemory"} /\ memory' = MemoryFor(acq')
    BY <1>6 DEF MemoryAfterReset, MemoryFor
  <2>5. fmt # NULL => pixels' = FrameSize[DefaultFormat] /\ pixels' # 0
    BY <2>1, Typed DEF ResetSize
  <2>6. /\ fmt' \in Format \cup {NULL} /\ size' \in Nat \cup {NULL}
        /\ trusted' \in {{"acq"}, {"acq", "fmt"}} /\ ("fmt" \in trusted' => fmt # NULL)
    BY <1>1, <1>6, Typed DEF TypeOK
  <2>7. TypeOK'
    BY <1>1, <1>2, <1>4, <1>6, <2>1, <2>2, <2>3, <2>4, <2>6, Typed DEF TypeOK, slice
  <2>8. filled' = NULL
    BY <1>1, <1>2 DEF ContextInv, slice
  <2>9. CopiesCurrent' /\ MemoryFollowsMode' /\ FrameFillsBuffer' /\ ContextInv'
    BY <1>1, <1>2, <1>3, <1>6, <2>1, <2>2, <2>4, <2>5, <2>6, <2>8 DEF CopiesCurrent,
      MemoryFollowsMode, FrameFillsBuffer, ContextInv
  <2> QED
    BY <2>7, <2>9 DEF SettingsInv
<1> QED
  BY <1>3, <1>5, <1>6

\* A plain call changes no setting, whether a reconnection clears the frame size or not.
LEMMA QueryStep ==
  ASSUME SettingsInv, Query
  PROVE  SettingsInv'
<1>1. TypeOK /\ ContextInv /\ CopiesCurrent /\ MemoryFollowsMode
  BY DEF SettingsInv
<1> DEFINE a == Answer("query", TRUE, NULL)
<1>2. a \in AnswerType /\ a.cmd = "query"
  BY AnswerTyped DEF Answer
<1>3. /\ pc = "idle" /\ UNCHANGED <<device, copies, memory, pc, slice, trusted, halfway>>
      /\ \/ Raised(a)
         \/ \E w \in Ways(a) : Returned(a, w, w.size)
         \/ UNCHANGED context
  BY DEF Query
<1> HIDE DEF a
<1>4. Kept
  BY <1>1, <1>2, <1>3, RaisedKept, CallKept, UnchangedKept
<1>5. UNCHANGED <<attached, devAcq, devFmt, acq, fmt, size>>
  BY <1>3 DEF device, copies
<1>6. /\ devAcq' \in Acquisition /\ devFmt' \in Format /\ acq' \in Acquisition \cup {NULL}
      /\ fmt' \in Format \cup {NULL} /\ size' \in Nat \cup {NULL}
      /\ memory' \in {"Memory", "FakeMemory"} /\ halfway' \in BOOLEAN
      /\ trusted' \subseteq {"acq", "fmt"}
  BY <1>1, <1>3, <1>5 DEF TypeOK
<1>7. /\ ~attached => trusted' = {}
      /\ "acq" \in trusted' => acq' = devAcq'
      /\ ~halfway' => memory' = MemoryFor(acq')
  BY <1>1, <1>3, <1>5 DEF ContextInv, CopiesCurrent, MemoryFollowsMode
<1> QED
  BY <1>3, <1>4, <1>5, <1>6, <1>7, Outside

\* The buffer is as large as the context says after the call of len().
LEMMA GetItemStep ==
  ASSUME SettingsInv, GetItem
  PROVE  SettingsInv'
<1>1. TypeOK /\ ContextInv /\ CopiesCurrent /\ MemoryFollowsMode
  BY DEF SettingsInv
<1> DEFINE a == Answer("query", TRUE, NULL)
<1>2. a \in AnswerType /\ a.cmd = "query"
  BY AnswerTyped DEF Answer
<1>3. /\ pc = "idle" /\ UNCHANGED <<device, copies, memory, filled, trusted, halfway>>
      /\ \/ /\ \/ \E w \in Ways(a) : Returned(a, w, w.size)
               \/ UNCHANGED context
            /\ todo' \in 0 .. MaxFrames
            /\ pc' = "frames" /\ buf' = BufferSize /\ cleared' = (pixels' = 0)
         \/ Raised(a) /\ UNCHANGED <<pc, buf, todo, cleared>>
  <2>1. 1 \in 0 .. MaxFrames
    BY SettingsAssumption
  <2> HIDE DEF a
  <2> QED
    BY <2>1, Zenon DEF GetItem, a
<1> HIDE DEF a
<1>4. UNCHANGED <<attached, devAcq, devFmt, acq, fmt, size>>
  BY <1>3 DEF device, copies
<1>5. /\ devAcq' \in Acquisition /\ devFmt' \in Format /\ acq' \in Acquisition \cup {NULL}
      /\ fmt' \in Format \cup {NULL} /\ size' \in Nat \cup {NULL}
      /\ memory' \in {"Memory", "FakeMemory"} /\ halfway' \in BOOLEAN
      /\ trusted' \subseteq {"acq", "fmt"}
  BY <1>1, <1>3, <1>4 DEF TypeOK
<1>6. CASE Raised(a) /\ UNCHANGED <<pc, buf, todo, cleared>>
  <2>1. Kept
    BY <1>1, <1>2, <1>6, RaisedKept
  <2>2. /\ ~attached => trusted' = {}
        /\ "acq" \in trusted' => acq' = devAcq'
        /\ ~halfway' => memory' = MemoryFor(acq')
    BY <1>1, <1>3, <1>4 DEF ContextInv, CopiesCurrent, MemoryFollowsMode
  <2>3. UNCHANGED slice
    BY <1>3, <1>6 DEF slice
  <2> QED
    BY <1>3, <1>4, <1>5, <1>6, <2>1, <2>2, <2>3, Outside
<1>7. CASE /\ \/ \E w \in Ways(a) : Returned(a, w, w.size)
              \/ UNCHANGED context
           /\ todo' \in 0 .. MaxFrames
           /\ pc' = "frames" /\ buf' = BufferSize /\ cleared' = (pixels' = 0)
  <2>1. Kept
    BY <1>1, <1>2, <1>7, CallKept, UnchangedKept
  <2>2. pixels' \in Nat /\ pixels' \in {0, pixels} /\ cleared' \in BOOLEAN /\ buf' \in Nat
    BY <1>1, <1>7, <2>1, Typed DEF Kept, TypeOK, BufferSize
  <2>3. ~cleared' => buf' = pixels' /\ pixels' # 0
    BY <1>7, <2>1 DEF Kept, BufferSize
  <2>4. filled' = NULL
    BY <1>1, <1>3 DEF ContextInv
  <2>5. TypeOK'
    BY <1>1, <1>3, <1>4, <1>5, <1>7, <2>1, <2>2, <2>4 DEF TypeOK, Kept
  <2>6. CopiesCurrent' /\ MemoryFollowsMode' /\ FrameFillsBuffer'
    BY <1>1, <1>3, <1>4, <1>7, <2>2, <2>4 DEF CopiesCurrent, MemoryFollowsMode, FrameFillsBuffer
  <2>7. "fmt" \in trusted' /\ pixels' = 0 => Fresh(late)'
    BY <1>3, <1>4, <2>1 DEF Kept, Fresh
  <2>8. ContextInv'
    BY <1>1, <1>3, <1>4, <1>7, <2>1, <2>3, <2>4, <2>7 DEF ContextInv, Kept
  <2> QED
    BY <2>5, <2>6, <2>8 DEF SettingsInv
<1> QED
  BY <1>3, <1>6, <1>7
\* memory[...] that is over, or has raised, leaves no buffer.
LEMMA Left ==
  ASSUME SettingsInv, Kept, Leave, UNCHANGED <<device, copies, memory, trusted, halfway>>,
         pc = "frames"
  PROVE  SettingsInv'
<1>1. TypeOK /\ ContextInv /\ CopiesCurrent /\ MemoryFollowsMode
  BY DEF SettingsInv
<1>2. UNCHANGED <<attached, devAcq, devFmt, acq, fmt, size>>
  BY DEF device, copies
<1>3. 0 \in 0 .. MaxFrames /\ pixels' \in Nat
  BY <1>1, SettingsAssumption DEF Kept, TypeOK
<1>4. TypeOK'
  BY <1>1, <1>2, <1>3 DEF TypeOK, Kept, Leave
<1>5. CopiesCurrent' /\ MemoryFollowsMode' /\ FrameFillsBuffer'
  BY <1>1, <1>2 DEF CopiesCurrent, MemoryFollowsMode, FrameFillsBuffer, Kept, Leave
<1>6. "fmt" \in trusted' /\ pixels' = 0 => Fresh(late)'
  BY <1>2 DEF Kept, Fresh
<1>7. ContextInv'
  BY <1>1, <1>2, <1>6 DEF ContextInv, Kept, Leave
<1> QED
  BY <1>4, <1>5, <1>7 DEF SettingsInv

\* getFrame takes no older answer for the format while that is trusted, so the size
\* it gives back to the context is the device's.
LEMMA FrameFormatStep ==
  ASSUME SettingsInv, FrameFormat
  PROVE  SettingsInv'
<1>1. TypeOK /\ ContextInv /\ CopiesCurrent /\ MemoryFollowsMode /\ FrameFillsBuffer
  BY DEF SettingsInv
<1> DEFINE a == Answer("getFormat", TRUE, devFmt)
<1>2. a \in AnswerType /\ a.cmd = "getFormat" /\ a.fmt = devFmt
  BY <1>1, AnswerTyped DEF Answer, TypeOK
<1>3. /\ pc = "frames" /\ pixels = 0 /\ UNCHANGED <<device, copies, memory, trusted, halfway>>
      /\ \/ /\ \E w \in Ways(a) : Returned(a, w, FrameSize[Took(a, w).fmt])
            /\ UNCHANGED <<pc, slice>>
         \/ Raised(a) /\ Leave
  BY DEF FrameFormat
<1> HIDE DEF a
<1>4. UNCHANGED <<attached, devAcq, devFmt, acq, fmt, size>>
  BY <1>3 DEF device, copies
<1>5. ASSUME NEW w \in Ways(a), Returned(a, w, FrameSize[Took(a, w).fmt]),
             UNCHANGED <<pc, slice>>
      PROVE  SettingsInv'
  <2>1. /\ link' = "open" /\ attached /\ link # "zero" /\ late' \in Seq(AnswerType)
        /\ pixels' = FrameSize[Took(a, w).fmt]
        /\ Took(a, w).cmd = "getFormat" /\ Took(a, w).ok
    BY <1>1, <1>2, <1>5, CallReturned
  <2>2. pixels' \in Nat /\ pixels' # 0
    <3>1. Took(a, w).fmt \in Format
      BY <1>1, <1>2, <1>5, <2>1, QueueTyped DEF AnswerType
    <3> QED
      BY <2>1, <3>1, Typed
  <2>3. "fmt" \in trusted => pixels' = FrameSize[devFmt]
    <3>1. w.size = 0
      BY <1>1, <1>2, <1>3, <1>5, WayTyped
    <3> QED
      BY <1>1, <1>2, <1>5, <2>1, <3>1, QueueFresh
  <2>4. cleared /\ UNCHANGED <<buf, todo, filled, cleared>>
    BY <1>1, <1>3, <1>5 DEF ContextInv, TypeOK, slice
  <2>5. TypeOK'
    BY <1>1, <1>3, <1>4, <1>5, <2>1, <2>2, <2>4 DEF TypeOK
  <2>6. CopiesCurrent' /\ MemoryFollowsMode' /\ FrameFillsBuffer' /\ ContextInv'
    BY <1>1, <1>3, <1>4, <1>5, <2>1, <2>2, <2>3, <2>4 DEF CopiesCurrent, MemoryFollowsMode,
      FrameFillsBuffer, ContextInv
  <2> QED
    BY <2>5, <2>6 DEF SettingsInv
<1>6. CASE Raised(a) /\ Leave
  BY <1>1, <1>2, <1>3, <1>6, RaisedKept, Left
<1> QED
  BY <1>3, <1>5, <1>6

\* getFrame copies as many pixels as the context says once it has written its
\* request: those of the buffer, unless a reconnection has cleared the size.
LEMMA GetFrameStep ==
  ASSUME SettingsInv, GetFrame
  PROVE  SettingsInv'
<1>1. TypeOK /\ ContextInv /\ CopiesCurrent /\ MemoryFollowsMode /\ FrameFillsBuffer
  BY DEF SettingsInv
<1> DEFINE a == Answer("getFrame", TRUE, NULL)
<1>2. a \in AnswerType /\ a.cmd = "getFrame"
  BY AnswerTyped DEF Answer
<1>3. /\ pc = "frames" /\ todo > 0 /\ UNCHANGED <<device, copies, memory, trusted, halfway>>
      /\ \/ /\ \E w \in Ways(a) :
                 /\ Returned(a, w, w.size) /\ filled' = w.size
                 /\ cleared' = (cleared \/ w.size = 0)
            /\ todo' = todo - 1
            /\ UNCHANGED <<pc, buf>>
         \/ Raised(a) /\ Leave
  BY DEF GetFrame
<1> HIDE DEF a
<1>4. UNCHANGED <<attached, devAcq, devFmt, acq, fmt, size>>
  BY <1>3 DEF device, copies
<1>5. ASSUME NEW w \in Ways(a), Returned(a, w, w.size), filled' = w.size,
             cleared' = (cleared \/ w.size = 0),
             todo' = todo - 1, UNCHANGED <<pc, buf>>
      PROVE  SettingsInv'
  <2>1. Kept /\ pixels' = w.size
    BY <1>1, <1>2, <1>5, CallKept DEF Returned
  <2>2. w.size \in Nat /\ w.size \in {0, pixels}
    BY <1>1, <1>2, <1>5, WayTyped
  <2>3. todo' \in 0 .. MaxFrames /\ cleared' \in BOOLEAN
    BY <1>1, <1>3, <1>5, SettingsAssumption DEF TypeOK
  <2>4. ~cleared' => buf' = pixels' /\ pixels' # 0 /\ filled' = buf'
    BY <1>1, <1>3, <1>5, <2>1, <2>2 DEF ContextInv
  <2>5. TypeOK'
    BY <1>1, <1>3, <1>4, <1>5, <2>1, <2>2, <2>3 DEF TypeOK, Kept
  <2>6. CopiesCurrent' /\ MemoryFollowsMode'
    BY <1>1, <1>3, <1>4, <1>5, <2>1, <2>2 DEF CopiesCurrent, MemoryFollowsMode
  <2>7. FrameFillsBuffer'
    BY <1>4, <2>1, <2>4, <2>6 DEF CopiesCurrent, FrameFillsBuffer
  <2>8. "fmt" \in trusted' /\ pixels' = 0 => Fresh(late)'
    BY <1>3, <1>4, <2>1 DEF Kept, Fresh
  <2>9. ContextInv'
    BY <1>1, <1>3, <1>4, <1>5, <2>1, <2>4, <2>8 DEF ContextInv, Kept
  <2> QED
    BY <2>5, <2>6, <2>7, <2>9 DEF SettingsInv
<1>6. CASE Raised(a) /\ Leave
  BY <1>1, <1>2, <1>3, <1>6, RaisedKept, Left
<1> QED
  BY <1>3, <1>5, <1>6

\* The buffer is handed to the caller.
LEMMA GotItemStep ==
  ASSUME SettingsInv, GotItem
  PROVE  SettingsInv'
<1>1. Kept
  BY UnchangedKept DEF GotItem, SettingsInv
<1> QED
  BY <1>1, Left DEF GotItem

\* Nothing is trusted once the device has gone.
LEMMA UnplugStep ==
  ASSUME SettingsInv, Unplug \/ Plug
  PROVE  SettingsInv'
<1> USE DEF SettingsInv
<1>1. CASE Unplug
  <2>1. TypeOK'
    BY <1>1, EmptyFresh DEF Unplug, TypeOK, copies, slice
  <2>2. CopiesCurrent' /\ MemoryFollowsMode' /\ FrameFillsBuffer' /\ ContextInv'
    BY <1>1 DEF Unplug, CopiesCurrent, MemoryFollowsMode, FrameFillsBuffer, ContextInv,
      copies, slice
  <2> QED
    BY <2>1, <2>2
<1>2. CASE Plug
  <2>1. trusted = {}
    BY <1>2 DEF Plug, ContextInv
  <2>2. devAcq' \in Acquisition /\ devFmt' \in Format
    BY <1>2, Typed DEF Plug, TypeOK
  <2>3. TypeOK'
    BY <1>2, <2>2 DEF Plug, TypeOK, context, copies, slice
  <2>4. CopiesCurrent' /\ MemoryFollowsMode' /\ FrameFillsBuffer' /\ ContextInv'
    BY <1>2, <2>1 DEF Plug, CopiesCurrent, MemoryFollowsMode, FrameFillsBuffer, ContextInv,
      context, copies, slice
  <2> QED
    BY <2>3, <2>4
<1> QED
  BY <1>1, <1>2

\* Every step keeps the invariant.
LEMMA SettingsStep ==
  ASSUME SettingsInv, [Next]_vars
  PROVE  SettingsInv'
<1>1. CASE \E f \in DOMAIN DefaultAcquisition : \E v \in Value(f) : SetAcquisition(f, v)
  BY <1>1, Settings, SetAcquisitionStep
<1>2. CASE \E f \in DOMAIN DefaultFormat : \E v \in Value(f) : SetFormat(f, v)
  BY <1>2, SetFormatStep
<1>3. CASE UNCHANGED vars
  BY <1>3 DEF vars, device, context, copies, slice, SettingsInv, TypeOK, CopiesCurrent,
    MemoryFollowsMode, FrameFillsBuffer, ContextInv, Fresh
<1> QED
  BY <1>1, <1>2, <1>3, ConnectStep, GetAcquisitionStep, GetFormatStep, DisconnectStep,
    ResetStep, QueryStep, GetItemStep, FrameFormatStep, GetFrameStep, GotItemStep,
    UnplugStep DEF Next

-----------------------------------------------------------------------------
\* spectrometer.py:55 to 260: the copies equal the device's settings, self.memory
\* is the class its scan mode wants, and a frame fills its buffer exactly, for
\* all settings, in every order of calls, failures, reconnections and late answers.
THEOREM SettingsCorrect ==
  Spec => [](TypeOK /\ CopiesCurrent /\ MemoryFollowsMode /\ FrameFillsBuffer)
<1>1. SettingsInv => TypeOK /\ CopiesCurrent /\ MemoryFollowsMode /\ FrameFillsBuffer
  BY DEF SettingsInv
<1> QED
  BY <1>1, SettingsInit, SettingsStep, PTL DEF Spec

\* spectrometer.py:63, 85, 107, 134: setting one acquisition parameter leaves the
\* others of the device alone, though every setter sends all of them.
THEOREM SettersLocal == Spec => SetterLocal
<1> DEFINE Local ==
      \A f, g \in DOMAIN DefaultAcquisition : \A v \in Value(f) :
        "acq" \in trusted /\ g # f /\ devAcq'[g] # devAcq[g] /\ SetAcquisition(f, v)
        => f = "scan_mode" /\ v = FRAME_AVERAGING /\ g = "num_of_blank_scans"
<1>1. ASSUME SettingsInv PROVE Local
  <2> SUFFICES ASSUME NEW f \in Setting, NEW g \in Setting, NEW v \in Value(f),
                      SetAcquisition(f, v), "acq" \in trusted, g # f
               PROVE  \/ devAcq'[g] = devAcq[g]
                      \/ f = "scan_mode" /\ v = FRAME_AVERAGING /\ g = "num_of_blank_scans"
    BY Settings
  <2>1. acq \in Acquisition \cup {NULL} /\ acq = devAcq
    BY <1>1 DEF SettingsInv, CopiesCurrent, TypeOK
  <2>2. acq \in Acquisition /\ devAcq' \in {devAcq, Sent(f, v)}
    BY <2>1 DEF SetAcquisition
  <2> QED
    BY <2>1, <2>2, SentTyped
<1>2. SettingsInv => [Local]_vars
  BY <1>1
<1> QED
  BY <1>2, SettingsInit, SettingsStep, PTL DEF Spec, SetterLocal

=============================================================================
