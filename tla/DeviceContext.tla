--------------------------- MODULE DeviceContext ---------------------------
(***************************************************************************)
(* The device context of libspectrometer and every call that goes through  *)
(* it.                                                                     *)
(*                                                                         *)
(* The caller owns one uintptr_t (ctx) that holds the address of a heap    *)
(* block: the HID handle, the frame size last reported by the device and   *)
(* the saved serial number.  connectToDeviceBySerial and _reconnect free   *)
(* the block and allocate another one; the functions above them keep a     *)
(* local copy of the address (dc) across that call.  A call is a sequence  *)
(* of steps, one per hidapi call, and devices come and go between them.    *)
(* Which reply answers which request is the subject of ReportExchange:     *)
(* here a reply carries any content.                                       *)
(***************************************************************************)
EXTENDS Integers, FiniteSets

CONSTANTS
  Device,           \* the serial numbers of the spectrometers
  Addr,             \* the blocks malloc can return (bounds the leaked blocks)
  Handle,           \* the HID handles the process can hold open at a time
  Format,           \* the frame sizes, in pixels, a device can report
  PixelsPerPacket,  \* NUM_OF_PIXELS_IN_PACKET
  MaxPackets,       \* MAX_PACKETS_IN_FRAME
  MaxChunks,        \* bounds the replies of one flash transfer
  LifoMalloc,       \* malloc returns the block that was freed just before
  NULL

ASSUME NullAssumption == NULL \notin Device \cup Addr \cup Handle

\* A frame fits in the 255 packets uint8_t numOfPacketsToGet can count: a
\* device has 3694 pixels, 124 packets of 30.
ASSUME SizeAssumption ==
  /\ PixelsPerPacket \in Nat \ {0}
  /\ Format \subseteq 1 .. 255 * PixelsPerPacket
  /\ MaxPackets \in Nat
  /\ MaxChunks \in Nat

ASSUME LifoMallocAssumption == LifoMalloc \in BOOLEAN

VARIABLES
  attached,    \* the devices on the bus
  hid,         \* the process's table of HID handles
  heap,        \* the context blocks
  ctx,         \* *deviceContextPtr, the caller's variable
  pc,          \* the step the call under way has reached
  op,          \* the API function under way
  cmd,         \* the request the call is exchanging
  dc,          \* the local deviceContext pointers of the functions on the stack
  want,        \* numOfPacketsToGet; the replies of a flash transfer
  received,    \* numOfPacketsReceived; the replies got
  copied,      \* totalNumOfReceivedPixels
  ret          \* the result of the last call, "none" while one is under way

memory  == <<heap, ctx>>
frame   == <<want, received, copied>>
call    == <<pc, op, cmd, dc, frame, ret>>
vars    == <<attached, hid, memory, call>>

-----------------------------------------------------------------------------
(* Vocabulary. *)

\* The commands of _writeReadFunction; "query" stands for all those whose
\* reply leaves the context alone (setExposure ... eraseFlash).
FormatCmd == {"setFormat", "getFormat"}
ReplyCmd  == FormatCmd \cup {"query"}
\* The commands of _writeOnlyFunction.
SendCmd   == {"trigger", "reset", "detach"}
PlainOp   == ReplyCmd \cup SendCmd
\* The functions with their own transfer loop.
LoopOp    == {"getFrame", "flash"}

Block == [live   : BOOLEAN,
          handle : Handle \cup {NULL},
          pixels : Nat,
          serial : Device \cup {NULL}]

\* Mutant: the two arguments swapped.
ContextSwapped(h, s) == [live |-> TRUE, handle |-> s, pixels |-> 0, serial |-> h]

Context(h, s) == [live |-> TRUE, handle |-> h, pixels |-> 0, serial |-> s]
NULL_DEVICE_CONTEXT == Context(NULL, NULL)
FreeBlock == [NULL_DEVICE_CONTEXT EXCEPT !.live = FALSE]

Closed == [dev |-> NULL, ok |-> FALSE]
NoPointers == [api |-> NULL, format |-> NULL, write |-> NULL]

\* Mutant: the last, partly filled packet is forgotten.
NumOfPacketsDown(n) == (n \div PixelsPerPacket) % 256

\* uint8_t numOfPacketsToGet: the quotient, rounded up, in 8 bits.
NumOfPackets(n) ==
  (n \div PixelsPerPacket + IF n % PixelsPerPacket = 0 THEN 0 ELSE 1) % 256

\* A report goes through, either way, while the device the handle was opened
\* on has stayed on the bus.
Works(h) == h # NULL /\ hid[h].ok

\* d leaves the bus: the handles open on it fail from now on.
Lost(d) == [h \in Handle |-> [hid[h] EXCEPT !.ok = @ /\ hid[h].dev # d]]

Init ==
  /\ attached \in SUBSET Device
  /\ hid = [h \in Handle |-> Closed]
  /\ heap = [a \in Addr |-> FreeBlock]
  /\ ctx = NULL
  /\ pc = "idle" /\ op = "none" /\ cmd = "none" /\ dc = NoPointers
  /\ want = 0 /\ received = 0 /\ copied = 0
  /\ ret = "OK"

-----------------------------------------------------------------------------
(* Connecting.  Both connect functions free the caller's block, allocate a  *)
(* new one and only then try to open the device.                           *)

\* What a freed block holds is nobody's: it is shown as cleared.
Freed == IF ctx = NULL THEN heap ELSE [heap EXCEPT ![ctx] = FreeBlock]

Mallocable == IF LifoMalloc /\ ctx # NULL THEN {ctx}
              ELSE {a \in Addr : ~Freed[a].live}

\* Mutant: the new context takes over the serial number of the old one.
ConnectedKeepingSerial(serial, d) ==
  \E a \in Mallocable, h \in {g \in Handle : hid[g] = Closed} :
    /\ d \in attached
    /\ heap' = [Freed EXCEPT ![a] = Context(h,
                  IF ctx # NULL /\ heap[ctx].serial # NULL THEN heap[ctx].serial ELSE serial)]
    /\ hid' = [hid EXCEPT ![h] = [dev |-> d, ok |-> TRUE]]
    /\ ctx' = a

\* hid_open finds d and the new context replaces the old one.  The handle of
\* the old one is not closed: the NULL_DEVICE_CONTEXT just written hides it.
Connected(serial, d) ==
  \E a \in Mallocable, h \in {g \in Handle : hid[g] = Closed} :
    /\ d \in attached
    /\ heap' = [Freed EXCEPT ![a] = Context(h, serial)]
    /\ hid' = [hid EXCEPT ![h] = [dev |-> d, ok |-> TRUE]]
    /\ ctx' = a

\* Mutant: the failure path frees the new block, and ctx keeps its address.
NotConnectedFreeing == heap' = Freed /\ UNCHANGED hid

\* hid_open fails: the old block is gone, the new one is never handed out.
NotConnected ==
  \E a \in Mallocable :
    /\ heap' = [Freed EXCEPT ![a] = NULL_DEVICE_CONTEXT]
    /\ UNCHANGED hid

\* connectToDeviceBySerial succeeds; no serial means any device.
ConnectedBySerial(serial) ==
  \E d \in attached : serial \in {NULL, d} /\ Connected(serial, d)

connectToDeviceBySerial(serial) ==
  \/ ConnectedBySerial(serial) /\ ret' = "OK"
  \/ NotConnected /\ UNCHANGED ctx /\ ret' = "failed"

\* connectToDeviceByIndex: ctx is zeroed first, so a failure leaves it zero.
connectToDeviceByIndex(d) ==
  \/ Connected(d, d) /\ ret' = "OK"
  \/ NotConnected /\ ctx' = NULL /\ ret' = "failed"

Connect(serial) ==
  /\ pc = "idle"
  /\ \/ connectToDeviceBySerial(serial)
     \/ serial # NULL /\ connectToDeviceByIndex(serial)
  /\ UNCHANGED <<attached, pc, op, cmd, dc, frame>>

\* The header asks for a context a connect function initialised.
disconnectDeviceContext ==
  /\ pc = "idle" /\ ctx # NULL
  /\ hid' = IF heap[ctx].handle = NULL THEN hid
            ELSE [hid EXCEPT ![heap[ctx].handle] = Closed]
  /\ heap' = Freed
  /\ ctx' = NULL
  /\ ret' = "OK"
  /\ UNCHANGED <<attached, pc, op, cmd, dc, frame>>

-----------------------------------------------------------------------------
(* A call: from the API function's first line to its return, which takes    *)
(* the locals with it.  Every error code is "failed": callers test for OK.  *)

Return(code) ==
  /\ pc' = "idle" /\ op' = "none" /\ cmd' = "none" /\ dc' = NoPointers
  /\ want' = 0 /\ received' = 0 /\ copied' = 0
  /\ ret' = code

\* Where the call goes on once the context holds a handle.
Opened(o, c) == IF c # "none" THEN "write"
                ELSE IF o = "flash" THEN "flashWrite" ELSE "size"

\* A call that returns before it reaches the device: the context pointer is
\* zero, or a transfer's buffer is NULL.
Refused ==
  /\ pc = "idle" /\ ret' = "failed"
  /\ UNCHANGED <<attached, hid, memory, pc, op, cmd, dc, frame>>

\* Mutant: the handle is not tested.
BeginPlainUntested(o) ==
  /\ pc = "idle" /\ ctx # NULL
  /\ op' = o /\ cmd' = o
  /\ dc' = [NoPointers EXCEPT !.format = IF o \in FormatCmd THEN ctx ELSE NULL]
  /\ pc' = "write"
  /\ ret' = "none"
  /\ UNCHANGED <<attached, hid, memory, frame>>

\* _writeReadFunction and _writeOnlyFunction, up to the test of the handle;
\* the frame-format commands keep a pointer to the context they started with.
BeginPlain(o) ==
  /\ pc = "idle" /\ ctx # NULL
  /\ op' = o /\ cmd' = o
  /\ dc' = [NoPointers EXCEPT !.format = IF o \in FormatCmd THEN ctx ELSE NULL]
  /\ pc' = IF heap[ctx].handle = NULL THEN "open" ELSE "write"
  /\ ret' = "none"
  /\ UNCHANGED <<attached, hid, memory, frame>>

\* getFrame, readFlash and writeFlash, up to the test of the handle.
BeginLoop(o) ==
  /\ pc = "idle" /\ ctx # NULL
  /\ op' = o
  /\ dc' = [NoPointers EXCEPT !.api = ctx]
  /\ pc' = IF heap[ctx].handle = NULL THEN "open" ELSE Opened(o, "none")
  /\ want' \in IF o = "flash" THEN 0 .. MaxChunks ELSE {0}
  /\ ret' = "none"
  /\ UNCHANGED <<attached, hid, memory, cmd, received, copied>>

\* Mutant: the retry is a whole _tryWrite, with a retry of its own.
reconnectAgain ==
  /\ pc \in {"open", "reopen"}
  /\ \/ /\ ConnectedBySerial(heap[ctx].serial)
        /\ pc' = Opened(op, cmd) /\ UNCHANGED <<op, cmd, dc, frame, ret>>
     \/ NotConnected /\ UNCHANGED ctx /\ Return("failed")
  /\ UNCHANGED attached

\* _reconnect, with the serial number saved in the context: before the first
\* write (then on with the call) or after a failed one (then the retry).
reconnect ==
  /\ pc \in {"open", "reopen"}
  /\ \/ /\ ConnectedBySerial(heap[ctx].serial)
        /\ pc' = IF pc = "open" THEN Opened(op, cmd) ELSE "rewrite"
        /\ UNCHANGED <<op, cmd, dc, frame, ret>>
     \/ NotConnected /\ UNCHANGED ctx /\ Return("failed")
  /\ UNCHANGED attached

\* A device that gets "detach" leaves the bus, one that gets "reset" may.
Receive(d) ==
  \/ cmd # "detach" /\ UNCHANGED <<attached, hid>>
  \/ cmd \in {"detach", "reset"} /\ attached' = attached \ {d} /\ hid' = Lost(d)

\* _tryWrite: the first hid_write, and the one retry after a reconnection.  The
\* handle is read through the pointer taken when _tryWrite began.
tryWrite ==
  /\ pc \in {"write", "rewrite"}
  /\ LET h == heap[IF pc = "write" THEN ctx ELSE dc.write].handle IN
     \/ /\ Works(h) /\ Receive(hid[h].dev)
        /\ IF cmd \in SendCmd THEN Return("OK")
           ELSE /\ pc' = IF cmd = "getFrame" THEN "packet" ELSE "read"
                /\ dc' = [dc EXCEPT !.write = NULL]
                /\ UNCHANGED <<op, cmd, frame, ret>>
     \/ /\ UNCHANGED <<attached, hid>>
        /\ IF pc = "rewrite" THEN Return("failed")
           ELSE /\ pc' = "reopen" /\ dc' = [dc EXCEPT !.write = ctx]
                /\ UNCHANGED <<op, cmd, frame, ret>>
  /\ UNCHANGED memory

\* _tryRead, and what the API function does with the reply.  A read times out, or
\* answers another command or with an error code, at any time.
tryRead ==
  /\ pc = "read"
  /\ \/ Return("failed") /\ UNCHANGED heap
     \/ /\ Works(heap[ctx].handle) /\ cmd = "query"
        /\ Return("OK") /\ UNCHANGED heap
     \/ /\ Works(heap[ctx].handle) /\ cmd \in FormatCmd
        /\ \E n \in Format : heap' = [heap EXCEPT ![dc.format].pixels = n]
        /\ IF op = "getFrame"
           THEN /\ pc' = "request" /\ cmd' = "none"
                /\ dc' = [dc EXCEPT !.format = NULL]
                /\ UNCHANGED <<op, frame, ret>>
           ELSE Return("OK")
  /\ UNCHANGED <<attached, hid, ctx>>

-----------------------------------------------------------------------------
(* getFrame after the handle test.                                         *)

\* The frame size, by a nested getFrameFormat if the context does not have it.
\* A NULL framePixelsBuffer is refused here, after the reconnection.
getFrameSize ==
  /\ pc = "size"
  /\ \/ Return("failed")
     \/ /\ IF heap[dc.api].pixels # 0 THEN pc' = "request" /\ UNCHANGED <<cmd, dc>>
           ELSE /\ pc' = IF heap[ctx].handle = NULL THEN "open" ELSE "write"
                /\ cmd' = "getFormat" /\ dc' = [dc EXCEPT !.format = ctx]
        /\ UNCHANGED <<op, frame, ret>>
  /\ UNCHANGED <<attached, hid, memory>>

\* The number of packets to ask for.
getFrameRequest ==
  /\ pc = "request"
  /\ LET n == NumOfPackets(heap[dc.api].pixels) IN
     IF n > MaxPackets THEN Return("failed")
     ELSE /\ want' = n /\ cmd' = "getFrame" /\ pc' = "write"
          /\ UNCHANGED <<op, dc, received, copied, ret>>
  /\ UNCHANGED <<attached, hid, memory>>

\* One packet.  Its pixels are copied as long as the context's frame size, read
\* again for every pixel, has not been reached.
getFramePacket ==
  /\ pc = "packet" /\ received < want
  /\ \/ Return("failed")
     \/ /\ Works(heap[dc.api].handle)
        /\ received' = received + 1
        /\ copied' = LET n == heap[dc.api].pixels IN
             IF n <= copied THEN copied
             ELSE IF n < copied + PixelsPerPacket THEN n ELSE copied + PixelsPerPacket
        /\ UNCHANGED <<pc, op, cmd, dc, want, ret>>
  /\ UNCHANGED <<attached, hid, memory>>

\* continueGetInReport is false.
getFrameDone ==
  /\ pc = "packet" /\ received = want
  /\ Return("OK")
  /\ UNCHANGED <<attached, hid, memory>>

-----------------------------------------------------------------------------
(* readFlash and writeFlash: requests written and replies read with the     *)
(* handle found at the start, without _tryWrite and its retry.  writeFlash  *)
(* reads one reply per request, readFlash one per packet of a batch.        *)

\* With no byte to transfer readFlash returns OK and writeFlash the -1 its
\* errorCode starts with.
flashWrite ==
  /\ pc = "flashWrite"
  /\ \/ Return("failed")
     \/ want = 0 /\ Return("OK")
     \/ /\ want # 0 /\ Works(heap[dc.api].handle)
        /\ pc' = "flashRead" /\ UNCHANGED <<op, cmd, dc, frame, ret>>
  /\ UNCHANGED <<attached, hid, memory>>

\* Mutant: the reply is not counted.
flashReadUncounted ==
  /\ pc = "flashRead"
  /\ Works(heap[dc.api].handle)
  /\ pc' \in {"flashRead", "flashWrite"}
  /\ UNCHANGED <<attached, hid, memory, op, cmd, dc, frame, ret>>

flashRead ==
  /\ pc = "flashRead"
  /\ \/ Return("failed")
     \/ /\ Works(heap[dc.api].handle)
        /\ IF received + 1 = want THEN Return("OK")
           ELSE /\ pc' \in {"flashRead", "flashWrite"} /\ received' = received + 1
                /\ UNCHANGED <<op, cmd, dc, want, copied, ret>>
  /\ UNCHANGED <<attached, hid, memory>>

-----------------------------------------------------------------------------
(* The bus.                                                                *)

Unplug(d) ==
  /\ d \in attached
  /\ attached' = attached \ {d}
  /\ hid' = Lost(d)
  /\ UNCHANGED <<memory, call>>

Plug(d) ==
  /\ d \notin attached
  /\ attached' = attached \cup {d}
  /\ UNCHANGED <<hid, memory, call>>

-----------------------------------------------------------------------------
Step ==
  \/ reconnect \/ tryWrite \/ tryRead
  \/ getFrameSize \/ getFrameRequest \/ getFramePacket \/ getFrameDone
  \/ flashWrite \/ flashRead

Next ==
  \/ \E s \in Device \cup {NULL} : Connect(s)
  \/ disconnectDeviceContext
  \/ Refused
  \/ \E o \in PlainOp : BeginPlain(o)
  \/ \E o \in LoopOp : BeginLoop(o)
  \/ Step
  \/ \E d \in Device : Unplug(d) \/ Plug(d)

\* Every hidapi call returns, reads after their timeout at the latest, so a
\* call under way goes on.  Nothing obliges the caller or the bus to act.
Spec == Init /\ [][Next]_vars /\ WF_vars(Step)
-----------------------------------------------------------------------------
(* Properties.                                                             *)

TypeOK ==
  /\ attached \in SUBSET Device
  /\ hid \in [Handle -> [dev : Device \cup {NULL}, ok : BOOLEAN]]
  /\ heap \in [Addr -> Block]
  /\ ctx \in Addr \cup {NULL}
  /\ pc \in {"idle", "open", "write", "reopen", "rewrite", "read", "size",
             "request", "packet", "flashWrite", "flashRead"}
  /\ op \in PlainOp \cup LoopOp \cup {"none"}
  /\ cmd \in PlainOp \cup {"none", "getFrame"}
  /\ dc \in [api : Addr \cup {NULL}, format : Addr \cup {NULL},
             write : Addr \cup {NULL}]
  /\ want \in Nat /\ received \in Nat /\ copied \in Nat
  /\ ret \in {"OK", "failed", "none"}

\* The blocks the next step of the call reads or writes.
Dereferenced ==
  CASE pc = "idle"    -> {ctx} \ {NULL}
    [] pc \in {"open", "write", "reopen"} -> {ctx}
    [] pc = "rewrite" -> {dc.write}
    [] pc = "read"    -> {ctx} \cup IF cmd \in FormatCmd THEN {dc.format} ELSE {}
    [] OTHER          -> {dc.api}

\* No call reads or writes a context block that was freed, and none starts
\* with one: connecting replaces the block under the pointers the functions
\* of internal.c and libspectrometer.c have taken from *deviceContextPtr.
NoUseAfterFree == \A p \in Dereferenced : p \in Addr /\ heap[p].live

\* A handle passed to hid_write or hid_read_timeout is one hid_open returned
\* and hid_close has not got: neither NULL after a failed reconnection nor
\* closed.
HandleOpen ==
  LET p == CASE pc \in {"write", "read"} -> ctx
             [] pc = "rewrite" -> dc.write
             [] OTHER -> dc.api
  IN pc \in {"write", "rewrite", "read", "packet", "flashWrite", "flashRead"}
       => heap[p].handle # NULL /\ hid[heap[p].handle].dev # NULL

\* A serial number saved in the context is the one of the device its handle is
\* open on, whatever reconnections, failures and replugged devices came before.
SerialNamesDevice ==
  ctx # NULL /\ heap[ctx].serial # NULL =>
    /\ heap[ctx].handle # NULL
    /\ hid[heap[ctx].handle].dev = heap[ctx].serial

\* When getFrame leaves its loop with OK it has copied as many pixels as the
\* context says a frame has: packets are counted so that none is missing, and a
\* reconnection between the count and the copy never has pixels copied into
\* the caller's buffer beyond the size the context then holds.
FrameCopied ==
  pc = "packet" /\ received = want => copied = heap[ctx].pixels

\* The steps to come after the exchange under way: a getFrame's packets after its
\* request, the request and those after the exchange for the frame size.
AfterExchange == CASE cmd = "getFrame" -> want
                   [] cmd # "getFrame" /\ op = "getFrame" -> MaxPackets + 5
                   [] OTHER -> 0

\* What is left of the call under way, counted in the steps of its longest course:
\* a write that fails, its reconnection and retry, the reply, and what is after.
StepsToCome ==
  CASE pc = "idle" -> 0
    [] pc = "open" -> IF cmd # "none" THEN AfterExchange + 5
                      ELSE IF op = "flash" THEN 2 * want + 2 ELSE MaxPackets + 12
    [] pc = "size" -> MaxPackets + 11
    [] pc = "request" -> MaxPackets + 5
    [] pc = "write" -> AfterExchange + 4
    [] pc = "reopen" -> AfterExchange + 3
    [] pc = "rewrite" -> AfterExchange + 2
    [] pc = "read" -> AfterExchange + 1
    [] pc = "packet" -> want - received + 1
    [] pc = "flashWrite" -> 2 * (want - received) + 1
    [] pc = "flashRead" -> 2 * (want - received)

\* However often the device comes and goes, whatever it answers and wherever the
\* context is allocated, a step of a call brings it closer to its end: no request
\* is written a third time, no packet waited for twice.
CallShrinks ==
  [][pc # "idle" => StepsToCome' < StepsToCome \/ UNCHANGED call]_vars

\* Every call returns, however often the device comes and goes: _tryWrite
\* reconnects at most once and the loops count their packets down.
CallReturns == pc # "idle" ~> pc = "idle"

\* libspectrometer.h:80 and :105: connecting to a device that is already
\* connected "disconnects the device": the process holds no handle open
\* beside the one in the context.
OneOpenHandle ==
  pc = "idle" =>
    \A h \in Handle : hid[h] # Closed => ctx # NULL /\ h = heap[ctx].handle

\* libspectrometer.h:450 and :467, "Gets frame ... returns 0 on success": a
\* getFrame that returns OK has copied pixels of every packet it received.
FrameDelivered ==
  pc = "packet" /\ received = want => NumOfPackets(copied) = want
=============================================================================
