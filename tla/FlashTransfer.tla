--------------------------- MODULE FlashTransfer ---------------------------
(***************************************************************************)
(* Flash.read, Flash.write and Flash.erase: transfers between a caller's   *)
(* buffer and the flash memory of a spectrometer, through readFlash,       *)
(* writeFlash and eraseFlash, by one thread on one context.                *)
(*                                                                         *)
(* readFlash asks for batches of packets and places every packet by the    *)
(* offset it carries; writeFlash sends a chunk and waits for its           *)
(* acknowledgement before the next.  As in ReportExchange nothing says     *)
(* which request a report answers; here the reports carry data, and a call *)
(* that fails leaves the flash and the queues as they are.                 *)
(***************************************************************************)
EXTENDS Naturals, Sequences

CONSTANTS
  FlashSize,     \* the bytes of flash (0x20000)
  ReadPayload,   \* the bytes of a packet read (60)
  WritePayload,  \* MAX_FLASH_WRITE_PAYLOAD
  MaxBatch,      \* MAX_READ_FLASH_PACKETS
  Offset,        \* the offsets callers give
  Length,        \* the lengths they give, which may reach past the end
  Byte,          \* the values of a byte
  Empty,         \* 0xFF, the value of an erased byte
  Data,          \* the contents callers write, one byte for each index
  MaxQueue       \* bounds the reports under way when a call begins

ASSUME FlashAssumption ==
  /\ {FlashSize, ReadPayload, WritePayload} \subseteq Nat \ {0}
  /\ MaxBatch \in 1 .. 249  \* below REMAINING_PACKETS_ERROR
  /\ Offset \subseteq 0 .. FlashSize - 1 /\ Length \subseteq Nat
  /\ Empty \in Byte
  /\ Data \subseteq [0 .. FlashSize - 1 -> Byte] /\ Data # {}
  /\ MaxQueue \in Nat

VARIABLES
  attached,  \* the device is on the bus
  flash,     \* its flash memory
  toDevice,  \* the requests it has received and not executed
  handle,    \* the handle in the context
  inbox,     \* the input reports queued on that handle
  pc,        \* the step the call has reached
  op,        \* the method of Flash under way
  off,       \* absoluteOffset as the caller gave it
  len,       \* bytesToRead or bytesToWrite
  data,      \* the bytes to write
  buffer,    \* the bytes read: it grows if a packet is placed outside it
  left,      \* numOfPacketsToGet or bytesLeftToWrite
  inc,       \* offsetIncrement, or how far absoluteOffset has advanced
  batch,     \* numOfPacketsToGetCurrent - numOfPacketsReceivedCurrent
  total,     \* totalNumOfReceivedBytes or byteIndex
  mixed,     \* history: the call has taken a report that answers another call
  written,   \* history: the indexes whose byte the device was told to program,
             \* by this writeFlash and at the place where it belongs
  res        \* the result of the last call

device == <<attached, flash>>
call   == <<op, off, len, data>>
loop   == <<buffer, left, inc, batch, total>>
vars   == <<device, toDevice, handle, inbox, pc, call, loop, mixed, written, res>>

-----------------------------------------------------------------------------
Lesser(a, b) == IF a < b THEN a ELSE b

\* Index sets and functions over them count from 0, as in C.
Below(n) == {i \in 0 .. n : i < n}

NoData == CHOOSE d \in Data : TRUE

\* What is under way for a call that is over belongs to no call.
Disown(q) == [i \in DOMAIN q |-> [q[i] EXCEPT !.own = FALSE]]

Init ==
  /\ attached = TRUE /\ flash = [a \in Below(FlashSize) |-> Empty]
  /\ toDevice = <<>> /\ handle = "open" /\ inbox = <<>>
  /\ pc = "idle"
  /\ op = "none" /\ off = 0 /\ len = 0 /\ data = NoData
  /\ buffer = [i \in {} |-> Empty] /\ left = 0 /\ inc = 0 /\ batch = 0 /\ total = 0
  /\ mixed = FALSE /\ written = {} /\ res = "none"

\* The call returns or raises, leaving q and box in the queues.
Return(r, q, box) ==
  /\ pc' = "idle" /\ res' = r
  /\ op' = "none" /\ off' = 0 /\ len' = 0 /\ data' = NoData
  /\ buffer' = [i \in {} |-> Empty] /\ left' = 0 /\ inc' = 0 /\ batch' = 0 /\ total' = 0
  /\ mixed' = FALSE /\ written' = {}
  /\ toDevice' = Disown(q) /\ inbox' = Disown(box)

\* A write is reported as failed, whether or not the device gets the report.
Unsent(r) == {toDevice} \cup IF handle = "open" THEN {Append(toDevice, r)} ELSE {}

-----------------------------------------------------------------------------
(* A call begins.  A length that reaches past the end of flash is cut.      *)

\* Mutant: the length is not cut.
Uncut(o, n) == n

Cut(o, n) == Lesser(n, FlashSize - o)

\* The packets that hold n bytes.
PacketsFor(n) == (n \div ReadPayload) + (IF n % ReadPayload = 0 THEN 0 ELSE 1)

\* Flash.write begins with a Flash.read, which only decides on a warning.
Begin ==
  /\ pc = "idle" /\ Len(toDevice) + Len(inbox) <= MaxQueue
  /\ \/ \E o \in Offset, n \in Length, c \in {"read", "write"} :
          /\ op' = c /\ off' = o /\ len' = Cut(o, n)
          /\ data' \in IF c = "write" THEN Data ELSE {NoData}
          /\ buffer' = [i \in Below(len') |-> Empty]
          /\ left' = PacketsFor(len')
          /\ pc' = IF handle = "none" THEN "open" ELSE "readRequest"
     \/ /\ op' = "erase" /\ pc' = IF handle = "none" THEN "open" ELSE "eraseRequest"
        /\ UNCHANGED <<off, len, data, buffer, left>>
  /\ UNCHANGED <<device, toDevice, handle, inbox, inc, batch, total, mixed, written, res>>

\* _reconnect, by a call that finds no handle.  It is the only time readFlash
\* and writeFlash reconnect: a handle that is dead stays until eraseFlash, or a
\* call that is not about flash, replaces it.
Reconnect ==
  /\ pc = "open"
  /\ \/ /\ attached
        /\ handle' = "open" /\ inbox' = <<>>
        /\ pc' = IF op = "erase" THEN "eraseRequest" ELSE "readRequest"
        /\ UNCHANGED <<toDevice, call, loop, mixed, written, res>>
     \/ UNCHANGED handle /\ Return("failed", toDevice, <<>>)
  /\ UNCHANGED device

-----------------------------------------------------------------------------
(* readFlash. *)

Request(c, a, n, d) == [cmd |-> c, at |-> a, n |-> n, bytes |-> d, own |-> TRUE]

\* hid_write fails in a loop of readFlash or writeFlash: no second attempt.
WriteError(r) ==
  \E q \in Unsent(r) : Return("failed", q, inbox)

\* The head of the loop over batches: it asks for the next one, or is over.
\* Flash.write goes on with writeFlash.
ReadRequest ==
  /\ pc = "readRequest"
  /\ \/ left = 0 /\ op = "read" /\ Return("ok", toDevice, inbox)
     \/ /\ left = 0 /\ op = "write"
        /\ pc' = "writeChunk"
        /\ buffer' = [i \in {} |-> Empty]
        /\ left' = len /\ inc' = 0 /\ batch' = 0 /\ total' = 0
        /\ UNCHANGED <<toDevice, inbox, call, mixed, written, res>>
     \/ /\ left > 0
        /\ LET n == Lesser(left, MaxBatch)
               r == Request("read", off + inc, n, <<>>)
           IN \/ /\ handle = "open"
                 /\ toDevice' = Append(toDevice, r)
                 /\ pc' = "readPacket" /\ batch' = n
                 /\ UNCHANGED <<inbox, call, buffer, left, inc, total, mixed, written, res>>
              \/ WriteError(r)
  /\ UNCHANGED <<device, handle>>

\* The bytes of a packet that are copied.
Copied == IF total < len THEN Lesser(ReadPayload, len - total) ELSE 0

\* Mutant: every batch is placed from the start of the buffer.
PlacedInBatch(r) == [i \in {r.at + j : j \in Below(Copied)} |-> r.bytes[i - r.at]]

\* The part of the buffer a packet fills: its place is that of its batch, and the
\* localOffset the packet carries.
Placed(r) ==
  [i \in {inc + r.at + j : j \in Below(Copied)} |-> r.bytes[i - inc - r.at]]

\* Mutant: the same batch is asked for again.
SameBatch == UNCHANGED <<left, inc>>

NextBatch ==
  IF left > MaxBatch
  THEN left' = left - MaxBatch /\ inc' = inc + MaxBatch * ReadPayload
  ELSE left' = 0 /\ UNCHANGED inc

\* hid_read_timeout returns a packet.  It is refused unless it is of readFlash
\* and says that as many packets follow as are still to come.
ReadPacket ==
  /\ pc = "readPacket" /\ handle = "open" /\ inbox # <<>>
  /\ LET r == Head(inbox) IN
     IF r.cmd # "read" \/ r.left # batch - 1
     THEN Return("failed", toDevice, Tail(inbox))
     ELSE /\ inbox' = Tail(inbox)
          /\ mixed' = (mixed \/ ~r.own)
          /\ buffer' = [i \in DOMAIN buffer \cup DOMAIN Placed(r) |->
                          IF i \in DOMAIN Placed(r) THEN Placed(r)[i] ELSE buffer[i]]
          /\ total' = total + Copied
          /\ batch' = r.left
          /\ IF r.left > 0 THEN UNCHANGED <<pc, left, inc>>
             ELSE NextBatch /\ pc' = "readRequest"
          /\ UNCHANGED <<toDevice, call, written, res>>
  /\ UNCHANGED <<device, handle>>

-----------------------------------------------------------------------------
(* writeFlash. *)

\* The head of the loop over chunks: it sends the next one, or returns the last
\* error code, which is (uint8_t)-1 if there was none.
WriteChunk ==
  /\ pc = "writeChunk"
  /\ \/ left = 0 /\ Return(IF len = 0 THEN "failed" ELSE "ok", toDevice, inbox)
     \/ /\ left > 0
        /\ LET n == Lesser(left, WritePayload)
               r == Request("write", off + inc, n, [j \in 1 .. n |-> data[total + j - 1]])
           IN \/ /\ handle = "open"
                 /\ toDevice' = Append(toDevice, r)
                 /\ pc' = "chunkReply" /\ total' = total + n
                 /\ UNCHANGED <<inbox, call, buffer, left, inc, batch, mixed, written, res>>
              \/ WriteError(r)
  /\ UNCHANGED <<device, handle>>

\* Mutant: absoluteOffset does not advance.
NextChunkInPlace ==
  left' = (IF left > WritePayload THEN left - WritePayload ELSE 0) /\ UNCHANGED inc

NextChunk ==
  IF left > WritePayload
  THEN left' = left - WritePayload /\ inc' = inc + WritePayload
  ELSE left' = 0 /\ UNCHANGED inc

\* Mutant: the error code is not tested.
AcknowledgedBy(r) == r.cmd = "write"

Acknowledged(r) == r.cmd = "write" /\ r.left = 0

\* hid_read_timeout returns the answer to a chunk; a refusal ends the call and
\* leaves the chunks before it in flash.
ChunkReply ==
  /\ pc = "chunkReply" /\ handle = "open" /\ inbox # <<>>
  /\ LET r == Head(inbox) IN
     IF ~Acknowledged(r) THEN Return("failed", toDevice, Tail(inbox))
     ELSE /\ inbox' = Tail(inbox)
          /\ mixed' = (mixed \/ ~r.own)
          /\ NextChunk /\ pc' = "writeChunk"
          /\ UNCHANGED <<toDevice, call, buffer, batch, total, written, res>>
  /\ UNCHANGED <<device, handle>>

-----------------------------------------------------------------------------
(* eraseFlash, through _writeReadFunction. *)

Erasure == Request("erase", 0, 0, <<>>)

\* _tryWrite: one reconnection and one more attempt if the first write fails.
EraseRequest ==
  /\ pc = "eraseRequest"
  /\ \/ /\ handle = "open"
        /\ toDevice' = Append(toDevice, Erasure) /\ pc' = "eraseReply"
        /\ UNCHANGED <<handle, inbox, call, loop, mixed, written, res>>
     \/ \E q \in Unsent(Erasure) :
          \/ /\ attached /\ handle' = "open" /\ inbox' = <<>>
             /\ toDevice' = Append(q, Erasure) /\ pc' = "eraseReply"
             /\ UNCHANGED <<call, loop, mixed, written, res>>
          \/ /\ attached /\ handle' = "open"
             /\ \E p \in {q, Append(q, Erasure)} : Return("failed", p, <<>>)
          \/ handle' = "none" /\ Return("failed", q, <<>>)
  /\ UNCHANGED device

EraseReply ==
  /\ pc = "eraseReply" /\ handle = "open" /\ inbox # <<>>
  /\ LET r == Head(inbox)
     IN Return(IF r.cmd = "erase" /\ r.left = 0 THEN "ok" ELSE "failed", toDevice, Tail(inbox))
  /\ UNCHANGED <<device, handle>>

\* hid_read_timeout returns no report: the device is gone, or the time is over
\* and the answer comes to a later call.
ReadError ==
  /\ pc \in {"readPacket", "chunkReply", "eraseReply"}
  /\ Return("failed", toDevice, inbox)
  /\ UNCHANGED <<device, handle>>

-----------------------------------------------------------------------------
(* The device. *)

Reply(q, a, l, d) == [cmd |-> q.cmd, at |-> a, left |-> l, bytes |-> d, own |-> q.own]

\* "left" of a refusal: a code of REMAINING_PACKETS_ERROR or above, or an errorCode.
Refusal(q) == <<Reply(q, 0, 250, <<>>)>>

\* The k-th packet of a batch; past the end of flash there is nothing to read.
ReadOut(q, k) ==
  LET a == (k - 1) * ReadPayload
  IN Reply(q, a, q.n - k,
           [j \in Below(ReadPayload) |-> IF q.at + a + j < FlashSize THEN flash[q.at + a + j] ELSE Empty])

\* Programming changes empty bytes only.
Programmed(q) ==
  [a \in DOMAIN flash |->
     IF a \in q.at .. q.at + q.n - 1 /\ flash[a] = Empty THEN q.bytes[a - q.at + 1] ELSE flash[a]]

InPlace(q) ==
  {i \in Below(len) : off + i \in q.at .. q.at + q.n - 1 /\ q.bytes[off + i - q.at + 1] = data[i]}

Sends(s) == inbox' = IF handle = "open" THEN inbox \o s ELSE inbox

Execute ==
  /\ attached /\ toDevice # <<>>
  /\ LET q == Head(toDevice) IN
     \/ Sends(Refusal(q)) /\ UNCHANGED <<flash, written>>
     \/ /\ q.cmd = "read"
        /\ Sends([k \in 1 .. q.n |-> ReadOut(q, k)])
        /\ UNCHANGED <<flash, written>>
     \/ /\ q.cmd = "write"
        /\ flash' = Programmed(q)
        /\ written' = IF q.own THEN written \cup InPlace(q) ELSE written
        /\ Sends(<<Reply(q, 0, 0, <<>>)>>)
     \/ /\ q.cmd = "erase"
        /\ flash' = [a \in DOMAIN flash |-> Empty]
        /\ Sends(<<Reply(q, 0, 0, <<>>)>>)
        /\ UNCHANGED written
  /\ toDevice' = Tail(toDevice)
  /\ UNCHANGED <<attached, handle, pc, call, loop, mixed, res>>

Unplug ==
  /\ attached /\ attached' = FALSE
  /\ toDevice' = <<>> /\ inbox' = <<>>
  /\ handle' = IF handle = "open" THEN "dead" ELSE handle
  /\ UNCHANGED <<flash, pc, call, loop, mixed, written, res>>

Plug ==
  /\ ~attached /\ attached' = TRUE
  /\ UNCHANGED <<flash, toDevice, handle, inbox, pc, call, loop, mixed, written, res>>

-----------------------------------------------------------------------------
Step == Reconnect \/ ReadRequest \/ ReadPacket \/ WriteChunk \/ ChunkReply
          \/ EraseRequest \/ EraseReply \/ ReadError

Next == Begin \/ Step \/ Execute \/ Unplug \/ Plug

\* The thread that runs a call goes on: hid_read_timeout returns in any case.
Spec == Init /\ [][Next]_vars /\ WF_vars(Step)
-----------------------------------------------------------------------------
(* Properties. *)

TypeOK ==
  /\ attached \in BOOLEAN /\ flash \in [Below(FlashSize) -> Byte]
  /\ handle \in {"open", "dead", "none"}
  /\ pc \in {"idle", "open", "readRequest", "readPacket", "writeChunk", "chunkReply",
             "eraseRequest", "eraseReply"}
  /\ op \in {"none", "read", "write", "erase"}
  /\ off \in Below(FlashSize) /\ len \in 0 .. FlashSize - off /\ data \in Data
  /\ {left, inc, total} \subseteq Nat /\ batch \in 0 .. MaxBatch
  /\ mixed \in BOOLEAN /\ written \subseteq Below(len)
  /\ res \in {"none", "ok", "failed"}
  /\ \A i \in DOMAIN toDevice : toDevice[i].at + toDevice[i].n \in Nat

\* When the loop of readFlash is over the buffer holds the bytes of flash it was
\* asked for and nothing lies outside it, for every length around the sizes of a
\* packet and of a batch, unless the call took a packet that a call before it
\* had given up: its localOffset and its bytes are those of the other call.
ReadExact ==
  pc = "readRequest" /\ left = 0 /\ ~mixed
  => buffer = [i \in Below(len) |-> flash[off + i]]

\* When writeFlash returns OK, so does the device: every byte was programmed at
\* its place.
WriteComplete ==
  pc = "writeChunk" /\ left = 0 /\ ~mixed => written = Below(len)

\* A write that fails, at whatever step, leaves the beginning of the data in
\* flash: no chunk is programmed before the one it follows was acknowledged.
WrittenInOrder ==
  ~mixed => \E n \in 0 .. len : written = Below(n)

\* The steps a call has before it, at most: two for a packet or a chunk to come.
\* A Flash.write has those of its writeFlash after those of its readFlash.
StepsToCome ==
  LET write == IF op = "write" THEN 2 * len + 2 ELSE 0
  IN CASE pc = "idle" -> 0
       [] pc = "open" -> IF op = "erase" THEN 3 ELSE 2 * left + 2 + write
       [] pc = "readRequest" -> 2 * left + 1 + write
       [] pc = "readPacket" -> 2 * (left - Lesser(left, MaxBatch) + batch) + write
       [] pc = "writeChunk" -> 2 * left + 1
       [] pc = "chunkReply" -> 2 * left
       [] pc = "eraseRequest" -> 2
       [] pc = "eraseReply" -> 1

\* Whatever the device refuses, sends or left over from earlier calls, a step of a
\* call brings it closer to its end: no packet, batch or chunk is waited for twice.
CallShrinks ==
  [][pc # "idle" => StepsToCome' < StepsToCome \/ UNCHANGED <<pc, call, loop>>]_vars

\* Every call returns: batches and chunks come to an end.
CallReturns == pc # "idle" ~> pc = "idle"
=============================================================================
