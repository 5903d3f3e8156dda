------------------------ MODULE FlashTransfer_proofs ------------------------
(***************************************************************************)
(* What writeFlash has programmed, after every step of it and for every    *)
(* size of the flash, of a chunk and of the data.                          *)
(***************************************************************************)
EXTENDS FlashTransfer, QueueLemmas

Command == {"read", "write", "erase"}

\* A request to write carries as many bytes as it says.
RequestReport ==
  {r \in [cmd : Command, at : Nat, n : Nat, bytes : Seq(Byte), own : BOOLEAN] :
     r.cmd = "write" => Len(r.bytes) = r.n}
ReplyReport ==
  [cmd : Command, at : Nat, left : Nat,
   bytes : Seq(Byte) \cup [Below(ReadPayload) -> Byte], own : BOOLEAN]

QueuesOK == toDevice \in Seq(RequestReport) /\ inbox \in Seq(ReplyReport)

\* The i-th report of q belongs to the write under way.
OwnWrite(q, i) == i \in DOMAIN q /\ q[i].own /\ q[i].cmd = "write"

\* The counters of writeFlash: the chunks lie one behind the other.
ChunksOK ==
  /\ pc \in {"writeChunk", "chunkReply"} => left <= len
  /\ pc \in {"writeChunk", "chunkReply"} /\ left > 0 => inc + left = len
  /\ pc = "writeChunk" /\ left > 0 => total = inc
  /\ pc = "chunkReply" => left > 0 /\ total = inc + Lesser(left, WritePayload)
  /\ pc \notin {"writeChunk", "chunkReply"} => written = {}

\* There is at most one report of the chunk under way: its request, with the
\* chunk still to be programmed, or the reply to it.
OneChunk ==
  /\ pc = "writeChunk" => written = Below(len - left)
  /\ pc = "chunkReply" => written \in {Below(inc), Below(total)}
  /\ \A i \in DOMAIN toDevice : OwnWrite(toDevice, i) =>
       /\ pc = "chunkReply"
       /\ toDevice[i].at = off + inc /\ toDevice[i].n = total - inc
       /\ \A j \in 1 .. total - inc : toDevice[i].bytes[j] = data[inc + j - 1]
       /\ written = Below(inc)
       /\ \A k \in DOMAIN toDevice : OwnWrite(toDevice, k) => k = i
       /\ \A k \in DOMAIN inbox : ~OwnWrite(inbox, k)
  /\ \A i \in DOMAIN inbox : OwnWrite(inbox, i) =>
       /\ pc = "chunkReply"
       /\ inbox[i].left = 0 => written = Below(total)
       /\ \A k \in DOMAIN inbox : OwnWrite(inbox, k) => k = i

\* Outside writeFlash no report of a write is under way.
NoneOwn ==
  /\ \A i \in DOMAIN toDevice : ~OwnWrite(toDevice, i)
  /\ \A i \in DOMAIN inbox : ~OwnWrite(inbox, i)

Outside == pc \notin {"writeChunk", "chunkReply"} => NoneOwn

WriteInv == TypeOK /\ QueuesOK /\ ChunksOK /\ Outside /\ (~mixed => OneChunk)

-----------------------------------------------------------------------------
\* What the assumptions say of the constants, in the form the steps use it.
LEMMA Constants ==
  /\ FlashSize \in Nat \ {0} /\ ReadPayload \in Nat \ {0} /\ WritePayload \in Nat \ {0}
  /\ MaxBatch \in Nat \ {0} /\ MaxBatch * ReadPayload \in Nat
  /\ NoData \in Data /\ Empty \in Byte
  /\ Offset \subseteq 0 .. FlashSize - 1 /\ Length \subseteq Nat
<1>1. FlashSize \in Nat \ {0} /\ ReadPayload \in Nat \ {0} /\ WritePayload \in Nat \ {0}
      /\ MaxBatch \in Nat \ {0}
  BY FlashAssumption
<1>2. MaxBatch * ReadPayload \in Nat
  BY <1>1
<1>3. NoData \in Data
  BY FlashAssumption DEF NoData
<1> QED
  BY <1>1, <1>2, <1>3, FlashAssumption

\* The indexes of data lie in the flash, which they are offset by.
LEMMA DataTyped ==
  ASSUME NEW d \in Data, NEW i \in Nat, i < FlashSize
  PROVE  d[i] \in Byte
BY FlashAssumption, Constants

\* The first n indexes.
LEMMA BelowIs ==
  ASSUME NEW n \in Nat
  PROVE  /\ \A i : i \in Below(n) <=> i \in Nat /\ i < n
         /\ n = 0 => Below(n) = {}
BY DEF Below

\* A request ends at a place in the flash.
LEMMA RequestSum ==
  ASSUME NEW q \in Seq(RequestReport), NEW i \in DOMAIN q
  PROVE  q[i].at + q[i].n \in Nat
<1>1. q[i] \in RequestReport
  BY LenProperties, ElementOfSeq
<1> QED
  BY <1>1 DEF RequestReport

\* Nothing in a queue belongs to a call that is over.
LEMMA DisownedReport ==
  /\ \A r \in RequestReport :
       [r EXCEPT !.own = FALSE] \in RequestReport /\ [r EXCEPT !.own = FALSE].own = FALSE
  /\ \A r \in ReplyReport :
       [r EXCEPT !.own = FALSE] \in ReplyReport /\ [r EXCEPT !.own = FALSE].own = FALSE
BY DEF RequestReport, ReplyReport

\* Once disowned, no report in a queue belongs to the call under way.
LEMMA DisownedQueue ==
  ASSUME NEW S, NEW q \in Seq(S),
         \A r \in S : [r EXCEPT !.own = FALSE] \in S /\ [r EXCEPT !.own = FALSE].own = FALSE
  PROVE  Disown(q) \in Seq(S) /\ \A i \in DOMAIN Disown(q) : ~OwnWrite(Disown(q), i)
<1>1. Len(q) \in Nat /\ DOMAIN q = 1 .. Len(q) /\ \A i \in DOMAIN q : q[i] \in S
  BY LenProperties, ElementOfSeq
<1>2. Disown(q) \in [1 .. Len(q) -> S]
  BY <1>1 DEF Disown
<1>3. Disown(q) \in Seq(S)
  BY <1>1, <1>2, SeqDef
<1>4. \A i \in DOMAIN Disown(q) : Disown(q)[i].own = FALSE
  BY <1>1 DEF Disown
<1> QED
  BY <1>3, <1>4 DEF OwnWrite

\* The same of the two queues of this model.
LEMMA Disowned ==
  /\ \A q \in Seq(RequestReport) :
       Disown(q) \in Seq(RequestReport) /\ \A i \in DOMAIN Disown(q) : ~OwnWrite(Disown(q), i)
  /\ \A q \in Seq(ReplyReport) :
       Disown(q) \in Seq(ReplyReport) /\ \A i \in DOMAIN Disown(q) : ~OwnWrite(Disown(q), i)
BY DisownedReport, DisownedQueue

\* A call that is over has left nothing of its own.
LEMMA ReturnKeeps ==
  ASSUME NEW r \in {"ok", "failed"}, NEW q \in Seq(RequestReport), NEW box \in Seq(ReplyReport),
         attached' \in BOOLEAN, flash' \in [Below(FlashSize) -> Byte],
         handle' \in {"open", "dead", "none"}, Return(r, q, box)
  PROVE  WriteInv'
<1>1. QueuesOK'
  BY Disowned DEF Return, QueuesOK
<1>2. ChunksOK' /\ Outside' /\ OneChunk'
  BY Disowned DEF Return, ChunksOK, Outside, NoneOwn, OneChunk
<1>3. /\ off' \in Below(FlashSize) /\ len' \in 0 .. FlashSize - off' /\ data' \in Data
      /\ batch' \in 0 .. MaxBatch /\ written' \subseteq Below(len')
  BY Constants DEF Return, Below
<1>4. \A i \in DOMAIN toDevice' : toDevice'[i].at + toDevice'[i].n \in Nat
  BY <1>1, RequestSum DEF QueuesOK
<1>6. mixed' \in BOOLEAN
  BY DEF Return
<1>5. TypeOK'
  BY <1>3, <1>4, <1>6 DEF Return, TypeOK
<1> QED
  BY <1>1, <1>2, <1>5 DEF WriteInv

\* Nothing is under way, programmed or queued at first.
LEMMA WriteInit == Init => WriteInv
<1> SUFFICES ASSUME Init PROVE WriteInv
  OBVIOUS
<1>1. flash \in [Below(FlashSize) -> Byte] /\ mixed \in BOOLEAN /\ attached \in BOOLEAN
  BY Constants DEF Init
<1>2. off \in Below(FlashSize) /\ len \in 0 .. FlashSize - off /\ batch \in 0 .. MaxBatch
      /\ data \in Data /\ written \subseteq Below(len)
  BY Constants DEF Init, Below
<1>3. TypeOK
  BY <1>1, <1>2 DEF Init, TypeOK
<1>4. QueuesOK /\ ChunksOK /\ Outside /\ OneChunk
  BY DEF Init, QueuesOK, ChunksOK, Outside, NoneOwn, OneChunk
<1> QED
  BY <1>3, <1>4 DEF WriteInv

-----------------------------------------------------------------------------
\* Outside the wait for an acknowledgement no report of the write is under way.
LEMMA NoneOwnOutside ==
  ASSUME WriteInv, pc # "chunkReply", pc = "writeChunk" => ~mixed
  PROVE  NoneOwn
BY DEF WriteInv, OneChunk, Outside, NoneOwn

\* A write that fails leaves a queue of requests.
LEMMA UnsentTyped ==
  ASSUME QueuesOK, NEW r \in RequestReport, NEW q \in Unsent(r)
  PROVE  q \in Seq(RequestReport)
BY Appended DEF QueuesOK, Unsent

\* The lesser of two numbers is one, and no more than either.
LEMMA LesserIs ==
  ASSUME NEW a \in Nat, NEW b \in Nat
  PROVE  Lesser(a, b) \in Nat /\ Lesser(a, b) <= a /\ Lesser(a, b) <= b
BY DEF Lesser

\* A number of bytes takes a number of packets.
LEMMA PacketsTyped ==
  ASSUME NEW n \in Nat
  PROVE  PacketsFor(n) \in Nat
<1> DEFINE P == ReadPayload
<1>1. P \in Nat \ {0}
  BY Constants
<1> HIDE DEF P
<1>2. n \div P \in Nat
  BY <1>1, SMTT(30)
<1> QED
  BY <1>2 DEF PacketsFor, P

\* flash.py cuts the length at the end of flash and starts with nothing written.
LEMMA BeginStep ==
  ASSUME WriteInv, Begin
  PROVE  WriteInv'
<1> USE DEF WriteInv
<1>1. pc = "idle" /\ UNCHANGED <<device, toDevice, handle, inbox, inc, batch, total, mixed, written, res>>
  BY DEF Begin
<1>2. written = {}
  BY <1>1 DEF ChunksOK
<1>3. /\ pc' \in {"open", "readRequest", "eraseRequest"}
      /\ op' \in {"read", "write", "erase"}
      /\ off' \in Below(FlashSize) /\ len' \in 0 .. FlashSize - off' /\ data' \in Data
      /\ left' \in Nat
  <2>1. CASE \E o \in Offset, n \in Length, c \in {"read", "write"} :
               /\ op' = c /\ off' = o /\ len' = Cut(o, n)
               /\ data' \in IF c = "write" THEN Data ELSE {NoData}
               /\ left' = PacketsFor(len')
               /\ pc' = IF handle = "none" THEN "open" ELSE "readRequest"
    <3>1. PICK o \in Offset, n \in Length, c \in {"read", "write"} :
               /\ op' = c /\ off' = o /\ len' = Cut(o, n)
               /\ data' \in IF c = "write" THEN Data ELSE {NoData}
               /\ left' = PacketsFor(len')
               /\ pc' = IF handle = "none" THEN "open" ELSE "readRequest"
      BY <2>1
    <3>2. o \in 0 .. FlashSize - 1 /\ n \in Nat
      BY Constants
    <3>3. len' \in 0 .. FlashSize - o
      BY <3>1, <3>2, Constants DEF Cut, Lesser
    <3>4. PacketsFor(len') \in Nat
      BY <3>2, <3>3, Constants, PacketsTyped
    <3>5. o \in Below(FlashSize)
      BY <3>2, Constants DEF Below
    <3> QED
      BY <3>1, <3>3, <3>4, <3>5, Constants
  <2>2. CASE /\ op' = "erase" /\ pc' = IF handle = "none" THEN "open" ELSE "eraseRequest"
             /\ UNCHANGED <<off, len, data, buffer, left>>
    BY <2>2 DEF TypeOK
  <2> QED
    BY <2>1, <2>2 DEF Begin
<1>4. TypeOK'
  BY <1>1, <1>2, <1>3 DEF TypeOK, device
<1>5. QueuesOK' /\ ChunksOK'
  BY <1>1, <1>2, <1>3 DEF QueuesOK, ChunksOK
<1>6. Outside' /\ OneChunk'
  <2>1. NoneOwn
    BY <1>1, NoneOwnOutside
  <2> QED
    BY <1>1, <1>3, <2>1 DEF OneChunk, Outside, NoneOwn, OwnWrite
<1> QED
  BY <1>4, <1>5, <1>6

\* A reconnection empties the handle's queue, before the first chunk is sent.
LEMMA ReconnectStep ==
  ASSUME WriteInv, Reconnect
  PROVE  WriteInv'
<1> USE DEF WriteInv
<1>1. pc = "open" /\ UNCHANGED device
  BY DEF Reconnect
<1>2. attached' \in BOOLEAN /\ flash' \in [Below(FlashSize) -> Byte]
  BY <1>1 DEF TypeOK, device
<1>3. CASE /\ attached
           /\ handle' = "open" /\ inbox' = <<>>
           /\ pc' = IF op = "erase" THEN "eraseRequest" ELSE "readRequest"
           /\ UNCHANGED <<toDevice, call, loop, mixed, written, res>>
  <2>1. TypeOK'
    BY <1>1, <1>3 DEF TypeOK, device, call, loop
  <2>2. QueuesOK' /\ ChunksOK'
    BY <1>1, <1>3 DEF QueuesOK, ChunksOK, call, loop
  <2>3. Outside' /\ OneChunk'
    <3>1. NoneOwn
      BY <1>1, NoneOwnOutside
    <3> QED
      BY <1>3, <3>1 DEF OneChunk, Outside, NoneOwn, OwnWrite
  <2> QED
    BY <2>1, <2>2, <2>3
<1>4. CASE UNCHANGED handle /\ Return("failed", toDevice, <<>>)
  <2>1. handle' \in {"open", "dead", "none"} /\ toDevice \in Seq(RequestReport)
        /\ <<>> \in Seq(ReplyReport)
    BY <1>4 DEF TypeOK, QueuesOK
  <2> QED
    BY <1>2, <1>4, <2>1, ReturnKeeps
<1> QED
  BY <1>3, <1>4 DEF Reconnect

\* What a step that leaves device and handle alone may return with.
LEMMA ReturnsFrom ==
  ASSUME WriteInv, UNCHANGED <<device, handle>>, NEW r \in {"ok", "failed"},
         NEW q \in Seq(RequestReport), NEW box \in Seq(ReplyReport), Return(r, q, box)
  PROVE  WriteInv'
<1>1. attached' \in BOOLEAN /\ flash' \in [Below(FlashSize) -> Byte]
      /\ handle' \in {"open", "dead", "none"}
  BY DEF WriteInv, TypeOK, device
<1> QED
  BY <1>1, ReturnKeeps

\* readFlash's requests are no write's; at its end a Flash.write goes on to its chunks.
LEMMA ReadRequestStep ==
  ASSUME WriteInv, ReadRequest
  PROVE  WriteInv'
<1> USE DEF WriteInv
<1> DEFINE n == Lesser(left, MaxBatch)
           r == Request("read", off + inc, n, <<>>)
<1>1. pc = "readRequest" /\ UNCHANGED <<device, handle>> /\ written = {}
      /\ toDevice \in Seq(RequestReport) /\ inbox \in Seq(ReplyReport)
  BY DEF ReadRequest, ChunksOK, QueuesOK
<1>2. r \in RequestReport /\ r.cmd = "read" /\ n \in 0 .. MaxBatch
  <2>1. off + inc \in Nat /\ left \in Nat
    BY Constants DEF TypeOK, Below
  <2>2. n \in Nat /\ n <= MaxBatch
    BY <2>1, LesserIs, Constants
  <2> HIDE DEF n
  <2> QED
    BY <2>1, <2>2, Constants DEF Request, RequestReport, Command
<1>3. CASE left = 0 /\ op = "read" /\ Return("ok", toDevice, inbox)
  BY <1>1, <1>3, ReturnsFrom
<1>4. CASE /\ left = 0 /\ op = "write"
           /\ pc' = "writeChunk"
           /\ buffer' = [i \in {} |-> Empty]
           /\ left' = len /\ inc' = 0 /\ batch' = 0 /\ total' = 0
           /\ UNCHANGED <<toDevice, inbox, call, mixed, written, res>>
  <2>1. off \in Nat /\ len \in Nat
    BY Constants DEF TypeOK, Below
  <2>2. TypeOK'
    BY <1>1, <1>4, <2>1, Constants DEF TypeOK, device, call
  <2>3. QueuesOK' /\ ChunksOK'
    BY <1>1, <1>4, <2>1 DEF QueuesOK, ChunksOK, call
  <2>4. Outside' /\ OneChunk'
    <3>1. NoneOwn
      BY <1>1, NoneOwnOutside
    <3>2. written' = Below(len' - left')
      BY <1>1, <1>4, <2>1, BelowIs DEF call
    <3> QED
      BY <1>4, <3>1, <3>2 DEF OneChunk, Outside, NoneOwn, OwnWrite
  <2> QED
    BY <2>2, <2>3, <2>4
<1>5. CASE /\ handle = "open"
           /\ toDevice' = Append(toDevice, r)
           /\ pc' = "readPacket" /\ batch' = n
           /\ UNCHANGED <<inbox, call, buffer, left, inc, total, mixed, written, res>>
  <2> HIDE DEF r, n
  <2>1. QueuesOK'
    BY <1>1, <1>2, <1>5, Appended DEF QueuesOK
  <2>2. TypeOK'
    BY <1>1, <1>2, <1>5, <2>1, RequestSum DEF TypeOK, device, call, QueuesOK
  <2>3. ChunksOK'
    BY <1>1, <1>5 DEF ChunksOK, call
  <2>4. Outside' /\ OneChunk'
    <3>1. NoneOwn
      BY <1>1, NoneOwnOutside
    <3>2. \A i \in DOMAIN toDevice' : ~OwnWrite(toDevice', i)
      BY <1>1, <1>2, <1>5, <3>1, Appended DEF NoneOwn, OwnWrite
    <3> QED
      BY <1>5, <3>1, <3>2 DEF OneChunk, Outside, NoneOwn, OwnWrite
  <2> QED
    BY <2>1, <2>2, <2>3, <2>4
<1>6. CASE WriteError(r)
  <2> HIDE DEF r
  <2>1. PICK q \in Unsent(r) : Return("failed", q, inbox)
    BY <1>6 DEF WriteError
  <2>2. q \in Seq(RequestReport)
    BY <1>2, UnsentTyped
  <2> QED
    BY <1>1, <2>1, <2>2, ReturnsFrom
<1> QED
  BY <1>3, <1>4, <1>5, <1>6 DEF ReadRequest

\* Taking a report leaves the rest of the queue as it was.
LEMMA TailOwns ==
  ASSUME NEW S, NEW q \in Seq(S), q # <<>>
  PROVE  \A i : OwnWrite(Tail(q), i) => i + 1 # 1 /\ OwnWrite(q, i + 1)
BY Taken DEF OwnWrite

\* readFlash's packets are no write's.
LEMMA ReadPacketStep ==
  ASSUME WriteInv, ReadPacket
  PROVE  WriteInv'
<1> USE DEF WriteInv
<1> DEFINE r == Head(inbox)
<1>1. /\ pc = "readPacket" /\ inbox # <<>> /\ UNCHANGED <<device, handle>> /\ written = {}
      /\ toDevice \in Seq(RequestReport) /\ inbox \in Seq(ReplyReport)
  BY DEF ReadPacket, ChunksOK, QueuesOK
<1>2. r \in ReplyReport /\ Tail(inbox) \in Seq(ReplyReport)
  BY <1>1, Taken
<1>3. CASE Return("failed", toDevice, Tail(inbox))
  BY <1>1, <1>2, <1>3, ReturnsFrom
<1>4. CASE /\ ~(r.cmd # "read" \/ r.left # batch - 1)
           /\ inbox' = Tail(inbox)
           /\ mixed' = (mixed \/ ~r.own)
           /\ total' = total + Copied
           /\ batch' = r.left
           /\ IF r.left > 0 THEN UNCHANGED <<pc, left, inc>>
              ELSE NextBatch /\ pc' = "readRequest"
           /\ UNCHANGED <<toDevice, call, written, res>>
  <2> HIDE DEF r
  <2>1. r.left \in Nat /\ r.own \in BOOLEAN
    BY <1>2 DEF ReplyReport
  <2>2. mixed' \in BOOLEAN
    BY <1>4 DEF TypeOK
  <2>3. batch' \in 0 .. MaxBatch
    BY <1>4, <2>1, Constants DEF TypeOK
  <2>4. total' \in Nat
    BY <1>4, Constants DEF TypeOK, Copied, Lesser, Below
  <2>5. /\ left' \in Nat /\ inc' \in Nat /\ pc' \in {"readPacket", "readRequest"}
    <3> DEFINE W == MaxBatch * ReadPayload
    <3>1. W \in Nat
      BY Constants
    <3> HIDE DEF W
    <3>2. CASE UNCHANGED <<pc, left, inc>>
      BY <1>1, <3>2 DEF TypeOK
    <3>3. CASE NextBatch /\ pc' = "readRequest"
      <4>1. left > MaxBatch => left' = left - MaxBatch /\ inc' = inc + W
        BY <3>3 DEF NextBatch, W
      <4>2. ~(left > MaxBatch) => left' = 0 /\ inc' = inc
        BY <3>3 DEF NextBatch
      <4> QED
        BY <3>1, <3>3, <4>1, <4>2, Constants DEF TypeOK
    <3> QED
      BY <1>4, <3>2, <3>3
  <2>6. TypeOK'
    BY <1>1, <1>4, <2>2, <2>3, <2>4, <2>5 DEF TypeOK, device, call
  <2>7. QueuesOK' /\ ChunksOK'
    BY <1>1, <1>2, <1>4, <2>5 DEF QueuesOK, ChunksOK, call
  <2>8. Outside' /\ OneChunk'
    <3>2. NoneOwn
      BY <1>1, NoneOwnOutside
    <3>3. \A i \in DOMAIN inbox' : ~OwnWrite(inbox', i)
      BY <1>1, <1>4, <3>2, TailOwns DEF NoneOwn, OwnWrite
    <3>4. \A i \in DOMAIN toDevice' : ~OwnWrite(toDevice', i)
      BY <1>4, <3>2 DEF NoneOwn
    <3> QED
      BY <2>5, <3>3, <3>4 DEF OneChunk, Outside, NoneOwn
  <2> QED
    BY <2>6, <2>7, <2>8
<1> QED
  BY <1>3, <1>4 DEF ReadPacket

\* A chunk is sent when the one before is acknowledged, and is then the only one.
LEMMA WriteChunkStep ==
  ASSUME WriteInv, WriteChunk
  PROVE  WriteInv'
<1> USE DEF WriteInv
<1> DEFINE n == Lesser(left, WritePayload)
           r == Request("write", off + inc, n, [j \in 1 .. n |-> data[total + j - 1]])
<1>1. /\ pc = "writeChunk" /\ UNCHANGED <<device, handle>>
      /\ toDevice \in Seq(RequestReport) /\ inbox \in Seq(ReplyReport)
  BY DEF WriteChunk, QueuesOK
<1>2. /\ off \in Nat /\ inc \in Nat /\ left \in Nat /\ len \in Nat /\ total \in Nat
      /\ off + len <= FlashSize /\ data \in Data
  BY Constants DEF TypeOK, Below
<1>3. CASE left = 0 /\ Return(IF len = 0 THEN "failed" ELSE "ok", toDevice, inbox)
  BY <1>1, <1>3, ReturnsFrom
<1>4. ASSUME left > 0
      PROVE  /\ n \in Nat /\ n <= left /\ total = inc /\ inc + left = len
             /\ r \in RequestReport
             /\ r.at = off + inc /\ r.n = n
             /\ \A j \in 1 .. n : r.bytes[j] = data[inc + j - 1]
  <2>1. n \in Nat /\ n <= left
    BY <1>2, LesserIs, Constants
  <2>2. total = inc /\ inc + left = len
    BY <1>1, <1>4 DEF ChunksOK
  <2> HIDE DEF n
  <2>3. \A j \in 1 .. n : data[total + j - 1] \in Byte
    <3> SUFFICES ASSUME NEW j \in 1 .. n PROVE data[total + j - 1] \in Byte
      OBVIOUS
    <3>1. total + j - 1 \in Nat /\ total + j - 1 < FlashSize
      BY <1>2, <2>1, <2>2, Constants
    <3> QED
      BY <1>2, <3>1, DataTyped
  <2>4. [j \in 1 .. n |-> data[total + j - 1]] \in Seq(Byte)
    BY <2>1, <2>3, SeqDef
  <2>5. Len([j \in 1 .. n |-> data[total + j - 1]]) = n
    BY <2>1, <2>4, LenProperties
  <2>6. r \in RequestReport
    BY <1>2, <2>1, <2>4, <2>5 DEF Request, RequestReport, Command
  <2>7. r.at = off + inc /\ r.n = n /\ \A j \in 1 .. n : r.bytes[j] = data[inc + j - 1]
    BY <2>2 DEF Request
  <2> QED
    BY <2>1, <2>2, <2>6, <2>7
<1>5. CASE /\ left > 0 /\ handle = "open"
           /\ toDevice' = Append(toDevice, r)
           /\ pc' = "chunkReply" /\ total' = total + n
           /\ UNCHANGED <<inbox, call, buffer, left, inc, batch, mixed, written, res>>
  <2>0. /\ n \in Nat /\ n <= left /\ total = inc /\ inc + left = len
        /\ r \in RequestReport /\ r.at = off + inc /\ r.n = n
        /\ \A j \in 1 .. n : r.bytes[j] = data[inc + j - 1]
    BY <1>4, <1>5
  <2>1. n = Lesser(left, WritePayload)
    OBVIOUS
  <2> HIDE DEF r, n
  <2>2. QueuesOK'
    BY <1>1, <1>5, <2>0, Appended DEF QueuesOK
  <2>3. TypeOK'
    BY <1>1, <1>2, <1>5, <2>0, <2>2, RequestSum DEF TypeOK, device, call, QueuesOK
  <2>4. ChunksOK' /\ Outside'
    BY <1>1, <1>2, <1>5, <2>0, <2>1 DEF ChunksOK, Outside, call
  <2>5. ASSUME ~mixed' PROVE OneChunk'
    <3> DEFINE last == Len(toDevice) + 1
    <3>1. ~mixed
      BY <1>5, <2>5
    <3>2. NoneOwn
      BY <1>1, <3>1, NoneOwnOutside
    <3>3. /\ DOMAIN toDevice' = DOMAIN toDevice \cup {last} /\ last \notin DOMAIN toDevice
          /\ \A i \in DOMAIN toDevice : toDevice'[i] = toDevice[i]
          /\ toDevice'[last] = r
      BY <1>1, <1>5, <2>0, Appended
    <3> HIDE DEF last
    <3>4. \A i : OwnWrite(toDevice', i) => i = last
      BY <3>2, <3>3 DEF NoneOwn, OwnWrite
    <3>5. written = Below(len - left) /\ len - left = inc
      BY <1>1, <1>2, <2>0, <3>1 DEF OneChunk
    <3>6. written' = Below(inc')
      BY <1>5, <3>5
    <3>7. total' - inc' = n
      BY <1>2, <1>5, <2>0
    <3>8. /\ toDevice'[last].at = off' + inc' /\ toDevice'[last].n = total' - inc'
          /\ \A j \in 1 .. total' - inc' : toDevice'[last].bytes[j] = data'[inc' + j - 1]
      BY <1>5, <2>0, <3>3, <3>7 DEF call
    <3>9. \A k \in DOMAIN inbox' : ~OwnWrite(inbox', k)
      BY <1>5, <3>2 DEF NoneOwn
    <3>10. pc' = "chunkReply"
      BY <1>5
    <3> QED
      BY <3>4, <3>6, <3>8, <3>9, <3>10 DEF OneChunk
  <2> QED
    BY <2>2, <2>3, <2>4, <2>5
<1>6. CASE left > 0 /\ WriteError(r)
  <2>0. r \in RequestReport
    BY <1>4, <1>6
  <2> HIDE DEF r
  <2>1. PICK q \in Unsent(r) : Return("failed", q, inbox)
    BY <1>6 DEF WriteError
  <2>2. q \in Seq(RequestReport)
    BY <2>0, UnsentTyped
  <2> QED
    BY <1>1, <2>1, <2>2, ReturnsFrom
<1> QED
  BY <1>3, <1>5, <1>6 DEF WriteChunk

\* An acknowledgement of the write's own says that its chunk is programmed.
LEMMA ChunkReplyStep ==
  ASSUME WriteInv, ChunkReply
  PROVE  WriteInv'
<1> USE DEF WriteInv
<1> DEFINE r == Head(inbox)
<1>1. /\ pc = "chunkReply" /\ inbox # <<>> /\ UNCHANGED <<device, handle>>
      /\ toDevice \in Seq(RequestReport) /\ inbox \in Seq(ReplyReport)
  BY DEF ChunkReply, QueuesOK
<1>2. /\ r \in ReplyReport /\ Tail(inbox) \in Seq(ReplyReport)
      /\ r = inbox[1] /\ 1 \in DOMAIN inbox
  BY <1>1, Taken
<1>3. /\ off \in Nat /\ inc \in Nat /\ left \in Nat /\ len \in Nat /\ total \in Nat
      /\ WritePayload \in Nat \ {0}
  BY Constants DEF TypeOK, Below
<1>4. left > 0 /\ left <= len /\ inc + left = len /\ total = inc + Lesser(left, WritePayload)
  BY <1>1 DEF ChunksOK
<1>5. CASE ~Acknowledged(r) /\ Return("failed", toDevice, Tail(inbox))
  BY <1>1, <1>2, <1>5, ReturnsFrom
<1>6. CASE /\ Acknowledged(r)
           /\ inbox' = Tail(inbox)
           /\ mixed' = (mixed \/ ~r.own)
           /\ NextChunk /\ pc' = "writeChunk"
           /\ UNCHANGED <<toDevice, call, buffer, batch, total, written, res>>
  <2> HIDE DEF r
  <2>1. mixed' \in BOOLEAN
    BY <1>6 DEF TypeOK
  <2>2. /\ left' \in Nat /\ inc' \in Nat /\ left' <= len
        /\ left' > 0 => inc' + left' = len /\ total = inc'
        /\ len - left' = total
    BY <1>3, <1>4, <1>6 DEF NextChunk, Lesser
  <2>3. TypeOK'
    BY <1>1, <1>6, <2>1, <2>2 DEF TypeOK, device, call
  <2>4. QueuesOK' /\ ChunksOK' /\ Outside'
    BY <1>1, <1>2, <1>6, <2>2 DEF QueuesOK, ChunksOK, Outside, call
  <2>5. ASSUME ~mixed' PROVE OneChunk'
    <3>1. ~mixed /\ r.own
      BY <1>6, <2>5
    <3>2. OwnWrite(inbox, 1) /\ inbox[1].left = 0
      BY <1>2, <1>6, <3>1 DEF OwnWrite, Acknowledged
    <3>3. written = Below(total) /\ \A k \in DOMAIN inbox : OwnWrite(inbox, k) => k = 1
      BY <1>2, <3>1, <3>2 DEF OneChunk
    <3>4. \A i \in DOMAIN toDevice : ~OwnWrite(toDevice, i)
      BY <1>2, <3>1, <3>2 DEF OneChunk
    <3>5. \A i \in DOMAIN inbox' : ~OwnWrite(inbox', i)
      BY <1>1, <1>6, <3>3, TailOwns DEF OwnWrite
    <3>6. written' = Below(len' - left')
      BY <1>6, <2>2, <3>3 DEF call
    <3> QED
      BY <1>6, <3>4, <3>5, <3>6 DEF OneChunk
  <2> QED
    BY <2>3, <2>4, <2>5
<1> QED
  BY <1>5, <1>6 DEF ChunkReply

\* eraseFlash sends its request, once more after a reconnection, and no chunk.
LEMMA EraseRequestStep ==
  ASSUME WriteInv, EraseRequest
  PROVE  WriteInv'
<1> USE DEF WriteInv
<1>1. /\ pc = "eraseRequest" /\ UNCHANGED device /\ written = {}
      /\ toDevice \in Seq(RequestReport) /\ inbox \in Seq(ReplyReport)
      /\ <<>> \in Seq(ReplyReport)
  BY DEF EraseRequest, ChunksOK, QueuesOK
<1>2. Erasure \in RequestReport /\ Erasure.cmd = "erase"
  BY DEF Erasure, Request, RequestReport, Command
<1>3. attached' \in BOOLEAN /\ flash' \in [Below(FlashSize) -> Byte]
  BY <1>1 DEF TypeOK, device
\* The request is sent, after a reconnection or without one.
<1>4. ASSUME NEW q \in Seq(RequestReport), toDevice' = Append(q, Erasure),
             q = toDevice \/ q = Append(toDevice, Erasure),
             UNCHANGED <<handle, inbox>> \/ (handle' = "open" /\ inbox' = <<>>),
             pc' = "eraseReply", UNCHANGED <<call, loop, mixed, written, res>>
      PROVE  WriteInv'
  <2>1. QueuesOK'
    BY <1>1, <1>2, <1>4, Appended DEF QueuesOK
  <2>2. \A i \in DOMAIN toDevice' : toDevice'[i].at + toDevice'[i].n \in Nat
    BY <2>1, RequestSum DEF QueuesOK
  <2>3. handle' \in {"open", "dead", "none"}
    BY <1>4 DEF TypeOK
  <2>4. TypeOK'
    BY <1>3, <1>4, <2>2, <2>3 DEF TypeOK, call, loop
  <2>5. ChunksOK'
    BY <1>1, <1>4 DEF ChunksOK, call, loop
  <2>6. Outside' /\ OneChunk'
    <3>1. NoneOwn
      BY <1>1, NoneOwnOutside
    <3>2. \A i \in DOMAIN q : ~OwnWrite(q, i)
      BY <1>1, <1>2, <1>4, <3>1, Appended DEF NoneOwn, OwnWrite
    <3>3. \A i \in DOMAIN toDevice' : ~OwnWrite(toDevice', i)
      BY <1>2, <1>4, <3>2, Appended DEF OwnWrite
    <3>4. \A i \in DOMAIN inbox' : ~OwnWrite(inbox', i)
      BY <1>4, <3>1 DEF NoneOwn, OwnWrite
    <3> QED
      BY <1>4, <3>3, <3>4 DEF OneChunk, Outside, NoneOwn
  <2> QED
    BY <2>1, <2>4, <2>5, <2>6
<1>5. CASE /\ handle = "open"
           /\ toDevice' = Append(toDevice, Erasure) /\ pc' = "eraseReply"
           /\ UNCHANGED <<handle, inbox, call, loop, mixed, written, res>>
  BY <1>1, <1>4, <1>5
<1>6. ASSUME NEW q \in Unsent(Erasure),
             \/ /\ attached /\ handle' = "open" /\ inbox' = <<>>
                /\ toDevice' = Append(q, Erasure) /\ pc' = "eraseReply"
                /\ UNCHANGED <<call, loop, mixed, written, res>>
             \/ /\ attached /\ handle' = "open"
                /\ \E p \in {q, Append(q, Erasure)} : Return("failed", p, <<>>)
             \/ handle' = "none" /\ Return("failed", q, <<>>)
      PROVE  WriteInv'
  <2>1. q \in Seq(RequestReport) /\ (q = toDevice \/ q = Append(toDevice, Erasure))
    BY <1>2, UnsentTyped DEF Unsent
  <2>2. CASE /\ handle' \in {"open", "none"}
             /\ \E p \in {q, Append(q, Erasure)} : Return("failed", p, <<>>)
    <3>1. PICK p \in {q, Append(q, Erasure)} : Return("failed", p, <<>>)
      BY <2>2
    <3>2. p \in Seq(RequestReport)
      BY <1>2, <2>1, Appended
    <3> QED
      BY <1>1, <1>3, <2>2, <3>1, <3>2, ReturnKeeps
  <2>3. CASE /\ handle' = "open" /\ inbox' = <<>>
             /\ toDevice' = Append(q, Erasure) /\ pc' = "eraseReply"
             /\ UNCHANGED <<call, loop, mixed, written, res>>
    BY <1>4, <2>1, <2>3
  <2> QED
    BY <1>6, <2>2, <2>3
<1> QED
  BY <1>5, <1>6 DEF EraseRequest

\* eraseFlash returns with any reply, and belongs to no write.
LEMMA EraseReplyStep ==
  ASSUME WriteInv, EraseReply
  PROVE  WriteInv'
<1>1. UNCHANGED <<device, handle>>
  BY DEF EraseReply
<1>2. toDevice \in Seq(RequestReport) /\ Tail(inbox) \in Seq(ReplyReport)
  BY Taken DEF EraseReply, WriteInv, QueuesOK
<1>3. PICK r \in {"ok", "failed"} : Return(r, toDevice, Tail(inbox))
  BY DEF EraseReply
<1> QED
  BY <1>1, <1>2, <1>3, ReturnsFrom

\* A read that fails ends the call; what is under way is no longer its own.
LEMMA ReadErrorStep ==
  ASSUME WriteInv, ReadError
  PROVE  WriteInv'
BY ReturnsFrom DEF ReadError, WriteInv, QueuesOK

-----------------------------------------------------------------------------
(* The device. *)

\* The reports the device sends come behind those that are queued.
LEMMA Sent ==
  ASSUME QueuesOK, NEW s \in Seq(ReplyReport), Sends(s)
  PROVE  /\ inbox' \in Seq(ReplyReport) /\ Len(inbox) \in Nat
         /\ \A i \in DOMAIN inbox' :
              \/ i \in DOMAIN inbox /\ inbox'[i] = inbox[i]
              \/ i \notin DOMAIN inbox /\ i - Len(inbox) \in DOMAIN s /\ inbox'[i] = s[i - Len(inbox)]
<1>1. inbox \in Seq(ReplyReport)
  BY DEF QueuesOK
<1>2. CASE handle # "open"
  BY <1>1, <1>2, LenProperties DEF Sends
<1>3. CASE handle = "open"
  <2>1. inbox' = inbox \o s
    BY <1>3 DEF Sends
  <2>2. /\ inbox \o s \in Seq(ReplyReport) /\ Len(inbox \o s) = Len(inbox) + Len(s)
        /\ Len(inbox) \in Nat /\ Len(s) \in Nat
        /\ DOMAIN inbox = 1 .. Len(inbox) /\ DOMAIN s = 1 .. Len(s)
        /\ DOMAIN (inbox \o s) = 1 .. Len(inbox \o s)
        /\ \A i \in DOMAIN inbox : (inbox \o s)[i] = inbox[i]
        /\ \A i \in DOMAIN s : (inbox \o s)[Len(inbox) + i] = s[i]
    BY <1>1, Joined
  <2>3. ASSUME NEW i \in DOMAIN inbox', i \notin DOMAIN inbox
        PROVE  i - Len(inbox) \in DOMAIN s /\ Len(inbox) + (i - Len(inbox)) = i
    BY <2>1, <2>2, <2>3
  <2>4. \A i \in DOMAIN inbox' : i \notin DOMAIN inbox =>
          i - Len(inbox) \in DOMAIN s /\ inbox'[i] = s[i - Len(inbox)]
    BY <2>1, <2>2, <2>3
  <2> QED
    BY <2>1, <2>2, <2>4
<1> QED
  BY <1>2, <1>3

\* A packet read out of flash is a report of the call that asked for it.
LEMMA ReadOutTyped ==
  ASSUME NEW q \in RequestReport, NEW k \in 1 .. q.n, flash \in [Below(FlashSize) -> Byte]
  PROVE  /\ ReadOut(q, k) \in ReplyReport
         /\ ReadOut(q, k).cmd = q.cmd /\ ReadOut(q, k).own = q.own
<1> DEFINE a == (k - 1) * ReadPayload
           b == [j \in Below(ReadPayload) |->
                   IF q.at + a + j < FlashSize THEN flash[q.at + a + j] ELSE Empty]
<1>1. q.cmd \in Command /\ q.at \in Nat /\ q.n \in Nat /\ q.own \in BOOLEAN
  BY DEF RequestReport
<1>2. a \in Nat
  <2>1. k - 1 \in Nat
    BY <1>1
  <2>2. \A x, y \in Nat : x * y \in Nat
    BY SMTT(30)
  <2> QED
    BY <2>1, <2>2, Constants
<1> HIDE DEF a
<1>3. b \in [Below(ReadPayload) -> Byte]
  <2> SUFFICES ASSUME NEW j \in Below(ReadPayload), q.at + a + j < FlashSize
               PROVE  flash[q.at + a + j] \in Byte
    BY Constants
  <2>1. q.at + a + j \in Below(FlashSize)
    BY <1>1, <1>2, Constants, BelowIs
  <2> QED
    BY <2>1
<1> HIDE DEF b
<1>4. ReadOut(q, k) = Reply(q, a, q.n - k, b)
  BY DEF ReadOut, a, b
<1>5. q.n - k \in Nat
  BY <1>1
<1> QED
  BY <1>1, <1>2, <1>3, <1>4, <1>5 DEF Reply, ReplyReport

\* Programming a chunk leaves bytes in the flash.
LEMMA ProgrammedTyped ==
  ASSUME NEW q \in RequestReport, q.cmd = "write", flash \in [Below(FlashSize) -> Byte]
  PROVE  Programmed(q) \in [Below(FlashSize) -> Byte]
<1>1. q.at \in Nat /\ q.n \in Nat /\ q.bytes \in Seq(Byte) /\ Len(q.bytes) = q.n
  BY DEF RequestReport
<1>2. \A k \in 1 .. q.n : q.bytes[k] \in Byte
  BY <1>1, ElementOfSeq
<1>3. \A x \in Below(FlashSize) : x \in q.at .. q.at + q.n - 1 => x - q.at + 1 \in 1 .. q.n
  BY <1>1, Constants, BelowIs
<1>4. \A x \in Below(FlashSize) :
        (IF x \in q.at .. q.at + q.n - 1 /\ flash[x] = Empty
         THEN q.bytes[x - q.at + 1] ELSE flash[x]) \in Byte
  BY <1>2, <1>3
<1> QED
  BY <1>4 DEF Programmed

\* What the device answers to the request q: reports that belong to the same
\* call, and to a chunk just one, which says OK only if the chunk is programmed.
IsAnswer(q, s) ==
  /\ s \in Seq(ReplyReport) /\ Sends(s)
  /\ \A k \in DOMAIN s : s[k].cmd = q.cmd /\ s[k].own = q.own
  /\ q.cmd = "write" => \A k \in DOMAIN s : k = 1
  /\ \/ /\ written' = written
        /\ q.cmd = "write" /\ q.own => \A k \in DOMAIN s : s[k].left # 0
     \/ q.cmd = "write" /\ q.own /\ written' = written \cup InPlace(q)
  /\ flash' \in [Below(FlashSize) -> Byte]

\* Whatever the device executes, it sends one of the answers to that request.
LEMMA Answers ==
  ASSUME WriteInv, Execute, NEW q, q = Head(toDevice), q \in RequestReport
  PROVE  \E s : IsAnswer(q, s)
<1>1. q.cmd \in Command /\ q.at \in Nat /\ q.n \in Nat /\ q.own \in BOOLEAN
  BY DEF RequestReport
<1>2. flash \in [Below(FlashSize) -> Byte]
  BY DEF WriteInv, TypeOK
<1>3. ASSUME NEW l \in Nat
      PROVE  /\ Reply(q, 0, l, <<>>) \in ReplyReport
             /\ <<Reply(q, 0, l, <<>>)>> \in Seq(ReplyReport)
             /\ DOMAIN <<Reply(q, 0, l, <<>>)>> = {1}
             /\ \A k \in {1} : /\ <<Reply(q, 0, l, <<>>)>>[k].cmd = q.cmd
                               /\ <<Reply(q, 0, l, <<>>)>>[k].own = q.own
                               /\ <<Reply(q, 0, l, <<>>)>>[k].left = l
  <2>1. Reply(q, 0, l, <<>>) \in ReplyReport
    BY <1>1 DEF Reply, ReplyReport
  <2>2. /\ Reply(q, 0, l, <<>>).cmd = q.cmd /\ Reply(q, 0, l, <<>>).own = q.own
        /\ Reply(q, 0, l, <<>>).left = l
    BY DEF Reply
  <2> QED
    BY <2>1, <2>2
<1>4. CASE Sends(Refusal(q)) /\ UNCHANGED <<flash, written>>
  <2> DEFINE s == <<Reply(q, 0, 250, <<>>)>>
  <2>1. /\ s \in Seq(ReplyReport) /\ DOMAIN s = {1}
        /\ s[1].cmd = q.cmd /\ s[1].own = q.own /\ s[1].left = 250
    BY <1>3
  <2>2. Sends(s)
    BY <1>4 DEF Refusal
  <2> HIDE DEF s
  <2>3. IsAnswer(q, s)
    BY <1>2, <1>4, <2>1, <2>2 DEF IsAnswer
  <2> QED
    BY <2>3
<1>5. CASE /\ q.cmd = "read"
           /\ Sends([k \in 1 .. q.n |-> ReadOut(q, k)])
           /\ UNCHANGED <<flash, written>>
  <2> DEFINE s == [k \in 1 .. q.n |-> ReadOut(q, k)]
  <2>1. \A k \in 1 .. q.n : /\ s[k] \in ReplyReport
                            /\ s[k].cmd = q.cmd /\ s[k].own = q.own
    BY <1>2, ReadOutTyped
  <2>2. s \in Seq(ReplyReport) /\ DOMAIN s = 1 .. q.n
    <3>1. s \in [1 .. q.n -> ReplyReport]
      BY <2>1
    <3> HIDE DEF s
    <3> QED
      BY <1>1, <3>1, SeqDef
  <2>3. Sends(s)
    BY <1>5
  <2> HIDE DEF s
  <2>4. IsAnswer(q, s)
    BY <1>2, <1>5, <2>1, <2>2, <2>3 DEF IsAnswer
  <2> QED
    BY <2>4
<1>8. ASSUME Sends(<<Reply(q, 0, 0, <<>>)>>), flash' \in [Below(FlashSize) -> Byte],
             \/ q.cmd # "write" /\ written' = written
             \/ q.cmd = "write" /\ written' = IF q.own THEN written \cup InPlace(q) ELSE written
      PROVE  \E s : IsAnswer(q, s)
  <2> DEFINE s == <<Reply(q, 0, 0, <<>>)>>
  <2>1. /\ s \in Seq(ReplyReport) /\ DOMAIN s = {1}
        /\ s[1].cmd = q.cmd /\ s[1].own = q.own
    BY <1>3
  <2>2. Sends(s)
    BY <1>8
  <2> HIDE DEF s
  <2>3. IsAnswer(q, s)
    BY <1>1, <1>8, <2>1, <2>2 DEF IsAnswer
  <2> QED
    BY <2>3
<1>6. CASE /\ q.cmd = "write"
           /\ flash' = Programmed(q)
           /\ written' = IF q.own THEN written \cup InPlace(q) ELSE written
           /\ Sends(<<Reply(q, 0, 0, <<>>)>>)
  BY <1>2, <1>6, <1>8, ProgrammedTyped
<1>7. CASE /\ q.cmd = "erase"
           /\ flash' = [x \in DOMAIN flash |-> Empty]
           /\ Sends(<<Reply(q, 0, 0, <<>>)>>)
           /\ UNCHANGED written
  BY <1>2, <1>7, <1>8, Constants
<1> QED
  BY <1>4, <1>5, <1>6, <1>7 DEF Execute


\* Executing the write's chunk moves it from the requests to the acknowledgements and
\* programs it; executing anything else programs nothing of the write.
LEMMA ExecuteStep ==
  ASSUME WriteInv, Execute
  PROVE  WriteInv'
<1> USE DEF WriteInv
<1> DEFINE q == Head(toDevice)
<1>1. /\ toDevice # <<>> /\ toDevice' = Tail(toDevice)
      /\ toDevice \in Seq(RequestReport) /\ inbox \in Seq(ReplyReport)
      /\ UNCHANGED <<attached, handle, pc, call, loop, mixed, res>>
  BY DEF Execute, QueuesOK
<1>2. /\ q \in RequestReport /\ Tail(toDevice) \in Seq(RequestReport)
      /\ q = toDevice[1] /\ 1 \in DOMAIN toDevice
  BY <1>1, Taken
<1>3. PICK s : IsAnswer(q, s)
  BY <1>2, Answers
<1> HIDE DEF q
<1>4. /\ s \in Seq(ReplyReport) /\ Sends(s)
      /\ \A k \in DOMAIN s : s[k].cmd = q.cmd /\ s[k].own = q.own
      /\ q.cmd = "write" => \A k \in DOMAIN s : k = 1
      /\ flash' \in [Below(FlashSize) -> Byte]
  BY <1>3 DEF IsAnswer
<1>5. \/ /\ written' = written
         /\ q.cmd = "write" /\ q.own => \A k \in DOMAIN s : s[k].left # 0
      \/ q.cmd = "write" /\ q.own /\ written' = written \cup InPlace(q)
  BY <1>3 DEF IsAnswer
\* The replies come behind the reports that are queued.
<1>6. /\ inbox' \in Seq(ReplyReport)
      /\ \A i \in DOMAIN inbox' :
           \/ i \in DOMAIN inbox /\ inbox'[i] = inbox[i]
           \/ i \notin DOMAIN inbox /\ i - Len(inbox) \in DOMAIN s /\ inbox'[i] = s[i - Len(inbox)]
  BY <1>1, <1>4, Sent
<1>7. QueuesOK'
  BY <1>1, <1>2, <1>6 DEF QueuesOK
<1>8. written' \subseteq Below(len)
  BY <1>5 DEF InPlace, TypeOK
<1>9. TypeOK'
  <2>1. \A i \in DOMAIN toDevice' : toDevice'[i].at + toDevice'[i].n \in Nat
    BY <1>7, RequestSum DEF QueuesOK
  <2> QED
    BY <1>1, <1>4, <1>8, <2>1 DEF TypeOK, call, loop
<1>10. \A i : OwnWrite(toDevice', i) => i + 1 # 1 /\ OwnWrite(toDevice, i + 1)
  BY <1>1, TailOwns
\* A request that is no chunk of this call changes no count of it.
<1>11. CASE ~OwnWrite(toDevice, 1)
  <2>1. ~(q.own /\ q.cmd = "write") /\ written' = written
    BY <1>2, <1>5, <1>11 DEF OwnWrite
  <2>2. ChunksOK'
    BY <1>1, <2>1 DEF ChunksOK, call, loop
  <2>3. \A i : OwnWrite(inbox', i) => OwnWrite(inbox, i) /\ inbox'[i] = inbox[i]
    BY <1>4, <1>6, <2>1 DEF OwnWrite
  <2>5. Outside'
    <3> SUFFICES ASSUME NoneOwn PROVE NoneOwn'
      BY <1>1 DEF Outside
    <3> QED
      BY <1>10, <2>3 DEF NoneOwn, OwnWrite
  <2>4. ASSUME ~mixed' PROVE OneChunk'
    <3>0. OneChunk
      BY <1>1, <2>4
    <3>1. /\ pc' = "writeChunk" => written' = Below(len' - left')
          /\ pc' = "chunkReply" => written' \in {Below(inc'), Below(total')}
      BY <1>1, <2>1, <3>0 DEF OneChunk, call, loop
    <3>2. ASSUME NEW i \in DOMAIN toDevice', OwnWrite(toDevice', i)
          PROVE  /\ pc' = "chunkReply"
                 /\ toDevice'[i].at = off' + inc' /\ toDevice'[i].n = total' - inc'
                 /\ \A j \in 1 .. total' - inc' : toDevice'[i].bytes[j] = data'[inc' + j - 1]
                 /\ written' = Below(inc')
                 /\ \A k \in DOMAIN toDevice' : OwnWrite(toDevice', k) => k = i
                 /\ \A k \in DOMAIN inbox' : ~OwnWrite(inbox', k)
      <4>1. i + 1 \in DOMAIN toDevice /\ OwnWrite(toDevice, i + 1) /\ toDevice'[i] = toDevice[i + 1]
        BY <1>1, <1>10, <3>2, Taken DEF OwnWrite
      <4>2. /\ pc = "chunkReply"
            /\ toDevice[i + 1].at = off + inc /\ toDevice[i + 1].n = total - inc
            /\ \A j \in 1 .. total - inc : toDevice[i + 1].bytes[j] = data[inc + j - 1]
            /\ written = Below(inc)
            /\ \A k \in DOMAIN toDevice : OwnWrite(toDevice, k) => k = i + 1
            /\ \A k \in DOMAIN inbox : ~OwnWrite(inbox, k)
        BY <3>0, <4>1 DEF OneChunk
      <4>3. \A k \in DOMAIN toDevice' : OwnWrite(toDevice', k) => k = i
        <5>1. \A k \in DOMAIN toDevice' : k \in Nat
          BY <1>1, <1>2, LenProperties
        <5>2. \A k \in DOMAIN toDevice' : OwnWrite(toDevice', k) => k + 1 = i + 1
          BY <1>10, <4>2 DEF OwnWrite
        <5> QED
          BY <5>1, <5>2
      <4>4. \A k \in DOMAIN inbox' : ~OwnWrite(inbox', k)
        BY <2>3, <4>2 DEF OwnWrite
      <4> QED
        BY <1>1, <2>1, <4>1, <4>2, <4>3, <4>4 DEF call, loop
    <3>3. ASSUME NEW i \in DOMAIN inbox', OwnWrite(inbox', i)
          PROVE  /\ pc' = "chunkReply"
                 /\ inbox'[i].left = 0 => written' = Below(total')
                 /\ \A k \in DOMAIN inbox' : OwnWrite(inbox', k) => k = i
      <4>1. i \in DOMAIN inbox /\ OwnWrite(inbox, i) /\ inbox'[i] = inbox[i]
        BY <2>3, <3>3 DEF OwnWrite
      <4>2. /\ pc = "chunkReply"
            /\ inbox[i].left = 0 => written = Below(total)
            /\ \A k \in DOMAIN inbox : OwnWrite(inbox, k) => k = i
        BY <3>0, <4>1 DEF OneChunk
      <4> QED
        BY <1>1, <2>1, <2>3, <4>1, <4>2 DEF call, loop, OwnWrite
    <3> QED
      BY <3>1, <3>2, <3>3 DEF OneChunk
  <2> QED
    BY <1>7, <1>9, <2>2, <2>4, <2>5
\* The chunk under way, or one that was when the call took a report of another.
<1>12. CASE OwnWrite(toDevice, 1)
  <2>1. /\ q.own /\ q.cmd = "write" /\ pc \in {"writeChunk", "chunkReply"}
        /\ \A k \in DOMAIN s : k = 1
    BY <1>2, <1>4, <1>12 DEF OwnWrite, Outside, NoneOwn
  <2>2. ChunksOK' /\ Outside'
    BY <1>1, <2>1 DEF ChunksOK, Outside, call, loop
  <2>3. ASSUME ~mixed' PROVE OneChunk'
    <3>1. OneChunk /\ ~mixed
      BY <1>1, <2>3
    <3>2. /\ pc = "chunkReply"
          /\ q.at = off + inc /\ q.n = total - inc
          /\ \A j \in 1 .. total - inc : q.bytes[j] = data[inc + j - 1]
          /\ written = Below(inc)
          /\ \A k \in DOMAIN toDevice : OwnWrite(toDevice, k) => k = 1
          /\ \A k \in DOMAIN inbox : ~OwnWrite(inbox, k)
      BY <1>2, <1>12, <3>1 DEF OneChunk
    <3>3. /\ inc \in Nat /\ total \in Nat /\ off \in Nat /\ len \in Nat /\ left \in Nat
          /\ inc <= total /\ total <= len
      <4>1. /\ inc \in Nat /\ total \in Nat /\ off \in Nat /\ len \in Nat /\ left \in Nat
        BY Constants DEF TypeOK, Below
      <4>2. left > 0 /\ inc + left = len /\ total = inc + Lesser(left, WritePayload)
        BY <3>2 DEF ChunksOK
      <4>3. Lesser(left, WritePayload) \in Nat /\ Lesser(left, WritePayload) <= left
        BY <4>1, LesserIs, Constants
      <4> QED
        BY <4>1, <4>2, <4>3
    <3>4. InPlace(q) = inc .. total - 1
      <4>1. \A i \in Below(len) :
              (off + i \in q.at .. q.at + q.n - 1 /\ q.bytes[off + i - q.at + 1] = data[i])
              <=> i \in inc .. total - 1
        <5> SUFFICES ASSUME NEW i \in Below(len)
                     PROVE  (off + i \in q.at .. q.at + q.n - 1 /\ q.bytes[off + i - q.at + 1] = data[i])
                            <=> i \in inc .. total - 1
          OBVIOUS
        <5>1. i \in Nat
          BY <3>3, BelowIs
        <5>2. off + i \in q.at .. q.at + q.n - 1 <=> i \in inc .. total - 1
          BY <3>2, <3>3, <5>1
        <5>3. i \in inc .. total - 1 => q.bytes[i - inc + 1] = data[i]
          <6> SUFFICES ASSUME i \in inc .. total - 1 PROVE q.bytes[i - inc + 1] = data[i]
            OBVIOUS
          <6>1. i - inc + 1 \in 1 .. total - inc /\ inc + (i - inc + 1) - 1 = i
            BY <3>3, <5>1
          <6> QED
            BY <3>2, <6>1
        <5>4. off + i - q.at + 1 = i - inc + 1
          BY <3>2, <3>3, <5>1
        <5> QED
          BY <5>2, <5>3, <5>4
      <4>2. \A i \in inc .. total - 1 : i \in Below(len)
        BY <3>3, BelowIs
      <4> QED
        BY <4>1, <4>2 DEF InPlace
    <3>5. written \cup InPlace(q) = Below(total)
      BY <3>2, <3>3, <3>4, BelowIs
    <3>6. \A i : ~OwnWrite(toDevice', i)
      <4> SUFFICES ASSUME NEW i, OwnWrite(toDevice', i) PROVE FALSE
        OBVIOUS
      <4>1. i + 1 # 1 /\ OwnWrite(toDevice, i + 1)
        BY <1>10
      <4> QED
        BY <3>2, <4>1 DEF OwnWrite
    <3>7. \A i \in DOMAIN inbox' : OwnWrite(inbox', i) =>
            i - Len(inbox) \in DOMAIN s /\ inbox'[i] = s[i - Len(inbox)] /\ i = Len(inbox) + 1
      <4> SUFFICES ASSUME NEW i \in DOMAIN inbox', OwnWrite(inbox', i)
                   PROVE  i - Len(inbox) \in DOMAIN s /\ inbox'[i] = s[i - Len(inbox)] /\ i = Len(inbox) + 1
        OBVIOUS
      <4>1. i - Len(inbox) \in DOMAIN s /\ inbox'[i] = s[i - Len(inbox)]
        BY <1>6, <3>2 DEF OwnWrite
      <4>2. i \in Nat /\ Len(inbox) \in Nat
        BY <1>1, <1>6, LenProperties
      <4>3. i - Len(inbox) = 1
        BY <2>1, <4>1
      <4> QED
        BY <4>1, <4>2, <4>3
    <3>8. ASSUME NEW i \in DOMAIN inbox', OwnWrite(inbox', i)
          PROVE  /\ inbox'[i].left = 0 => written' = Below(total)
                 /\ \A k \in DOMAIN inbox' : OwnWrite(inbox', k) => k = i
      <4>1. i - Len(inbox) \in DOMAIN s /\ inbox'[i] = s[i - Len(inbox)] /\ i = Len(inbox) + 1
        BY <3>7, <3>8
      <4>2. inbox'[i].left = 0 => written' = written \cup InPlace(q)
        BY <1>5, <2>1, <4>1
      <4> QED
        BY <3>5, <3>7, <4>1, <4>2
    <3>9. written' \in {Below(inc), Below(total)}
      BY <1>5, <3>2, <3>5
    <3> QED
      BY <1>1, <3>2, <3>6, <3>8, <3>9 DEF OneChunk, call, loop
  <2> QED
    BY <1>7, <1>9, <2>2, <2>3
<1> QED
  BY <1>11, <1>12

\* A device that leaves takes all reports along, the write's with them.
LEMMA UnplugStep ==
  ASSUME WriteInv, Unplug
  PROVE  WriteInv'
<1> USE DEF WriteInv
<1>1. /\ attached' = FALSE /\ toDevice' = <<>> /\ inbox' = <<>>
      /\ handle' = IF handle = "open" THEN "dead" ELSE handle
      /\ UNCHANGED <<flash, pc, call, loop, mixed, written, res>>
  BY DEF Unplug
<1>2. TypeOK'
  <2>1. attached' \in BOOLEAN /\ mixed' \in BOOLEAN
    BY <1>1 DEF TypeOK
  <2>2. handle' \in {"open", "dead", "none"}
    BY <1>1 DEF TypeOK
  <2> QED
    BY <1>1, <2>1, <2>2 DEF TypeOK, call, loop
<1>3. QueuesOK' /\ ChunksOK' /\ Outside'
  BY <1>1 DEF QueuesOK, ChunksOK, Outside, NoneOwn, call, loop
<1>4. ASSUME ~mixed' PROVE OneChunk'
  BY <1>1, <1>4 DEF OneChunk, call, loop
<1> QED
  BY <1>2, <1>3, <1>4

\* A device that comes changes nothing but its presence.
LEMMA PlugStep ==
  ASSUME WriteInv, Plug
  PROVE  WriteInv'
<1> USE DEF WriteInv
<1>1. attached' = TRUE /\ UNCHANGED <<flash, toDevice, handle, inbox, pc, call, loop, mixed, written, res>>
  BY DEF Plug
<1>2. TypeOK'
  <2>1. attached' \in BOOLEAN /\ mixed' \in BOOLEAN
    BY <1>1 DEF TypeOK
  <2>2. \A i \in DOMAIN toDevice' : toDevice'[i].at + toDevice'[i].n \in Nat
    BY <1>1 DEF TypeOK
  <2> QED
    BY <1>1, <2>1, <2>2 DEF TypeOK, call, loop
<1>3. QueuesOK' /\ ChunksOK' /\ Outside'
  BY <1>1 DEF QueuesOK, ChunksOK, Outside, NoneOwn, OwnWrite, call, loop
<1>4. ASSUME ~mixed' PROVE OneChunk'
  BY <1>1, <1>4 DEF OneChunk, OwnWrite, call, loop
<1> QED
  BY <1>2, <1>3, <1>4

\* Nothing happens.
LEMMA StutterStep ==
  ASSUME WriteInv, UNCHANGED vars
  PROVE  WriteInv'
<1> USE DEF WriteInv
<1>1. UNCHANGED <<attached, flash, toDevice, handle, inbox, pc, op, off, len, data, left, inc,
                  batch, total, mixed, written, res>>
  BY DEF vars, device, call, loop
<1>2. TypeOK'
  BY <1>1 DEF TypeOK
<1>3. QueuesOK' /\ ChunksOK' /\ Outside'
  BY <1>1 DEF QueuesOK, ChunksOK, Outside, NoneOwn, OwnWrite
<1>4. ASSUME ~mixed' PROVE OneChunk'
  BY <1>1, <1>4 DEF OneChunk, OwnWrite
<1> QED
  BY <1>2, <1>3, <1>4

\* Every step keeps the invariant of the writes.
LEMMA WriteStep == WriteInv /\ [Next]_vars => WriteInv'
<1> SUFFICES ASSUME WriteInv, [Next]_vars PROVE WriteInv'
  OBVIOUS
<1>1. CASE Begin
  BY <1>1, BeginStep
<1>2. CASE Reconnect
  BY <1>2, ReconnectStep
<1>3. CASE ReadRequest
  BY <1>3, ReadRequestStep
<1>4. CASE ReadPacket
  BY <1>4, ReadPacketStep
<1>5. CASE WriteChunk
  BY <1>5, WriteChunkStep
<1>6. CASE ChunkReply
  BY <1>6, ChunkReplyStep
<1>7. CASE EraseRequest
  BY <1>7, EraseRequestStep
<1>8. CASE EraseReply
  BY <1>8, EraseReplyStep
<1>9. CASE ReadError
  BY <1>9, ReadErrorStep
<1>10. CASE Execute
  BY <1>10, ExecuteStep
<1>11. CASE Unplug
  BY <1>11, UnplugStep
<1>12. CASE Plug
  BY <1>12, PlugStep
<1>13. CASE UNCHANGED vars
  BY <1>13, StutterStep
<1> QED
  BY <1>1, <1>2, <1>3, <1>4, <1>5, <1>6, <1>7, <1>8, <1>9, <1>10, <1>11, <1>12, <1>13
  DEF Next, Step

\* The invariant the theorems of this module, and those about reads, rest on.
LEMMA WriteAlways == Spec => []WriteInv
<1> QED
  BY WriteInit, WriteStep, PTL DEF Spec

-----------------------------------------------------------------------------
(* Theorems. *)

\* The values of readFlash, writeFlash and eraseFlash stay within their types:
\* no index is negative and no batch longer than MAX_READ_FLASH_PACKETS.
THEOREM FlashTypeCorrect == Spec => []TypeOK
<1>1. WriteInv => TypeOK
  BY DEF WriteInv
<1> QED
  BY <1>1, WriteAlways, PTL

\* When writeFlash returns OK every byte was programmed at its place, for every
\* offset and length, unless it took an acknowledgement that was another call's.
THEOREM WritesComplete == Spec => []WriteComplete
<1>1. WriteInv => WriteComplete
  <2> SUFFICES ASSUME WriteInv, pc = "writeChunk", left = 0, ~mixed PROVE written = Below(len)
    BY DEF WriteComplete
  <2>1. len \in Nat
    BY Constants DEF WriteInv, TypeOK, Below
  <2> QED
    BY <2>1 DEF WriteInv, OneChunk
<1> QED
  BY <1>1, WriteAlways, PTL

\* A writeFlash that fails, at whatever step, leaves the first bytes of the data
\* in flash, as many as make it up to a chunk, and none of the others.
THEOREM WritesInOrder == Spec => []WrittenInOrder
<1>1. WriteInv => WrittenInOrder
  <2> SUFFICES ASSUME WriteInv, ~mixed PROVE \E n \in 0 .. len : written = Below(n)
    BY DEF WrittenInOrder
  <2>1. len \in Nat /\ left \in Nat /\ inc \in Nat /\ total \in Nat
    BY Constants DEF WriteInv, TypeOK, Below
  <2>2. CASE pc = "writeChunk"
    <3>1. written = Below(len - left) /\ left <= len
      BY <2>2 DEF WriteInv, OneChunk, ChunksOK
    <3>2. len - left \in 0 .. len
      BY <2>1, <3>1
    <3> QED
      BY <3>1, <3>2
  <2>3. CASE pc = "chunkReply"
    <3>1. /\ written \in {Below(inc), Below(total)}
          /\ inc + left = len /\ total = inc + Lesser(left, WritePayload)
      BY <2>3 DEF WriteInv, OneChunk, ChunksOK
    <3>2. Lesser(left, WritePayload) \in Nat /\ Lesser(left, WritePayload) <= left
      BY <2>1, LesserIs, Constants
    <3>3. inc \in 0 .. len /\ total \in 0 .. len
      BY <2>1, <3>1, <3>2
    <3> QED
      BY <3>1, <3>3
  <2>4. CASE pc \notin {"writeChunk", "chunkReply"}
    <3>1. written = {}
      BY <2>4 DEF WriteInv, ChunksOK
    <3>2. Below(0) = {} /\ 0 \in 0 .. len
      BY <2>1, BelowIs
    <3> QED
      BY <3>1, <3>2
  <2> QED
    BY <2>2, <2>3, <2>4
<1> QED
  BY <1>1, WriteAlways, PTL
=============================================================================
