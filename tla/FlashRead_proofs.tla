-------------------------- MODULE FlashRead_proofs --------------------------
(***************************************************************************)
(* What readFlash has put into the buffer, after every packet and for      *)
(* every size of the flash, of a packet, of a batch and of the buffer; and *)
(* that every transfer comes to its end.                                   *)
(***************************************************************************)
EXTENDS FlashTransfer_proofs

\* The bytes of k packets.
Bytes(k) == k * ReadPayload

\* The packets of the batch that is under way, or of the one to come.
InBatch == Lesser(left, MaxBatch)

\* No call is past the loop of readFlash, or in eraseFlash.
Reading == pc \in {"idle", "open", "readRequest", "readPacket"}

\* The counters of readFlash: batches lie one behind the other, and packets in
\* a batch.
PacketsOK ==
  /\ pc \in {"idle", "open"} => inc = 0 /\ total = 0
  /\ pc = "open" /\ op # "erase" => left = PacketsFor(len) /\ buffer = [i \in Below(len) |-> Empty]
  /\ pc \in {"readRequest", "readPacket"} /\ left > 0 =>
       left <= PacketsFor(len) /\ inc = Bytes(PacketsFor(len) - left)
  /\ pc = "readRequest" => total = IF left > 0 THEN inc ELSE len
  /\ pc = "readPacket" =>
       left > 0 /\ batch \in 1 .. InBatch /\ total = inc + Bytes(InBatch - batch)

\* The bytes received are those of flash.
BufferOK ==
  pc \in {"readRequest", "readPacket"} =>
    /\ buffer \in [Below(len) -> Byte]
    /\ \A i \in Below(total) : buffer[i] = flash[off + i]

\* The request of the call is the last the device has, and comes before the
\* reports that answer it.  Once a packet is received the device has executed
\* what earlier calls left behind, so nothing changes the flash any more.
RequestOK ==
  Reading =>
    /\ \A i \in DOMAIN toDevice : toDevice[i].own =>
         /\ pc = "readPacket" /\ i = Len(toDevice)
         /\ toDevice[i].cmd = "read" /\ toDevice[i].at = off + inc /\ toDevice[i].n = InBatch
         /\ \A k \in DOMAIN inbox : ~inbox[k].own
    /\ total > 0 => \A i \in DOMAIN toDevice : toDevice[i].own

\* A packet of a batch of b from address a on, unless it is a refusal: its place
\* is the one its count of packets left says, and its bytes are those of flash.
PacketOK(r, b, a, bytes) ==
  r.left < 250 =>
    /\ r.left < b /\ r.at = Bytes(b - 1 - r.left)
    /\ \A j \in Below(ReadPayload) :
         a + r.at + j < FlashSize => r.bytes[j] = bytes[a + r.at + j]

\* The packets of the call are numbered downwards.
ReportsOK ==
  Reading =>
    \A i \in DOMAIN inbox : inbox[i].own =>
      /\ pc = "readPacket" /\ toDevice = <<>> /\ PacketOK(inbox[i], InBatch, off + inc, flash)
      /\ \A k \in DOMAIN inbox : k > i /\ inbox[k].own => inbox[k].left < inbox[i].left

ReadInv == PacketsOK /\ (~mixed => BufferOK /\ RequestOK /\ ReportsOK)

-----------------------------------------------------------------------------
(* Packets and bytes. *)

\* A packet has at least a byte, and packets laid end to end add up.
LEMMA BytesAre ==
  /\ ReadPayload \in Nat \ {0}
  /\ \A k \in Nat : Bytes(k) \in Nat
  /\ \A a, b \in Nat : Bytes(a + b) = Bytes(a) + Bytes(b)
  /\ Bytes(0) = 0 /\ Bytes(1) = ReadPayload
<1> DEFINE P == ReadPayload
<1>1. P \in Nat \ {0}
  BY Constants
<1> HIDE DEF P
<1>2. \A k \in Nat : k * P \in Nat
  BY <1>1, SMTT(30)
<1>3. \A a, b \in Nat : (a + b) * P = a * P + b * P
  BY <1>1, SMTT(30)
<1>4. 0 * P = 0 /\ 1 * P = P
  BY <1>1
<1> QED
  BY <1>1, <1>2, <1>3, <1>4 DEF Bytes, P

\* The packets of n bytes hold all of them, and fewer packets do not.
LEMMA PacketsAre ==
  ASSUME NEW n \in Nat
  PROVE  /\ PacketsFor(n) \in Nat /\ n <= Bytes(PacketsFor(n))
         /\ \A k \in Nat : k < PacketsFor(n) => Bytes(k) < n
<1> DEFINE P == ReadPayload
           q == n \div P
           r == n % P
           N == PacketsFor(n)
<1>1. P \in Nat \ {0}
  BY Constants
<1>2. N = q + (IF r = 0 THEN 0 ELSE 1)
  BY DEF PacketsFor
<1> HIDE DEF P, N
<1>3. q \in Nat /\ r \in Nat /\ r < P /\ n = q * P + r
  BY <1>1, SMTT(30)
<1> HIDE DEF q, r
<1>4. N \in Nat
  BY <1>2, <1>3
<1>5. n <= N * P
  <2>1. (q + 1) * P = q * P + P
    BY <1>1, <1>3, SMTT(30)
  <2>2. q * P \in Nat
    BY <1>1, <1>3, SMTT(30)
  <2>3. n <= (q + 1) * P
    BY <1>1, <1>3, <2>1, <2>2
  <2> QED
    BY <1>2, <1>3, <2>2, <2>3
<1>6. ASSUME NEW k \in Nat, k < N PROVE k * P < n
  <2>1. CASE k < q
    <3>1. k * P + P <= q * P
      BY <1>1, <1>3, <2>1, SMTT(30)
    <3>2. k * P \in Nat /\ q * P \in Nat
      BY <1>1, <1>3, SMTT(30)
    <3> QED
      BY <1>1, <1>3, <3>1, <3>2
  <2>2. CASE ~(k < q)
    <3>1. k = q /\ r # 0
      BY <1>2, <1>3, <1>6, <2>2
    <3>2. q * P \in Nat
      BY <1>1, <1>3, SMTT(30)
    <3> QED
      BY <1>3, <3>1, <3>2
  <2> QED
    BY <2>1, <2>2
<1> QED
  BY <1>4, <1>5, <1>6 DEF Bytes, P, N

\* The counters of a transfer and the queues have their types.
LEMMA Numbers ==
  ASSUME WriteInv
  PROVE  /\ off \in Nat /\ len \in Nat /\ off + len <= FlashSize /\ FlashSize \in Nat
         /\ left \in Nat /\ inc \in Nat /\ total \in Nat /\ batch \in Nat
         /\ MaxBatch \in Nat \ {0} /\ MaxBatch < 250
         /\ InBatch \in Nat /\ InBatch = IF left < MaxBatch THEN left ELSE MaxBatch
         /\ toDevice \in Seq(RequestReport) /\ inbox \in Seq(ReplyReport)
         /\ flash \in [Below(FlashSize) -> Byte] /\ mixed \in BOOLEAN
<1>1. /\ off \in Nat /\ len \in Nat /\ off + len <= FlashSize /\ FlashSize \in Nat
      /\ left \in Nat /\ inc \in Nat /\ total \in Nat /\ batch \in Nat
  BY Constants DEF WriteInv, TypeOK, Below
<1>2. MaxBatch \in Nat \ {0} /\ MaxBatch < 250
  BY FlashAssumption
<1>3. /\ toDevice \in Seq(RequestReport) /\ inbox \in Seq(ReplyReport)
      /\ flash \in [Below(FlashSize) -> Byte] /\ mixed \in BOOLEAN
  BY DEF WriteInv, TypeOK, QueuesOK
<1> QED
  BY <1>1, <1>2, <1>3 DEF InBatch, Lesser

\* Where the next packet ends: before the end of the buffer where another packet
\* follows it, at the end where it is the last.
LEMMA NextPacket ==
  ASSUME WriteInv, PacketsOK, pc = "readPacket"
  PROVE  /\ Copied \in Nat /\ Copied <= ReadPayload /\ total + Copied <= len
         /\ batch > 1 => total + Copied = inc + Bytes(InBatch - (batch - 1))
         /\ batch = 1 /\ left > MaxBatch =>
              /\ total + Copied = inc + Bytes(MaxBatch)
              /\ inc + Bytes(MaxBatch) = Bytes(PacketsFor(len) - (left - MaxBatch))
              /\ left - MaxBatch <= PacketsFor(len)
         /\ batch = 1 /\ left <= MaxBatch => total + Copied = len
<1> DEFINE N == PacketsFor(len)
           B == InBatch
           P == ReadPayload
           done == N - left + (B - batch)
<1>1. /\ len \in Nat /\ left \in Nat /\ inc \in Nat /\ total \in Nat /\ batch \in Nat
      /\ MaxBatch \in Nat \ {0} /\ B \in Nat /\ B = IF left < MaxBatch THEN left ELSE MaxBatch
  BY Numbers
<1>2. /\ left > 0 /\ batch \in 1 .. B /\ total = inc + Bytes(B - batch)
      /\ left <= N /\ inc = Bytes(N - left)
  BY DEF PacketsOK
<1>3. N \in Nat /\ len <= Bytes(N) /\ \A k \in Nat : k < N => Bytes(k) < len
  BY <1>1, PacketsAre
<1>4. P \in Nat \ {0} /\ \A k \in Nat : Bytes(k + 1) = Bytes(k) + P
  BY BytesAre
<1>5. Copied = IF total < len THEN (IF P < len - total THEN P ELSE len - total) ELSE 0
  BY DEF Copied, Lesser
<1> HIDE DEF N, B, P
<1>6. N - left \in Nat /\ B - batch \in Nat /\ done \in Nat /\ done + 1 \in Nat /\ done < N
  BY <1>1, <1>2, <1>3
<1>7. total = Bytes(done)
  BY <1>2, <1>6, BytesAre
<1>8. Bytes(done + 1) = total + P /\ total < len
  BY <1>3, <1>4, <1>6, <1>7
<1>9. Copied \in Nat /\ Copied <= P /\ total + Copied <= len
  BY <1>1, <1>4, <1>5, <1>8
<1>10. ASSUME done + 1 < N PROVE Copied = P
  <2>1. total + P < len
    BY <1>3, <1>6, <1>8, <1>10
  <2> QED
    BY <1>1, <1>4, <1>5, <2>1
<1>11. ASSUME batch > 1 PROVE total + Copied = inc + Bytes(B - (batch - 1))
  <2>1. done + 1 < N
    BY <1>1, <1>2, <1>3, <1>11
  <2>2. B - (batch - 1) = (B - batch) + 1 /\ B - batch \in Nat
    BY <1>1, <1>2
  <2>3. Bytes(B - (batch - 1)) = Bytes(B - batch) + P
    BY <1>4, <2>2
  <2>4. Bytes(B - batch) \in Nat
    BY <1>6, BytesAre
  <2> QED
    BY <1>1, <1>2, <1>4, <1>10, <2>1, <2>3, <2>4
<1>12. ASSUME batch = 1, left > MaxBatch
       PROVE  /\ total + Copied = inc + Bytes(MaxBatch)
              /\ inc + Bytes(MaxBatch) = Bytes(N - (left - MaxBatch))
              /\ left - MaxBatch <= N
  <2>1. done + 1 < N /\ B = MaxBatch
    BY <1>1, <1>2, <1>3, <1>12
  <2>2. done + 1 = (N - left) + MaxBatch /\ N - (left - MaxBatch) = (N - left) + MaxBatch
    BY <1>1, <1>3, <1>12, <2>1
  <2>3. Bytes((N - left) + MaxBatch) = inc + Bytes(MaxBatch)
    BY <1>1, <1>2, <1>6, BytesAre
  <2>4. total + Copied = Bytes(done + 1)
    BY <1>8, <1>10, <2>1
  <2>5. left - MaxBatch <= N
    BY <1>1, <1>2, <1>3
  <2> HIDE DEF done
  <2> QED
    BY <2>2, <2>3, <2>4, <2>5
<1>13. ASSUME batch = 1, left <= MaxBatch PROVE total + Copied = len
  <2>1. done + 1 = N
    BY <1>1, <1>2, <1>3, <1>13
  <2>2. len <= total + P
    BY <1>3, <1>8, <2>1
  <2> QED
    BY <1>1, <1>4, <1>5, <1>8, <2>2
<1> QED
  BY <1>9, <1>11, <1>12, <1>13 DEF N, B, P

-----------------------------------------------------------------------------
(* Returns, and the steps that take no part in readFlash. *)

\* A report of a call that has returned is nobody's.
LEMMA Forgotten ==
  /\ \A x, y : x = [y EXCEPT !.own = FALSE] /\ x \in RequestReport => ~x.own
  /\ \A x, y : x = [y EXCEPT !.own = FALSE] /\ x \in ReplyReport => ~x.own
<1>1. \A x, y : x = [y EXCEPT !.own = FALSE] /\ "own" \in DOMAIN x => ~x.own
  <2> SUFFICES ASSUME NEW x, NEW y, x = [y EXCEPT !.own = FALSE], "own" \in DOMAIN x
               PROVE  ~x.own
    OBVIOUS
  <2>1. DOMAIN [y EXCEPT !.own = FALSE] = DOMAIN y
    BY Zenon
  <2>2. "own" \in DOMAIN y
    BY <2>1, Zenon
  <2> QED
    BY <2>2, Zenon
<1>2. /\ \A x \in RequestReport : "own" \in DOMAIN x
      /\ \A x \in ReplyReport : "own" \in DOMAIN x
  BY DEF RequestReport, ReplyReport
<1> QED
  BY <1>1, <1>2, Zenon

\* A call that is over has left nothing of its own.
LEMMA ReturnForgets ==
  ASSUME WriteInv', NEW r, NEW q, NEW box, Return(r, q, box)
  PROVE  ReadInv'
<1>1. /\ pc' = "idle" /\ inc' = 0 /\ total' = 0
      /\ toDevice' = Disown(q) /\ inbox' = Disown(box)
  BY DEF Return
<1>2. toDevice' \in Seq(RequestReport) /\ inbox' \in Seq(ReplyReport)
  BY DEF WriteInv, QueuesOK
<1>3. /\ \A i \in DOMAIN toDevice' : toDevice'[i] \in RequestReport
      /\ \A i \in DOMAIN inbox' : inbox'[i] \in ReplyReport
  BY <1>2, LenProperties, ElementOfSeq
<1>4. ASSUME NEW i \in DOMAIN toDevice' PROVE ~toDevice'[i].own
  <2>1. toDevice'[i] = [q[i] EXCEPT !.own = FALSE]
    BY <1>1, <1>4, Zenon DEF Disown
  <2> QED
    BY <1>3, <1>4, <2>1, Forgotten, Zenon
<1>5. ASSUME NEW i \in DOMAIN inbox' PROVE ~inbox'[i].own
  <2>1. inbox'[i] = [box[i] EXCEPT !.own = FALSE]
    BY <1>1, <1>5, Zenon DEF Disown
  <2> QED
    BY <1>3, <1>5, <2>1, Forgotten, Zenon
<1>6. PacketsOK' /\ BufferOK'
  BY <1>1 DEF PacketsOK, BufferOK
<1>7. RequestOK' /\ ReportsOK'
  BY <1>1, <1>4, <1>5 DEF RequestOK, ReportsOK
<1> QED
  BY <1>6, <1>7 DEF ReadInv

\* Past the loop of readFlash there is nothing left to say of it.
LEMMA ReadElsewhere ==
  ASSUME pc' \in {"writeChunk", "chunkReply", "eraseRequest", "eraseReply"}
  PROVE  ReadInv'
<1>1. PacketsOK' /\ BufferOK'
  BY DEF PacketsOK, BufferOK
<1>2. ~Reading'
  BY DEF Reading
<1>3. RequestOK' /\ ReportsOK'
  BY <1>2 DEF RequestOK, ReportsOK
<1> QED
  BY <1>1, <1>3 DEF ReadInv

\* writeFlash, eraseFlash and a failed read leave the loop of readFlash, or are never in it.
LEMMA ReadOutsideSteps ==
  ASSUME WriteInv', WriteChunk \/ ChunkReply \/ EraseRequest \/ EraseReply \/ ReadError
  PROVE  ReadInv'
<1>1. \/ \E r, q, box : Return(r, q, box)
      \/ pc' \in {"writeChunk", "chunkReply", "eraseReply"}
  <2>1. CASE WriteChunk
    BY <2>1 DEF WriteChunk, WriteError
  <2>2. CASE ChunkReply
    BY <2>2 DEF ChunkReply
  <2>3. CASE EraseRequest
    BY <2>3 DEF EraseRequest
  <2>4. CASE EraseReply
    BY <2>4 DEF EraseReply
  <2>5. CASE ReadError
    BY <2>5 DEF ReadError
  <2> QED
    BY <2>1, <2>2, <2>3, <2>4, <2>5
<1> QED
  BY <1>1, ReturnForgets, ReadElsewhere

\* Steps of the device's bus, and stuttering.
LEMMA SameCall ==
  ASSUME ReadInv, UNCHANGED <<flash, pc, call, loop, mixed>>,
         UNCHANGED <<toDevice, inbox>> \/ (toDevice' = <<>> /\ inbox' = <<>>)
  PROVE  ReadInv'
<1>1. UNCHANGED <<flash, pc, op, off, len, buffer, left, inc, batch, total, mixed>>
  BY DEF call, loop
<1>2. PacketsOK'
  BY <1>1 DEF ReadInv, PacketsOK, InBatch
<1>3. BufferOK => BufferOK'
  BY <1>1 DEF BufferOK
<1>4. CASE UNCHANGED <<toDevice, inbox>>
  <2>1. RequestOK => RequestOK'
    BY <1>1, <1>4 DEF RequestOK, Reading, InBatch
  <2>2. ReportsOK => ReportsOK'
    BY <1>1, <1>4 DEF ReportsOK, Reading, InBatch
  <2> QED
    BY <1>1, <1>2, <1>3, <2>1, <2>2 DEF ReadInv
<1>5. CASE toDevice' = <<>> /\ inbox' = <<>>
  <2>1. RequestOK' /\ ReportsOK'
    BY <1>5 DEF RequestOK, ReportsOK
  <2> QED
    BY <1>1, <1>2, <1>3, <2>1 DEF ReadInv
<1> QED
  BY <1>4, <1>5

\* No call is under way at first.
LEMMA ReadInit == Init => ReadInv
<1> SUFFICES ASSUME Init PROVE ReadInv
  OBVIOUS
<1>1. pc = "idle" /\ inc = 0 /\ total = 0 /\ toDevice = <<>> /\ inbox = <<>>
  BY DEF Init
<1>2. PacketsOK /\ BufferOK
  BY <1>1 DEF PacketsOK, BufferOK
<1>3. RequestOK /\ ReportsOK
  BY <1>1 DEF RequestOK, ReportsOK
<1> QED
  BY <1>2, <1>3 DEF ReadInv

-----------------------------------------------------------------------------
(* A call begins. *)

\* The counters and the buffer of a call before its first request.
LEMMA FirstBatch ==
  ASSUME NEW n \in Nat
  PROVE  /\ Bytes(PacketsFor(n) - PacketsFor(n)) = 0 /\ (PacketsFor(n) = 0 => n = 0)
         /\ PacketsFor(n) \in Nat /\ PacketsFor(n) <= PacketsFor(n)
         /\ [i \in Below(n) |-> Empty] \in [Below(n) -> Byte]
<1> DEFINE N == PacketsFor(n)
<1>1. N \in Nat /\ n <= Bytes(N)
  BY PacketsAre
<1>2. Bytes(0) = 0
  BY BytesAre
<1>3. [i \in Below(n) |-> Empty] \in [Below(n) -> Byte]
  BY Constants
<1> HIDE DEF N
<1>4. N - N = 0 /\ N <= N
  BY <1>1
<1>5. N = 0 => n = 0
  BY <1>1, <1>2
<1> QED
  BY <1>1, <1>2, <1>3, <1>4, <1>5 DEF N

\* Before the first request nothing in the queues belongs to the call.
LEMMA ReadyToRead ==
  ASSUME WriteInv', pc' = "readRequest", inc' = 0, total' = 0, left' = PacketsFor(len'),
         buffer' = [i \in Below(len') |-> Empty],
         ~mixed' => /\ \A i \in DOMAIN toDevice' : ~toDevice'[i].own
                    /\ \A i \in DOMAIN inbox' : ~inbox'[i].own
  PROVE  ReadInv'
<1>1. len' \in Nat
  BY Constants DEF WriteInv, TypeOK, Below
<1>2. /\ Bytes(PacketsFor(len') - PacketsFor(len')) = 0 /\ (PacketsFor(len') = 0 => len' = 0)
      /\ PacketsFor(len') \in Nat /\ PacketsFor(len') <= PacketsFor(len')
      /\ [i \in Below(len') |-> Empty] \in [Below(len') -> Byte]
  BY <1>1, FirstBatch
<1>3. PacketsOK'
  BY <1>2 DEF PacketsOK
<1>4. BufferOK'
  BY <1>2, BelowIs DEF BufferOK
<1>5. ~mixed' => RequestOK' /\ ReportsOK'
  BY DEF RequestOK, ReportsOK
<1> QED
  BY <1>3, <1>4, <1>5 DEF ReadInv

\* flash.py starts a call with an empty buffer and its counters at 0.
LEMMA ReadBegin ==
  ASSUME WriteInv, ReadInv, WriteInv', Begin
  PROVE  ReadInv'
<1>1. /\ pc = "idle" /\ inc = 0 /\ total = 0
      /\ UNCHANGED <<toDevice, inbox, inc, total, mixed>>
  BY DEF Begin, ReadInv, PacketsOK
<1>2. inc' = 0 /\ total' = 0
  BY <1>1
<1>3. ~mixed' => /\ \A i \in DOMAIN toDevice' : ~toDevice'[i].own
                 /\ \A i \in DOMAIN inbox' : ~inbox'[i].own
  BY <1>1 DEF ReadInv, RequestOK, ReportsOK, Reading
<1>4. CASE /\ left' = PacketsFor(len') /\ buffer' = [i \in Below(len') |-> Empty]
           /\ pc' = IF handle = "none" THEN "open" ELSE "readRequest"
  <2>1. CASE pc' = "readRequest"
    BY <1>2, <1>3, <1>4, <2>1, ReadyToRead
  <2>2. CASE pc' = "open"
    <3>1. PacketsOK' /\ BufferOK'
      BY <1>2, <1>4, <2>2 DEF PacketsOK, BufferOK
    <3>2. ~mixed' => RequestOK' /\ ReportsOK'
      BY <1>2, <1>3, <2>2 DEF RequestOK, ReportsOK
    <3> QED
      BY <3>1, <3>2 DEF ReadInv
  <2> QED
    BY <1>4, <2>1, <2>2
<1>5. CASE op' = "erase" /\ pc' = IF handle = "none" THEN "open" ELSE "eraseRequest"
  <2>1. CASE pc' = "eraseRequest"
    BY <2>1, ReadElsewhere
  <2>2. CASE pc' = "open"
    <3>1. PacketsOK' /\ BufferOK'
      BY <1>2, <1>5, <2>2 DEF PacketsOK, BufferOK
    <3>2. ~mixed' => RequestOK' /\ ReportsOK'
      BY <1>2, <1>3, <2>2 DEF RequestOK, ReportsOK
    <3> QED
      BY <3>1, <3>2 DEF ReadInv
  <2> QED
    BY <1>5, <2>1, <2>2
<1> QED
  BY <1>4, <1>5 DEF Begin

\* A reconnection in front of a transfer empties the handle's queue and keeps the counters.
LEMMA ReadReconnect ==
  ASSUME WriteInv, ReadInv, WriteInv', Reconnect
  PROVE  ReadInv'
<1>1. pc = "open" /\ inc = 0 /\ total = 0
      /\ (op # "erase" => left = PacketsFor(len) /\ buffer = [i \in Below(len) |-> Empty])
  BY DEF Reconnect, ReadInv, PacketsOK
<1>2. CASE /\ inbox' = <<>>
           /\ pc' = IF op = "erase" THEN "eraseRequest" ELSE "readRequest"
           /\ UNCHANGED <<toDevice, call, loop, mixed>>
  <2>1. CASE op = "erase"
    BY <1>2, <2>1, ReadElsewhere
  <2>2. CASE op # "erase"
    <3>1. /\ pc' = "readRequest" /\ inc' = 0 /\ total' = 0 /\ left' = PacketsFor(len')
          /\ buffer' = [i \in Below(len') |-> Empty]
      BY <1>1, <1>2, <2>2 DEF call, loop
    <3>2. ~mixed' => /\ \A i \in DOMAIN toDevice' : ~toDevice'[i].own
                     /\ \A i \in DOMAIN inbox' : ~inbox'[i].own
      BY <1>1, <1>2 DEF ReadInv, RequestOK, Reading
    <3> QED
      BY <3>1, <3>2, ReadyToRead
  <2> QED
    BY <2>1, <2>2
<1>3. CASE Return("failed", toDevice, <<>>)
  BY <1>3, ReturnForgets
<1> QED
  BY <1>2, <1>3 DEF Reconnect

-----------------------------------------------------------------------------
(* The loop of readFlash. *)

\* A request asks for the batch behind those received, or the loop ends with the
\* buffer full.
LEMMA ReadReadRequest ==
  ASSUME WriteInv, ReadInv, WriteInv', ReadRequest
  PROVE  ReadInv'
<1> DEFINE n == Lesser(left, MaxBatch)
           r == Request("read", off + inc, n, <<>>)
<1>1. /\ pc = "readRequest" /\ UNCHANGED <<device, handle>>
      /\ toDevice \in Seq(RequestReport)
  BY Numbers DEF ReadRequest
<1>2. CASE left = 0 /\ op = "read" /\ Return("ok", toDevice, inbox)
  BY <1>2, ReturnForgets
<1>3. CASE pc' = "writeChunk"
  BY <1>3, ReadElsewhere
<1>4. CASE WriteError(r)
  BY <1>4, ReturnForgets DEF WriteError
<1>5. CASE /\ left > 0
           /\ toDevice' = Append(toDevice, r)
           /\ pc' = "readPacket" /\ batch' = n
           /\ UNCHANGED <<inbox, call, buffer, left, inc, total, mixed, written, res>>
  <2>1. /\ r.cmd = "read" /\ r.at = off + inc /\ r.n = n /\ r.own
    BY DEF Request
  <2>2. n = InBatch
    BY DEF InBatch
  <2>3. r \in RequestReport
    <3>1. off + inc \in Nat /\ n \in Nat
      BY <2>2, Numbers
    <3> HIDE DEF n
    <3> QED
      BY <3>1 DEF Request, RequestReport, Command
  <2> HIDE DEF n, r
  <2>4. /\ UNCHANGED <<flash, inbox, off, len, buffer, left, inc, total, mixed>>
        /\ pc' = "readPacket" /\ batch' = n /\ InBatch' = InBatch
    BY <1>1, <1>5 DEF device, call, InBatch
  <2>5. PacketsOK'
    <3>1. /\ left > 0 /\ left <= PacketsFor(len) /\ inc = Bytes(PacketsFor(len) - left) /\ total = inc
      BY <1>1, <1>5 DEF ReadInv, PacketsOK
    <3>2. InBatch \in 1 .. InBatch /\ InBatch - InBatch = 0 /\ inc + Bytes(0) = inc
      <4>1. InBatch \in Nat \ {0} /\ inc \in Nat
        BY <1>5, Numbers
      <4> QED
        BY <4>1, BytesAre
    <3>3. batch' \in 1 .. InBatch' /\ total' = inc' + Bytes(InBatch' - batch')
      BY <2>2, <2>4, <3>1, <3>2
    <3> QED
      BY <1>5, <2>4, <3>1, <3>3 DEF PacketsOK
  <2>6. ASSUME ~mixed' PROVE BufferOK' /\ RequestOK' /\ ReportsOK'
    <3>1. BufferOK /\ RequestOK /\ ReportsOK
      BY <2>4, <2>6 DEF ReadInv
    <3>2. /\ \A i \in DOMAIN toDevice : ~toDevice[i].own
          /\ \A i \in DOMAIN inbox : ~inbox[i].own
          /\ total > 0 => \A i \in DOMAIN toDevice : toDevice[i].own
      BY <1>1, <3>1 DEF RequestOK, ReportsOK, Reading
    <3>3. /\ DOMAIN toDevice' = DOMAIN toDevice \cup {Len(toDevice) + 1}
          /\ Len(toDevice') = Len(toDevice) + 1
          /\ \A i \in DOMAIN toDevice : toDevice'[i] = toDevice[i]
          /\ toDevice'[Len(toDevice) + 1] = r
      BY <1>1, <1>5, <2>3, Appended
    <3>4. BufferOK'
      BY <1>1, <2>4, <3>1 DEF BufferOK
    <3>5. RequestOK'
      <4>1. ASSUME NEW i \in DOMAIN toDevice', toDevice'[i].own
            PROVE  /\ i = Len(toDevice') /\ toDevice'[i] = r
        BY <3>2, <3>3, <4>1
      <4>2. \A k \in DOMAIN inbox' : ~inbox'[k].own
        BY <2>4, <3>2
      <4>3. total' > 0 => \A i \in DOMAIN toDevice' : toDevice'[i].own
        BY <2>1, <2>4, <3>2, <3>3
      <4>4. \A i \in DOMAIN toDevice' : toDevice'[i].own =>
              /\ pc' = "readPacket" /\ i = Len(toDevice')
              /\ toDevice'[i].cmd = "read" /\ toDevice'[i].at = off' + inc' /\ toDevice'[i].n = InBatch'
        BY <2>1, <2>2, <2>4, <4>1
      <4> QED
        BY <4>2, <4>3, <4>4 DEF RequestOK
    <3>6. ReportsOK'
      BY <2>4, <3>2 DEF ReportsOK
    <3> QED
      BY <3>4, <3>5, <3>6
  <2> QED
    BY <2>5, <2>6 DEF ReadInv
<1> QED
  BY <1>2, <1>3, <1>4, <1>5 DEF ReadRequest

\* The part of the buffer a packet of the call fills is the next.
LEMMA NextPlace ==
  ASSUME WriteInv, PacketsOK, pc = "readPacket",
         NEW r, r.left = batch - 1, PacketOK(r, InBatch, off + inc, flash)
  PROVE  /\ \A i : i \in DOMAIN Placed(r) <=> i \in Nat /\ total <= i /\ i < total + Copied
         /\ \A i \in DOMAIN Placed(r) : Placed(r)[i] = flash[off + i]
<1>1. /\ off \in Nat /\ len \in Nat /\ off + len <= FlashSize /\ FlashSize \in Nat
      /\ inc \in Nat /\ total \in Nat /\ batch \in Nat /\ MaxBatch < 250
      /\ InBatch \in Nat /\ InBatch <= MaxBatch /\ MaxBatch \in Nat
  BY Numbers
<1>2. batch \in 1 .. InBatch /\ total = inc + Bytes(InBatch - batch)
  BY DEF PacketsOK
<1>3. Copied \in Nat /\ Copied <= ReadPayload /\ total + Copied <= len /\ ReadPayload \in Nat
  BY NextPacket, BytesAre
<1>4. /\ r.at = Bytes(InBatch - 1 - r.left)
      /\ \A j \in Below(ReadPayload) :
           off + inc + r.at + j < FlashSize => r.bytes[j] = flash[off + inc + r.at + j]
  BY <1>1, <1>2 DEF PacketOK
<1>5. InBatch - 1 - r.left = InBatch - batch
  BY <1>1, <1>2
<1>6. InBatch - batch \in Nat /\ Bytes(InBatch - batch) \in Nat
  BY <1>1, <1>2, BytesAre
<1>7. r.at \in Nat /\ inc + r.at = total
  BY <1>1, <1>2, <1>4, <1>5, <1>6
<1>8. DOMAIN Placed(r) = {inc + r.at + j : j \in Below(Copied)}
  BY DEF Placed
<1>9. \A i : i \in DOMAIN Placed(r) <=> i \in Nat /\ total <= i /\ i < total + Copied
  <2>1. ASSUME NEW i, i \in DOMAIN Placed(r)
        PROVE  i \in Nat /\ total <= i /\ i < total + Copied
    <3>1. PICK j \in Below(Copied) : i = inc + r.at + j
      BY <1>8, <2>1
    <3>2. j \in Nat /\ j < Copied
      BY <1>3, BelowIs
    <3> QED
      BY <1>1, <1>3, <1>7, <3>1, <3>2
  <2>2. ASSUME NEW i \in Nat, total <= i, i < total + Copied
        PROVE  i \in DOMAIN Placed(r)
    <3>1. i - total \in Nat /\ i - total < Copied
      BY <1>1, <1>3, <2>2
    <3>2. i - total \in Below(Copied)
      BY <1>3, <3>1, BelowIs
    <3>3. i = inc + r.at + (i - total)
      BY <1>1, <1>7, <2>2
    <3> QED
      BY <1>8, <3>2, <3>3
  <2> QED
    BY <2>1, <2>2
<1>10. ASSUME NEW i \in DOMAIN Placed(r) PROVE Placed(r)[i] = flash[off + i]
  <2>1. Placed(r)[i] = r.bytes[i - inc - r.at]
    BY <1>10 DEF Placed
  <2>2. i \in Nat /\ total <= i /\ i < total + Copied
    BY <1>9, <1>10
  <2> DEFINE j == i - inc - r.at
  <2>3. j \in Nat /\ j < ReadPayload /\ off + inc + r.at + j = off + i /\ off + i < FlashSize
    BY <1>1, <1>3, <1>7, <2>2
  <2> HIDE DEF j
  <2>4. j \in Below(ReadPayload)
    BY <1>3, <2>3, BelowIs
  <2>5. r.bytes[j] = flash[off + i]
    BY <1>4, <2>3, <2>4
  <2> QED
    BY <2>1, <2>5 DEF j
<1> QED
  BY <1>9, <1>10

\* A packet is put at the place its count of packets left says, behind those before
\* it: it is the next of the batch, as the packets come numbered downwards.
LEMMA ReadReadPacket ==
  ASSUME WriteInv, ReadInv, WriteInv', ReadPacket
  PROVE  ReadInv'
<1> DEFINE r == Head(inbox)
<1>1. /\ pc = "readPacket" /\ inbox # <<>> /\ UNCHANGED <<device, handle>> /\ PacketsOK
  BY DEF ReadPacket, ReadInv
<1>2. /\ off \in Nat /\ len \in Nat /\ off + len <= FlashSize /\ FlashSize \in Nat
      /\ left \in Nat /\ inc \in Nat /\ total \in Nat /\ batch \in Nat
      /\ MaxBatch \in Nat \ {0} /\ InBatch \in Nat /\ flash \in [Below(FlashSize) -> Byte]
      /\ InBatch = IF left < MaxBatch THEN left ELSE MaxBatch
      /\ inbox \in Seq(ReplyReport) /\ mixed \in BOOLEAN
  BY Numbers
<1>3. /\ r \in ReplyReport /\ r = inbox[1] /\ 1 \in DOMAIN inbox
      /\ \A i \in DOMAIN Tail(inbox) : /\ i + 1 \in DOMAIN inbox /\ i + 1 # 1
                                       /\ Tail(inbox)[i] = inbox[i + 1]
      /\ Tail(inbox) \in Seq(ReplyReport)
  BY <1>1, <1>2, Taken
<1>4. CASE Return("failed", toDevice, Tail(inbox))
  BY <1>4, ReturnForgets
<1>5. CASE /\ ~(r.cmd # "read" \/ r.left # batch - 1)
           /\ inbox' = Tail(inbox)
           /\ mixed' = (mixed \/ ~r.own)
           /\ buffer' = [i \in DOMAIN buffer \cup DOMAIN Placed(r) |->
                           IF i \in DOMAIN Placed(r) THEN Placed(r)[i] ELSE buffer[i]]
           /\ total' = total + Copied
           /\ batch' = r.left
           /\ IF r.left > 0 THEN UNCHANGED <<pc, left, inc>>
              ELSE NextBatch /\ pc' = "readRequest"
           /\ UNCHANGED <<toDevice, call, written, res>>
  <2> HIDE DEF r
  <2>1. /\ r.left = batch - 1 /\ batch' = batch - 1
        /\ UNCHANGED <<flash, toDevice, off, len>>
        /\ pc' \in {"readPacket", "readRequest"}
    BY <1>1, <1>5 DEF device, call
  <2>2. /\ left > 0 /\ batch \in 1 .. InBatch /\ total = inc + Bytes(InBatch - batch)
        /\ left <= PacketsFor(len) /\ inc = Bytes(PacketsFor(len) - left)
    BY <1>1 DEF PacketsOK
  <2>3. /\ Copied \in Nat /\ Copied <= ReadPayload /\ total + Copied <= len
        /\ batch > 1 => total + Copied = inc + Bytes(InBatch - (batch - 1))
        /\ batch = 1 /\ left > MaxBatch =>
             /\ total + Copied = inc + Bytes(MaxBatch)
             /\ inc + Bytes(MaxBatch) = Bytes(PacketsFor(len) - (left - MaxBatch))
             /\ left - MaxBatch <= PacketsFor(len)
        /\ batch = 1 /\ left <= MaxBatch => total + Copied = len
    BY <1>1, NextPacket
\* The batch goes on.
  <2>4. ASSUME batch > 1 PROVE PacketsOK'
    <3>1. r.left > 0
      BY <1>2, <2>1, <2>4
    <3>2. UNCHANGED <<pc, left, inc>> /\ InBatch' = InBatch
      BY <1>5, <3>1 DEF InBatch
    <3>3. batch' \in 1 .. InBatch' /\ total' = inc' + Bytes(InBatch' - batch')
      BY <1>2, <1>5, <2>1, <2>2, <2>3, <2>4, <3>2
    <3> QED
      BY <1>1, <2>1, <2>2, <3>2, <3>3 DEF PacketsOK
\* It is over.
  <2>5. ASSUME batch = 1 PROVE PacketsOK'
    <3>1. ~(r.left > 0)
      BY <1>2, <2>1, <2>5
    <3>2. NextBatch /\ pc' = "readRequest"
      BY <1>5, <3>1
    <3>3. CASE left > MaxBatch
      <4>1. left' = left - MaxBatch /\ inc' = inc + Bytes(MaxBatch)
        BY <3>2, <3>3 DEF NextBatch, Bytes
      <4> QED
        BY <1>2, <1>5, <2>1, <2>3, <2>5, <3>2, <3>3, <4>1 DEF PacketsOK
    <3>4. CASE left <= MaxBatch
      <4>1. left' = 0
        BY <1>2, <3>2, <3>4 DEF NextBatch
      <4> QED
        BY <1>5, <2>1, <2>3, <2>5, <3>2, <3>4, <4>1 DEF PacketsOK
    <3> QED
      BY <1>2, <3>3, <3>4
  <2>6. PacketsOK'
    BY <1>2, <2>2, <2>4, <2>5
  <2>7. ASSUME ~mixed' PROVE BufferOK' /\ RequestOK' /\ ReportsOK'
    <3>1. ~mixed /\ r.own
      BY <1>5, <2>7
    <3>2. BufferOK /\ RequestOK /\ ReportsOK /\ Reading
      BY <1>1, <3>1 DEF ReadInv, Reading
    <3>3. /\ toDevice = <<>> /\ PacketOK(r, InBatch, off + inc, flash)
          /\ \A k \in DOMAIN inbox : k > 1 /\ inbox[k].own => inbox[k].left < r.left
      BY <1>3, <3>1, <3>2 DEF ReportsOK
    <3>4. /\ \A i : i \in DOMAIN Placed(r) <=> i \in Nat /\ total <= i /\ i < total + Copied
          /\ \A i \in DOMAIN Placed(r) : Placed(r)[i] = flash[off + i]
      BY <1>1, <2>1, <3>3, NextPlace
    <3>5. /\ buffer \in [Below(len) -> Byte]
          /\ \A i \in Below(total) : buffer[i] = flash[off + i]
      BY <1>1, <3>2 DEF BufferOK
    <3>6. DOMAIN buffer \cup DOMAIN Placed(r) = Below(len)
      <4>1. \A i \in DOMAIN Placed(r) : i \in Below(len)
        BY <1>2, <2>3, <3>4, BelowIs
      <4> QED
        BY <3>5, <4>1
    <3>7. buffer' = [i \in Below(len) |-> IF i \in DOMAIN Placed(r) THEN Placed(r)[i] ELSE buffer[i]]
      BY <1>5, <3>6
    <3>8. ASSUME NEW i \in DOMAIN Placed(r) PROVE flash[off + i] \in Byte
      <4>1. off + i \in Below(FlashSize)
        BY <1>2, <2>3, <3>4, <3>8, BelowIs
      <4> QED
        BY <1>2, <4>1
    <3>9. buffer' \in [Below(len') -> Byte]
      BY <2>1, <3>4, <3>5, <3>7, <3>8
    <3>10. ASSUME NEW i \in Below(total') PROVE buffer'[i] = flash'[off' + i]
      <4>1. i \in Nat /\ i < total + Copied
        BY <1>2, <1>5, <2>3, <3>10, BelowIs
      <4>2. i \in Below(len)
        BY <1>2, <2>3, <4>1, BelowIs
      <4>3. CASE i \in DOMAIN Placed(r)
        BY <2>1, <3>4, <3>7, <4>2, <4>3
      <4>4. CASE i \notin DOMAIN Placed(r)
        <5>1. i \in Below(total)
          BY <1>2, <3>4, <4>1, <4>4, BelowIs
        <5> QED
          BY <2>1, <3>5, <3>7, <4>2, <4>4, <5>1
      <4> QED
        BY <4>3, <4>4
    <3>11. BufferOK'
      BY <3>9, <3>10 DEF BufferOK
    <3>12. RequestOK'
      BY <2>1, <3>3 DEF RequestOK
\* Of the packets that follow, none comes after the last.
    <3>13. ASSUME NEW i \in DOMAIN inbox', inbox'[i].own
           PROVE  /\ i + 1 \in DOMAIN inbox /\ inbox'[i] = inbox[i + 1] /\ inbox[i + 1].own
                  /\ PacketOK(inbox[i + 1], InBatch, off + inc, flash)
                  /\ inbox[i + 1].left \in Nat /\ inbox[i + 1].left < r.left
                  /\ \A k \in DOMAIN inbox : k > i + 1 /\ inbox[k].own => inbox[k].left < inbox[i + 1].left
      <4>1. i + 1 \in DOMAIN inbox /\ inbox'[i] = inbox[i + 1] /\ i \in Nat /\ i + 1 > 1
        BY <1>3, <1>5, <3>13, LenProperties
      <4>2. inbox[i + 1] \in ReplyReport
        BY <1>2, <4>1, LenProperties, ElementOfSeq
      <4>3. inbox[i + 1].left \in Nat
        BY <4>2 DEF ReplyReport
      <4> QED
        BY <3>2, <3>3, <3>13, <4>1, <4>3 DEF ReportsOK
    <3>14. ReportsOK'
      <4>1. CASE batch = 1
        <5>1. r.left = 0
          BY <2>1, <4>1
        <5>2. \A i \in DOMAIN inbox' : ~inbox'[i].own
          BY <3>13, <5>1
        <5> QED
          BY <5>2 DEF ReportsOK
      <4>2. CASE batch > 1
        <5>1. UNCHANGED <<pc, left, inc>>
          BY <1>2, <1>5, <2>1, <4>2
        <5>2. ASSUME NEW i \in DOMAIN inbox', inbox'[i].own
              PROVE  /\ pc' = "readPacket" /\ toDevice' = <<>> /\ PacketOK(inbox'[i], InBatch', off' + inc', flash')
                     /\ \A k \in DOMAIN inbox' : k > i /\ inbox'[k].own => inbox'[k].left < inbox'[i].left
          <6>1. PacketOK(inbox'[i], InBatch', off' + inc', flash')
            BY <2>1, <3>13, <5>1, <5>2 DEF InBatch
          <6>2. \A k \in DOMAIN inbox' : k > i /\ inbox'[k].own => inbox'[k].left < inbox'[i].left
            <7>1. \A k \in DOMAIN inbox' : k \in Nat
              BY <1>3, <1>5, LenProperties
            <7> QED
              BY <3>13, <5>2, <7>1
          <6> QED
            BY <1>1, <2>1, <3>3, <5>1, <6>1, <6>2
        <5> QED
          BY <5>2 DEF ReportsOK
      <4> QED
        BY <1>2, <2>2, <4>1, <4>2
    <3> QED
      BY <3>11, <3>12, <3>14
  <2> QED
    BY <2>6, <2>7 DEF ReadInv
<1> QED
  BY <1>4, <1>5 DEF ReadPacket

-----------------------------------------------------------------------------
(* The device. *)

\* What it sends for a batch of the call: a refusal, or its packets in order.
LEMMA BatchAnswered ==
  ASSUME Execute, flash \in [Below(FlashSize) -> Byte],
         NEW q \in RequestReport, q = Head(toDevice), q.cmd = "read"
  PROVE  /\ UNCHANGED flash
         /\ \E s \in Seq(ReplyReport) :
              /\ Sends(s)
              /\ \A k \in DOMAIN s : PacketOK(s[k], q.n, q.at, flash)
              /\ \A i, k \in DOMAIN s : i < k => s[k].left < s[i].left
<1>1. /\ q.cmd \in Command /\ q.at \in Nat /\ q.n \in Nat /\ q.own \in BOOLEAN
  BY DEF RequestReport
<1>2. /\ UNCHANGED flash
      /\ Sends(Refusal(q)) \/ Sends([k \in 1 .. q.n |-> ReadOut(q, k)])
  BY DEF Execute
<1>3. CASE Sends(Refusal(q))
  <2> DEFINE x == Reply(q, 0, 250, <<>>)
  <2>1. x \in ReplyReport /\ x.left = 250
    BY <1>1 DEF Reply, ReplyReport
  <2>2. Sends(<<x>>)
    BY <1>3 DEF Refusal
  <2> HIDE DEF x
  <2>3. <<x>> \in Seq(ReplyReport) /\ DOMAIN <<x>> = {1} /\ <<x>>[1] = x
    BY <2>1
  <2>4. \A k \in DOMAIN <<x>> : PacketOK(<<x>>[k], q.n, q.at, flash)
    BY <2>1, <2>3 DEF PacketOK
  <2>5. \A i, k \in DOMAIN <<x>> : ~(i < k)
    BY <2>3
  <2> QED
    BY <1>2, <2>2, <2>3, <2>4, <2>5
<1>4. CASE Sends([k \in 1 .. q.n |-> ReadOut(q, k)])
  <2> DEFINE s == [k \in 1 .. q.n |-> ReadOut(q, k)]
  <2>1. s \in [1 .. q.n -> ReplyReport]
    BY ReadOutTyped
  <2>2. \A k \in 1 .. q.n : s[k] = ReadOut(q, k)
    OBVIOUS
  <2>3. Sends(s)
    BY <1>4
  <2> HIDE DEF s
  <2>4. s \in Seq(ReplyReport) /\ DOMAIN s = 1 .. q.n
    BY <1>1, <2>1, Queued
  <2>5. ASSUME NEW k \in 1 .. q.n
        PROVE  s[k].left = q.n - k /\ PacketOK(s[k], q.n, q.at, flash)
    <3> DEFINE a == (k - 1) * ReadPayload
               b == [j \in Below(ReadPayload) |->
                       IF q.at + a + j < FlashSize THEN flash[q.at + a + j] ELSE Empty]
    <3>1. s[k] = Reply(q, a, q.n - k, b)
      BY <2>2 DEF ReadOut
    <3>2. a = Bytes(k - 1)
      BY DEF Bytes
    <3>3. \A j \in Below(ReadPayload) : q.at + a + j < FlashSize => b[j] = flash[q.at + a + j]
      OBVIOUS
    <3> HIDE DEF a, b
    <3>4. s[k].at = a /\ s[k].left = q.n - k /\ s[k].bytes = b
      BY <3>1 DEF Reply
    <3>5. q.n - 1 - (q.n - k) = k - 1 /\ q.n - k < q.n
      BY <1>1, <2>5
    <3> QED
      BY <3>2, <3>3, <3>4, <3>5 DEF PacketOK
  <2>6. ASSUME NEW i \in 1 .. q.n, NEW k \in 1 .. q.n, i < k PROVE s[k].left < s[i].left
    <3>1. s[k].left = q.n - k /\ s[i].left = q.n - i
      BY <2>5
    <3> QED
      BY <1>1, <2>6, <3>1
  <2> QED
    BY <1>2, <2>3, <2>4, <2>5, <2>6
<1> QED
  BY <1>2, <1>3, <1>4

\* The device answers the request with its batch, in order; what it executes for
\* earlier calls is over before the first packet of this one comes.
LEMMA ReadExecute ==
  ASSUME WriteInv, ReadInv, Execute
  PROVE  ReadInv'
<1> DEFINE q == Head(toDevice)
<1>1. /\ toDevice # <<>> /\ toDevice' = Tail(toDevice)
      /\ UNCHANGED <<pc, op, off, len, buffer, left, inc, batch, total, mixed>>
      /\ UNCHANGED InBatch /\ UNCHANGED Reading
  BY DEF Execute, call, loop, InBatch, Reading
<1>2. /\ toDevice \in Seq(RequestReport) /\ inbox \in Seq(ReplyReport) /\ QueuesOK
      /\ flash \in [Below(FlashSize) -> Byte] /\ total \in Nat
  BY Numbers DEF WriteInv
<1>3. /\ q \in RequestReport /\ q = toDevice[1] /\ 1 \in DOMAIN toDevice
      /\ Tail(toDevice) \in Seq(RequestReport)
      /\ Len(Tail(toDevice)) = Len(toDevice) - 1 /\ Len(toDevice) \in Nat \ {0}
      /\ \A i \in DOMAIN Tail(toDevice) : /\ i + 1 \in DOMAIN toDevice
                                          /\ Tail(toDevice)[i] = toDevice[i + 1]
  BY <1>1, <1>2, Taken
<1>4. q.own \in BOOLEAN
  BY <1>3 DEF RequestReport
<1>5. PacketsOK'
  BY <1>1 DEF ReadInv, PacketsOK
<1>6. SUFFICES ASSUME ~mixed', Reading' PROVE BufferOK' /\ RequestOK' /\ ReportsOK'
  <2>1. ASSUME ~Reading' PROVE BufferOK' /\ RequestOK' /\ ReportsOK'
    BY <2>1 DEF Reading, BufferOK, RequestOK, ReportsOK
  <2> QED
    BY <1>5, <2>1 DEF ReadInv
<1>7. BufferOK /\ RequestOK /\ ReportsOK /\ Reading
  BY <1>1, <1>6 DEF ReadInv
\* A request that an earlier call left behind: no packet has been received.
<1>8. CASE ~q.own
  <2>1. PICK s : IsAnswer(q, s)
    BY <1>3, Answers
  <2> HIDE DEF q
  <2>2. /\ s \in Seq(ReplyReport) /\ Sends(s) /\ \A k \in DOMAIN s : ~s[k].own
    BY <1>8, <2>1 DEF IsAnswer
  <2>3. /\ \A i \in DOMAIN inbox' :
             \/ i \in DOMAIN inbox /\ inbox'[i] = inbox[i]
             \/ i \notin DOMAIN inbox /\ i - Len(inbox) \in DOMAIN s /\ inbox'[i] = s[i - Len(inbox)]
    BY <1>2, <2>2, Sent
  <2>4. total = 0
    BY <1>2, <1>3, <1>7, <1>8 DEF RequestOK
  <2>5. \A i \in DOMAIN inbox : ~inbox[i].own
    BY <1>1, <1>7 DEF ReportsOK
  <2>6. \A i \in DOMAIN inbox' : ~inbox'[i].own
    BY <2>2, <2>3, <2>5
  <2>7. BufferOK'
    BY <1>1, <1>7, <2>4, BelowIs DEF BufferOK
  <2>8. RequestOK'
    <3>1. ASSUME NEW i \in DOMAIN toDevice', toDevice'[i].own
          PROVE  /\ pc' = "readPacket" /\ i = Len(toDevice') /\ toDevice'[i].cmd = "read"
                 /\ toDevice'[i].at = off' + inc' /\ toDevice'[i].n = InBatch'
      <4>1. i + 1 \in DOMAIN toDevice /\ toDevice'[i] = toDevice[i + 1]
        BY <1>1, <1>3, <3>1
      <4>2. /\ pc = "readPacket" /\ i + 1 = Len(toDevice) /\ toDevice[i + 1].cmd = "read"
            /\ toDevice[i + 1].at = off + inc /\ toDevice[i + 1].n = InBatch
        BY <1>7, <3>1, <4>1 DEF RequestOK
      <4>3. i \in Nat
        BY <1>1, <1>3, <3>1, LenProperties
      <4>4. i = Len(toDevice')
        BY <1>1, <1>3, <4>2, <4>3
      <4> QED
        BY <1>1, <4>1, <4>2, <4>4
    <3>2. ~(total' > 0)
      BY <1>1, <2>4
    <3> QED
      BY <2>6, <3>1, <3>2 DEF RequestOK
  <2>9. ReportsOK'
    BY <2>6 DEF ReportsOK
  <2> QED
    BY <2>7, <2>8, <2>9
\* The request of the call: it is the last, and its packets the only ones.
<1>9. CASE q.own
  <2>1. /\ pc = "readPacket" /\ 1 = Len(toDevice)
        /\ q.cmd = "read" /\ q.at = off + inc /\ q.n = InBatch
        /\ \A k \in DOMAIN inbox : ~inbox[k].own
    BY <1>3, <1>7, <1>9 DEF RequestOK
  <2>2. /\ UNCHANGED flash
        /\ \E s \in Seq(ReplyReport) :
             /\ Sends(s)
             /\ \A k \in DOMAIN s : PacketOK(s[k], q.n, q.at, flash)
             /\ \A i, k \in DOMAIN s : i < k => s[k].left < s[i].left
    BY <1>2, <1>3, <2>1, BatchAnswered
  <2>3. PICK s \in Seq(ReplyReport) :
             /\ Sends(s)
             /\ \A k \in DOMAIN s : PacketOK(s[k], q.n, q.at, flash)
             /\ \A i, k \in DOMAIN s : i < k => s[k].left < s[i].left
    BY <2>2
  <2> HIDE DEF q
  <2>4. /\ inbox' \in Seq(ReplyReport) /\ Len(inbox) \in Nat
        /\ \A i \in DOMAIN inbox' :
             \/ i \in DOMAIN inbox /\ inbox'[i] = inbox[i]
             \/ i \notin DOMAIN inbox /\ i - Len(inbox) \in DOMAIN s /\ inbox'[i] = s[i - Len(inbox)]
    BY <1>2, <2>3, Sent
  <2>5. toDevice' = <<>>
    BY <1>1, <1>3, <2>1, EmptySeq
  <2>6. BufferOK'
    BY <1>1, <1>7, <2>2 DEF BufferOK
  <2>7. RequestOK'
    BY <2>5 DEF RequestOK
  <2>8. ASSUME NEW i \in DOMAIN inbox', inbox'[i].own
        PROVE  i - Len(inbox) \in DOMAIN s /\ inbox'[i] = s[i - Len(inbox)] /\ i \in Nat
    <3>1. i \in Nat
      BY <2>4, LenProperties
    <3> QED
      BY <2>1, <2>4, <2>8, <3>1
  <2>9. ASSUME NEW i \in DOMAIN inbox', inbox'[i].own
        PROVE  /\ PacketOK(inbox'[i], InBatch', off' + inc', flash')
               /\ \A k \in DOMAIN inbox' : k > i /\ inbox'[k].own => inbox'[k].left < inbox'[i].left
    <3>1. PacketOK(inbox'[i], InBatch', off' + inc', flash')
      BY <1>1, <2>1, <2>2, <2>3, <2>8, <2>9
    <3>2. ASSUME NEW k \in DOMAIN inbox', k > i, inbox'[k].own
          PROVE  inbox'[k].left < inbox'[i].left
      <4>1. i - Len(inbox) < k - Len(inbox)
        BY <2>4, <2>8, <2>9, <3>2
      <4> QED
        BY <2>3, <2>8, <2>9, <3>2, <4>1
    <3> QED
      BY <3>1, <3>2
  <2>10. ReportsOK'
    BY <1>1, <2>1, <2>5, <2>9 DEF ReportsOK
  <2> QED
    BY <2>6, <2>7, <2>10
<1> QED
  BY <1>4, <1>8, <1>9

-----------------------------------------------------------------------------
\* Every step keeps what readFlash has read.
LEMMA ReadStep == WriteInv /\ ReadInv /\ WriteInv' /\ [Next]_vars => ReadInv'
<1> SUFFICES ASSUME WriteInv, ReadInv, WriteInv', [Next]_vars PROVE ReadInv'
  OBVIOUS
<1>1. CASE Begin
  BY <1>1, ReadBegin
<1>2. CASE Reconnect
  BY <1>2, ReadReconnect
<1>3. CASE ReadRequest
  BY <1>3, ReadReadRequest
<1>4. CASE ReadPacket
  BY <1>4, ReadReadPacket
<1>5. CASE WriteChunk \/ ChunkReply \/ EraseRequest \/ EraseReply \/ ReadError
  BY <1>5, ReadOutsideSteps
<1>6. CASE Execute
  BY <1>6, ReadExecute
<1>7. CASE Unplug
  <2>1. /\ toDevice' = <<>> /\ inbox' = <<>>
        /\ UNCHANGED <<flash, pc, call, loop, mixed>>
    BY <1>7 DEF Unplug
  <2> QED
    BY <2>1, SameCall
<1>8. CASE Plug
  <2>1. UNCHANGED <<flash, pc, call, loop, mixed, toDevice, inbox>>
    BY <1>8 DEF Plug
  <2> QED
    BY <2>1, SameCall
<1>9. CASE UNCHANGED vars
  <2>1. UNCHANGED <<flash, pc, call, loop, mixed, toDevice, inbox>>
    BY <1>9 DEF vars, device
  <2> QED
    BY <2>1, SameCall
<1> QED
  BY <1>1, <1>2, <1>3, <1>4, <1>5, <1>6, <1>7, <1>8, <1>9 DEF Next, Step

\* When the loop of readFlash is over, the buffer holds the bytes of flash from
\* the offset of the call on and nothing lies outside it, for every size of a
\* packet and of a batch and for every offset and length, whatever earlier calls
\* left in the queues, unless the call has taken a packet that was one of theirs.
THEOREM ReadsExact == Spec => []ReadExact
<1>1. WriteInv /\ ReadInv => ReadExact
  <2> SUFFICES ASSUME WriteInv, ReadInv, pc = "readRequest", left = 0, ~mixed
               PROVE  buffer = [i \in Below(len) |-> flash[off + i]]
    BY DEF ReadExact
  <2>1. total = len
    BY DEF ReadInv, PacketsOK
  <2>2. /\ buffer \in [Below(len) -> Byte]
        /\ \A i \in Below(len) : buffer[i] = flash[off + i]
    BY <2>1 DEF ReadInv, BufferOK
  <2> QED
    BY <2>2
<1>2. Init => WriteInv /\ ReadInv
  BY WriteInit, ReadInit
<1>3. WriteInv /\ ReadInv /\ [Next]_vars => (WriteInv /\ ReadInv)'
  BY WriteStep, ReadStep
<1> QED
  BY <1>1, <1>2, <1>3, PTL DEF Spec

-----------------------------------------------------------------------------
(* The length of a call. *)

\* A call returns from any of its steps, and has at least that one to come.
LEMMA StillToCome ==
  ASSUME WriteInv, ReadInv, pc # "idle"
  PROVE  StepsToCome \in Nat \ {0}
<1>1. /\ len \in Nat /\ left \in Nat /\ batch \in Nat /\ MaxBatch \in Nat \ {0}
      /\ InBatch \in Nat /\ InBatch = IF left < MaxBatch THEN left ELSE MaxBatch
      /\ Lesser(left, MaxBatch) = InBatch
  BY Numbers DEF InBatch
<1>2. pc \in {"open", "readRequest", "readPacket", "writeChunk", "chunkReply",
              "eraseRequest", "eraseReply"}
  BY DEF WriteInv, TypeOK
<1>3. pc = "chunkReply" => left > 0
  BY DEF WriteInv, ChunksOK
<1>4. pc = "readPacket" => left > 0 /\ batch \in 1 .. InBatch
  BY DEF ReadInv, PacketsOK
<1> QED
  BY <1>1, <1>2, <1>3, <1>4 DEF StepsToCome

\* A call that returns has nothing left to do.
LEMMA ReturnShrinks ==
  ASSUME WriteInv, ReadInv, pc # "idle", \E r, q, box : Return(r, q, box)
  PROVE  StepsToCome' < StepsToCome
<1>1. StepsToCome \in Nat \ {0}
  BY StillToCome
<1>2. StepsToCome' = 0
  BY DEF Return, StepsToCome
<1> QED
  BY <1>1, <1>2

\* A packet counts the batch down, also one that another call was to get.
LEMMA ReadPacketShrinks ==
  ASSUME WriteInv, ReadInv, ReadPacket
  PROVE  StepsToCome' < StepsToCome
<1> DEFINE r == Head(inbox)
<1>1. pc = "readPacket" /\ PacketsOK
  BY DEF ReadPacket, ReadInv
<1>2. /\ len \in Nat /\ left \in Nat /\ batch \in Nat /\ MaxBatch \in Nat \ {0}
      /\ InBatch \in Nat /\ InBatch = IF left < MaxBatch THEN left ELSE MaxBatch
      /\ Lesser(left, MaxBatch) = InBatch
  BY Numbers DEF InBatch
<1>3. left > 0 /\ batch \in 1 .. InBatch
  BY <1>1 DEF PacketsOK
<1>4. CASE Return("failed", toDevice, Tail(inbox))
  BY <1>1, <1>4, ReturnShrinks
<1>5. CASE /\ ~(r.cmd # "read" \/ r.left # batch - 1)
           /\ batch' = r.left
           /\ IF r.left > 0 THEN UNCHANGED <<pc, left, inc>>
              ELSE NextBatch /\ pc' = "readRequest"
           /\ UNCHANGED call
  <2> HIDE DEF r
  <2>1. r.left = batch - 1 /\ UNCHANGED <<op, len>>
    BY <1>5 DEF call
  <2>2. CASE batch > 1
    <3>1. UNCHANGED <<pc, left>> /\ batch' = batch - 1 /\ Lesser(left', MaxBatch) = InBatch
      BY <1>2, <1>5, <2>1, <2>2
    <3> QED
      BY <1>1, <1>2, <1>3, <2>1, <3>1 DEF StepsToCome
  <2>3. CASE batch = 1
    <3>1. pc' = "readRequest" /\ left' = left - InBatch
      BY <1>2, <1>5, <2>1, <2>3 DEF NextBatch
    <3> QED
      BY <1>1, <1>2, <1>3, <2>1, <2>3, <3>1 DEF StepsToCome
  <2> QED
    BY <1>2, <1>3, <2>2, <2>3
<1> QED
  BY <1>4, <1>5 DEF ReadPacket

\* Each step of readFlash, writeFlash and eraseFlash brings the call closer to its
\* end: for every size of packets, batches, chunks and buffers no call makes more
\* than two hidapi calls for a packet or a chunk, whatever the device answers.
THEOREM TransfersShrink == Spec => CallShrinks
<1> DEFINE Shrinks == StepsToCome' < StepsToCome \/ UNCHANGED <<pc, call, loop>>
<1>1. WriteInv /\ ReadInv /\ [Next]_vars => [pc # "idle" => Shrinks]_vars
  <2> SUFFICES ASSUME WriteInv, ReadInv, Next, pc # "idle" PROVE Shrinks
    OBVIOUS
  <2>1. /\ len \in Nat /\ left \in Nat /\ batch \in Nat /\ MaxBatch \in Nat \ {0}
        /\ InBatch \in Nat /\ InBatch = IF left < MaxBatch THEN left ELSE MaxBatch
        /\ Lesser(left, MaxBatch) = InBatch
    BY Numbers DEF InBatch
  <2>2. CASE \E r, q, box : Return(r, q, box)
    BY <2>2, ReturnShrinks
  <2>3. CASE Begin
    BY <2>3 DEF Begin
  <2>4. CASE Reconnect
    <3>1. CASE /\ pc = "open" /\ pc' = IF op = "erase" THEN "eraseRequest" ELSE "readRequest"
               /\ UNCHANGED <<call, loop>>
      BY <2>1, <3>1 DEF StepsToCome, call, loop
    <3> QED
      BY <2>2, <2>4, <3>1 DEF Reconnect
  <2>5. CASE ReadRequest
    <3>1. CASE /\ pc = "readRequest" /\ left = 0 /\ op = "write"
               /\ pc' = "writeChunk" /\ left' = len
      BY <2>1, <3>1 DEF StepsToCome
    <3>2. CASE /\ pc = "readRequest" /\ pc' = "readPacket" /\ batch' = Lesser(left, MaxBatch)
               /\ UNCHANGED <<call, left>>
      BY <2>1, <3>2 DEF StepsToCome, call
    <3> QED
      BY <2>2, <2>5, <3>1, <3>2 DEF ReadRequest, WriteError
  <2>6. CASE ReadPacket
    BY <2>6, ReadPacketShrinks
  <2>7. CASE WriteChunk
    <3>1. CASE pc = "writeChunk" /\ pc' = "chunkReply" /\ left' = left
      BY <2>1, <3>1 DEF StepsToCome
    <3> QED
      BY <2>2, <2>7, <3>1 DEF WriteChunk, WriteError
  <2>8. CASE ChunkReply
    <3>1. CASE pc = "chunkReply" /\ NextChunk /\ pc' = "writeChunk"
      <4>1. left > 0
        BY <3>1 DEF WriteInv, ChunksOK
      <4>2. left' \in Nat /\ left' < left
        BY <2>1, <3>1, <4>1, Constants DEF NextChunk
      <4> QED
        BY <2>1, <3>1, <4>2 DEF StepsToCome
    <3> QED
      BY <2>2, <2>8, <3>1 DEF ChunkReply
  <2>9. CASE EraseRequest
    <3>1. CASE pc = "eraseRequest" /\ pc' = "eraseReply"
      BY <3>1 DEF StepsToCome
    <3> QED
      BY <2>2, <2>9, <3>1 DEF EraseRequest
  <2>10. CASE EraseReply \/ ReadError
    BY <2>2, <2>10 DEF EraseReply, ReadError
  <2>11. CASE Execute \/ Unplug \/ Plug
    BY <2>11 DEF Execute, Unplug, Plug
  <2> QED
    BY <2>3, <2>4, <2>5, <2>6, <2>7, <2>8, <2>9, <2>10, <2>11 DEF Next, Step
<1>2. Spec => [](WriteInv /\ ReadInv)
  BY WriteInit, ReadInit, WriteStep, ReadStep, PTL DEF Spec
<1> QED
  BY <1>1, <1>2, PTL DEF Spec, CallShrinks
=============================================================================
