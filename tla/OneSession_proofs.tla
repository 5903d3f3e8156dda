------------------------- MODULE OneSession_proofs -------------------------
(***************************************************************************)
(* Requests and replies of one session.  Its call is in step with the      *)
(* device, or behind it if replies may be late: from which follow that the *)
(* frame size in the context is current and, if replies are in time, that  *)
(* a call gets the answer to its own request and that the exchange         *)
(* implements the remote procedure calls of DeviceCalls.                   *)
(***************************************************************************)
EXTENDS ReportExchange_proofs

OneSession == \E s : Session = {s}

OnlyOneWay(q) == \A i \in DOMAIN q : q[i].req.cmd \in OneWay

\* No call waits for an answer, and nothing will be answered.
Quiet(s) == inbox[s] = <<>> /\ OnlyOneWay(toDevice)

\* The call's request is the last the device has, and the only one it answers.
Waiting(s) ==
  /\ inbox[s] = <<>> /\ got[s] = 0
  /\ toDevice # <<>> /\ toDevice[Len(toDevice)] = [req |-> req[s], to |-> s]
  /\ \A i \in DOMAIN toDevice : i # Len(toDevice) => toDevice[i].req.cmd \in OneWay

\* The queue holds the packets of the call's answer that are still to come.
Answering(s) ==
  /\ toDevice = <<>>
  /\ inbox[s] # <<>> /\ Len(inbox[s]) = req[s].packets - got[s]
  /\ \A i \in DOMAIN inbox[s] :
       inbox[s][i] = Reply(req[s].cmd, inbox[s][1].val, req[s].packets - (got[s] + i), s)

InStep(s) ==
  IF pc[s] = "read" /\ handle[s] = "open" THEN Waiting(s) \/ Answering(s) ELSE Quiet(s)

\* There are more answers, come or to come, than the call under way will take: it
\* takes a batch at most, so one will be left when it returns.
Behind(s) ==
  IF pc[s] # "read" THEN ~Quiet(s)
  ELSE /\ handle[s] = "open"
       /\ \/ inbox[s] # <<>> /\ ~OnlyOneWay(toDevice)
          \/ \E i, j \in DOMAIN toDevice :
               i < j /\ toDevice[i].req.cmd \notin OneWay /\ toDevice[j].req.cmd \notin OneWay
          \/ \E i \in DOMAIN inbox[s] : i # Len(inbox[s]) /\ inbox[s][i].left = 0

StepOK == \A s \in Session : InStep(s) \/ (Late /\ Behind(s))

StepInv == FrameInv /\ StepOK

\* A call is never in step and behind at once.
LEMMA Apart ==
  ASSUME TypeInv, NEW s \in Session
  PROVE  ~(InStep(s) /\ Behind(s))
<1> SUFFICES ASSUME InStep(s), Behind(s) PROVE FALSE
  OBVIOUS
<1>1. CASE pc[s] # "read"
  BY <1>1 DEF InStep, Behind
<1>2. CASE pc[s] = "read" /\ Waiting(s)
  <2>1. inbox[s] = <<>>
    BY <1>2 DEF Waiting
  <2>2. PICK i, j \in DOMAIN toDevice :
          i < j /\ toDevice[i].req.cmd \notin OneWay /\ toDevice[j].req.cmd \notin OneWay
    BY <1>2, <2>1 DEF Behind
  <2>3. i = Len(toDevice) /\ j = Len(toDevice)
    BY <1>2, <2>2 DEF Waiting
  <2>4. DOMAIN toDevice = 1 .. Len(toDevice) /\ Len(toDevice) \in Nat
    BY LenProperties DEF TypeInv, TypeOK
  <2> QED
    BY <2>2, <2>3, <2>4
<1>3. CASE pc[s] = "read" /\ Answering(s)
  <2>1. toDevice = <<>> /\ DOMAIN toDevice = {} /\ OnlyOneWay(toDevice)
    BY <1>3 DEF Answering, OnlyOneWay
  <2>2. PICK i \in DOMAIN inbox[s] : i # Len(inbox[s]) /\ inbox[s][i].left = 0
    BY <1>3, <2>1 DEF Behind
  <2>3. inbox[s][i].left = req[s].packets - (got[s] + i) /\ Len(inbox[s]) = req[s].packets - got[s]
    BY <1>3, ReplyIs DEF Answering
  <2>4. i \in Nat /\ req[s].packets \in Nat /\ got[s] \in Nat
    BY <1>3, UnderWay, HeadIs DEF Answering, TypeInv
  <2> QED
    BY <2>2, <2>3, <2>4
<1> QED
  BY <1>1, <1>2, <1>3 DEF InStep, Behind

\* A call that returns leaves the session in step if it leaves nothing to read.
LEMMA Over ==
  ASSUME TypeInv, NEW s \in Session, NEW ok, NEW v,
         NEW q \in Seq(Pending), NEW box \in Seq(Report), Return(s, ok, v, q, box)
  PROVE  /\ InStep(s)' <=> box = <<>> /\ OnlyOneWay(q)
         /\ Behind(s)' <=> ~(box = <<>> /\ OnlyOneWay(q))
<1>1. pc'[s] = "idle" /\ toDevice' = Disown(q, s) /\ inbox'[s] = Disown(box, s)
  BY DEF Return, TypeInv, TypeOK
<1>2. inbox'[s] = <<>> <=> box = <<>>
  <2>1. Disown(box, s) \in Seq(Report) /\ Len(Disown(box, s)) = Len(box)
    BY DisownedReports
  <2> QED
    BY <1>1, <2>1, EmptySeq
<1>3. OnlyOneWay(toDevice') <=> OnlyOneWay(q)
  BY <1>1, DisownedPending DEF OnlyOneWay
<1> QED
  BY <1>1, <1>2, <1>3 DEF InStep, Behind, Quiet

\* A request that is written adds an answer unless its command is one-way.
LEMMA WrittenOneWay ==
  ASSUME TypeInv, NEW s \in Session, pc[s] # "idle"
  PROVE  OnlyOneWay(Written(s)) <=> OnlyOneWay(toDevice) /\ req[s].cmd \in OneWay
<1> DEFINE w == Written(s)
           n == Len(toDevice) + 1
<1>1. /\ DOMAIN w = DOMAIN toDevice \cup {n} /\ w[n].req = req[s]
      /\ \A i \in DOMAIN toDevice : w[i] = toDevice[i]
  BY WrittenIs
<1> HIDE DEF w, n
<1>2. OnlyOneWay(w) <=> OnlyOneWay(toDevice) /\ req[s].cmd \in OneWay
  BY <1>1 DEF OnlyOneWay
<1> QED
  BY <1>2 DEF w

\* What a call reads is not all there is, if it is behind.
LEMMA Left ==
  ASSUME TypeInv, NEW s \in Session, pc[s] = "read", Behind(s)
  PROVE  ~OnlyOneWay(toDevice) \/ (inbox[s] # <<>> /\ Tail(inbox[s]) # <<>>)
<1>1. CASE ~OnlyOneWay(toDevice)
  BY <1>1
<1>2. CASE \E i, j \in DOMAIN toDevice :
             i < j /\ toDevice[i].req.cmd \notin OneWay /\ toDevice[j].req.cmd \notin OneWay
  BY <1>2 DEF OnlyOneWay
<1>3. CASE \E i \in DOMAIN inbox[s] : i # Len(inbox[s]) /\ inbox[s][i].left = 0
  <2>1. PICK i \in DOMAIN inbox[s] : i # Len(inbox[s])
    BY <1>3
  <2>2. inbox[s] \in Seq(Report) /\ inbox[s] # <<>>
    BY <2>1 DEF TypeInv, TypeOK
  <2>3. /\ DOMAIN inbox[s] = 1 .. Len(inbox[s]) /\ Len(inbox[s]) \in Nat
        /\ Len(Tail(inbox[s])) = Len(inbox[s]) - 1
    BY <2>2, HeadIs DEF TypeInv
  <2>4. ASSUME NEW n \in Nat, NEW k \in 1 .. n, k # n PROVE n - 1 # 0
    BY <2>4
  <2>5. Len(Tail(inbox[s])) # 0
    BY <2>1, <2>3, <2>4
  <2> QED
    BY <2>2, <2>5, EmptySeq
<1> QED
  BY <1>1, <1>2, <1>3 DEF Behind

\* Starting a call changes neither: the queues are left as they are.
LEMMA BeginInStep ==
  ASSUME TypeInv, NEW s \in Session, Begin(s)
  PROVE  (InStep(s) => InStep(s)') /\ (Behind(s) => Behind(s)')
<1>1. pc[s] # "read" /\ pc'[s] # "read" /\ UNCHANGED <<inbox, toDevice>>
  BY DEF Begin, Goto, TypeInv, TypeOK
<1> QED
  BY <1>1 DEF InStep, Behind, Quiet

\* A reconnection empties the queue of reports.
LEMMA ReconnectInStep ==
  ASSUME TypeInv, NEW s \in Session, Reconnect(s)
  PROVE  (InStep(s) => InStep(s)') /\ (InStep(s)' \/ Behind(s)')
<1>1. pc[s] \in {"open", "reopen"}
  BY DEF Reconnect
<1>2. CASE /\ inbox' = [inbox EXCEPT ![s] = <<>>]
           /\ Goto(s, IF pc[s] = "open" THEN "write" ELSE "rewrite")
           /\ UNCHANGED <<toDevice, op, req, got, res>>
  <2>1. pc'[s] # "read" /\ inbox'[s] = <<>> /\ toDevice' = toDevice
    BY <1>1, <1>2 DEF Goto, TypeInv, TypeOK
  <2> QED
    BY <1>1, <2>1 DEF InStep, Behind, Quiet
<1>3. CASE Return(s, FALSE, 0, toDevice, <<>>)
  <2>1. toDevice \in Seq(Pending) /\ <<>> \in Seq(Report)
    BY DEF TypeInv, TypeOK
  <2>2. /\ InStep(s)' <=> OnlyOneWay(toDevice)
        /\ Behind(s)' <=> ~OnlyOneWay(toDevice)
    BY <1>3, <2>1, Over
  <2> QED
    BY <1>1, <2>2 DEF InStep, Quiet
<1> QED
  BY <1>2, <1>3 DEF Reconnect

\* A request that is written is the one the call waits for.
LEMMA WriteOKInStep ==
  ASSUME TypeInv, NEW s \in Session, WriteOK(s)
  PROVE  (InStep(s) => InStep(s)') /\ (Behind(s) => Behind(s)')
<1>1. /\ pc[s] \in {"write", "rewrite"} /\ handle[s] = "open" /\ UNCHANGED handle
      /\ inbox[s] \in Seq(Report) /\ Written(s) \in Seq(Pending)
  BY WrittenIs DEF WriteOK, TypeInv, TypeOK
<1>2. CASE req[s].cmd \in OneWay /\ Return(s, TRUE, 1, Written(s), inbox[s])
  BY <1>1, <1>2, Over, WrittenOneWay DEF InStep, Behind, Quiet
<1>3. CASE /\ req[s].cmd \notin OneWay /\ toDevice' = Written(s) /\ Goto(s, "read")
           /\ UNCHANGED <<inbox, op, req, got, res>>
  <2>1. pc'[s] = "read" /\ handle'[s] = "open" /\ inbox'[s] = inbox[s] /\ got[s] = 0
        /\ req'[s] = req[s] /\ got'[s] = 0
    BY <1>1, <1>3, UnderWay DEF Goto, TypeInv, TypeOK
  <2>2. /\ toDevice' = Written(s) /\ Len(toDevice) \in Nat /\ DOMAIN toDevice = 1 .. Len(toDevice)
        /\ Len(Written(s)) = Len(toDevice) + 1
        /\ DOMAIN toDevice' = DOMAIN toDevice \cup {Len(toDevice) + 1}
        /\ \A i \in DOMAIN toDevice : toDevice'[i] = toDevice[i]
        /\ toDevice'[Len(toDevice) + 1] = [req |-> req[s], to |-> s]
        /\ toDevice'[Len(toDevice) + 1].req = req[s]
    BY <1>1, <1>3, WrittenIs
  <2>3. ASSUME Quiet(s) PROVE Waiting(s)'
    <3>1. toDevice' # <<>>
      BY <2>2
    <3> QED
      BY <2>1, <2>2, <2>3, <3>1 DEF Quiet, OnlyOneWay, Waiting
  <2>4. ASSUME ~Quiet(s) PROVE Behind(s)'
    <3>1. ~OnlyOneWay(toDevice')
      BY <1>3, <2>2 DEF OnlyOneWay
    <3>2. CASE inbox[s] # <<>>
      BY <2>1, <3>1, <3>2 DEF Behind
    <3>3. CASE ~OnlyOneWay(toDevice)
      <4>1. PICK i \in DOMAIN toDevice : toDevice[i].req.cmd \notin OneWay
        BY <3>3 DEF OnlyOneWay
      <4>2. /\ i \in DOMAIN toDevice' /\ Len(toDevice) + 1 \in DOMAIN toDevice'
            /\ i < Len(toDevice) + 1
            /\ toDevice'[i].req.cmd \notin OneWay
            /\ toDevice'[Len(toDevice) + 1].req.cmd \notin OneWay
        BY <1>3, <2>2, <4>1
      <4> QED
        BY <2>1, <4>2 DEF Behind
    <3> QED
      BY <2>4, <3>2, <3>3 DEF Quiet
  <2> QED
    BY <1>1, <2>1, <2>3, <2>4 DEF InStep, Behind
<1> QED
  BY <1>2, <1>3 DEF WriteOK

\* A request that was written although the write failed leaves its answer behind.
LEMMA WriteErrorInStep ==
  ASSUME TypeInv, NEW s \in Session, WriteError(s)
  PROVE  (InStep(s) => InStep(s)' \/ (Late /\ Behind(s)')) /\ (Behind(s) => Behind(s)')
<1>1. pc[s] \in {"write", "rewrite"} /\ inbox[s] \in Seq(Report)
  BY DEF WriteError, TypeInv, TypeOK
<1>2. PICK q \in {toDevice} \cup IF Late /\ handle[s] = "open" THEN {Written(s)} ELSE {} :
        IF pc[s] = "rewrite" THEN Return(s, FALSE, 0, q, inbox[s])
        ELSE toDevice' = q /\ Goto(s, "reopen") /\ UNCHANGED <<inbox, op, req, got, res>>
  BY DEF WriteError
<1>3. q \in Seq(Pending) /\ (q = toDevice \/ (Late /\ q = Written(s)))
  BY <1>1, <1>2, WrittenIs DEF TypeInv, TypeOK
<1>4. /\ OnlyOneWay(q) => OnlyOneWay(toDevice)
      /\ Late \/ (OnlyOneWay(toDevice) => OnlyOneWay(q))
  BY <1>1, <1>3, WrittenOneWay
<1>5. /\ InStep(s)' <=> inbox[s] = <<>> /\ OnlyOneWay(q)
      /\ Behind(s)' <=> ~(inbox[s] = <<>> /\ OnlyOneWay(q))
  <2>1. CASE Return(s, FALSE, 0, q, inbox[s])
    BY <1>1, <1>3, <2>1, Over
  <2>2. CASE toDevice' = q /\ Goto(s, "reopen") /\ UNCHANGED <<inbox, op, req, got, res>>
    <3>1. pc'[s] = "reopen"
      BY <2>2 DEF Goto, TypeInv, TypeOK
    <3> QED
      BY <2>2, <3>1 DEF InStep, Behind, Quiet
  <2> QED
    BY <1>2, <2>1, <2>2
<1> QED
  BY <1>1, <1>4, <1>5 DEF InStep, Behind, Quiet

\* A read that gives up leaves its answer behind only if answers may be late: in time
\* there is none to come, as the device was lost.
LEMMA ReadErrorInStep ==
  ASSUME TypeInv, NEW s \in Session, ReadError(s)
  PROVE  (InStep(s) => InStep(s)' \/ (Late /\ Behind(s)')) /\ (Behind(s) => Behind(s)')
<1>1. /\ pc[s] = "read" /\ (handle[s] = "dead" \/ Late)
      /\ inbox[s] \in Seq(Report) /\ toDevice \in Seq(Pending)
      /\ Return(s, FALSE, 0, toDevice, inbox[s])
  BY DEF ReadError, TypeInv, TypeOK
<1>2. /\ InStep(s)' <=> inbox[s] = <<>> /\ OnlyOneWay(toDevice)
      /\ Behind(s)' <=> ~(inbox[s] = <<>> /\ OnlyOneWay(toDevice))
  BY <1>1, Over
<1> QED
  BY <1>1, <1>2, Left DEF InStep, Quiet

\* The four ways a call reads a report: it fails, returns OK, goes on to the next
\* packet of a frame, or goes on from the format to the frame.
First(s) == Head(inbox[s])
Rest(s)  == Tail(inbox[s])

ReadFails(s) ==
  /\ Return(s, FALSE, 0, toDevice, Rest(s)) /\ UNCHANGED <<cached, reset>>
  /\ \/ First(s).cmd # CorrectReply(req[s].cmd)
     \/ req[s].cmd = "getFrame" /\ First(s).left # req[s].packets - (got[s] + 1)
     \/ First(s).val = 0

Stored(s) ==
  cached' = [cached EXCEPT ![s] = First(s).val] /\ reset' = [reset EXCEPT ![s] = "none"]

ReadReturns(s) ==
  /\ Return(s, TRUE, First(s).val, toDevice, Rest(s))
  /\ First(s).cmd = CorrectReply(req[s].cmd) /\ req[s].cmd = op[s].cmd /\ First(s).val # 0
  /\ req[s].cmd = "getFrame" => First(s).left = 0 /\ req[s].packets = got[s] + 1
  /\ IF req[s].cmd \in {"setFormat", "getFormat"} THEN Stored(s)
     ELSE UNCHANGED <<cached, reset>>

ReadPacket(s) ==
  /\ req[s].cmd = "getFrame" /\ First(s).cmd = "getFrame"
  /\ First(s).left = req[s].packets - (got[s] + 1) /\ First(s).left # 0
  /\ got' = [got EXCEPT ![s] = @ + 1]
  /\ inbox' = [inbox EXCEPT ![s] = Rest(s)]
  /\ UNCHANGED <<toDevice, pc, op, req, res, cached, reset>>

ReadFormat(s) ==
  /\ op[s].cmd = "getFrame" /\ req[s].cmd = "getFormat" /\ First(s).cmd = "getFormat"
  /\ First(s).val # 0 /\ Stored(s)
  /\ req' = [req EXCEPT ![s] = Request("getFrame", op[s].arg, First(s).val)]
  /\ Goto(s, "write")
  /\ inbox' = [inbox EXCEPT ![s] = Rest(s)]
  /\ UNCHANGED <<toDevice, op, got, res>>

\* What _tryRead can do with the oldest report: fail, return it, go on to the next
\* packet or, with a frame format inside a getFrame, to the request.
LEMMA ReadIs ==
  ASSUME TypeInv, NEW s \in Session, Read(s)
  PROVE  /\ pc[s] = "read" /\ handle[s] = "open" /\ inbox[s] # <<>> /\ UNCHANGED <<usb, handle>>
         /\ ReadFails(s) \/ ReadReturns(s) \/ ReadPacket(s) \/ ReadFormat(s)
<1> DEFINE r == First(s)
           rest == Rest(s)
<1>1. pc[s] = "read" /\ handle[s] = "open" /\ inbox[s] # <<>> /\ UNCHANGED <<usb, handle>>
  BY DEF Read
<1>2. /\ r.cmd \in {"setFormat", "getFormat"} => r.val \in Size \cup {0}
      /\ r.val = 0 => r.cmd = "setFormat"
      /\ r.left \in Nat
  BY <1>1, HeadIs DEF TypeInv, Report, First
<1> SUFFICES ReadFails(s) \/ ReadReturns(s) \/ ReadPacket(s) \/ ReadFormat(s)
  BY <1>1
<1>3. /\ req[s].cmd \notin OneWay /\ req[s].cmd \in Cmd
      /\ got[s] \in Nat /\ req[s].packets \in Nat
      /\ req[s].cmd = op[s].cmd \/ (op[s].cmd = "getFrame" /\ req[s].cmd = "getFormat")
  BY <1>1, UnderWay, NoneIs DEF TypeInv, CallOK, Asked
<1> HIDE DEF r, rest
<1>4. CASE r.cmd # CorrectReply(req[s].cmd)
  BY <1>4 DEF Read, ReadFails, r, rest, First, Rest
<1>5. CASE r.cmd = CorrectReply(req[s].cmd) /\ req[s].cmd = "getFrame"
  <2>1. Packet(s, r, rest)
    BY <1>5 DEF Read, r, rest, First, Rest
  <2>2. r.cmd = "getFrame" /\ r.val # 0 /\ req[s].cmd = op[s].cmd
    BY <1>2, <1>3, <1>5 DEF CorrectReply
  <2>3. CASE r.left # req[s].packets - (got[s] + 1)
    <3>1. Return(s, FALSE, 0, toDevice, rest) /\ UNCHANGED <<cached, reset>>
      BY <2>1, <2>3 DEF Packet
    <3> QED
      BY <1>5, <2>3, <3>1 DEF ReadFails, r, rest
  <2>4. CASE r.left = req[s].packets - (got[s] + 1) /\ r.left = 0
    <3>1. Return(s, TRUE, r.val, toDevice, rest) /\ UNCHANGED <<cached, reset>>
      BY <2>1, <2>4 DEF Packet
    <3>2. req[s].packets = got[s] + 1
      BY <1>3, <2>4
    <3> QED
      BY <1>5, <2>2, <2>4, <3>1, <3>2 DEF ReadReturns, r, rest
  <2>5. CASE r.left = req[s].packets - (got[s] + 1) /\ r.left # 0
    <3>1. /\ got' = [got EXCEPT ![s] = @ + 1]
          /\ inbox' = [inbox EXCEPT ![s] = rest]
          /\ UNCHANGED <<toDevice, pc, op, req, res, cached, reset>>
      BY <2>1, <2>5 DEF Packet
    <3> QED
      BY <1>5, <2>2, <2>5, <3>1 DEF ReadPacket, r, rest
  <2> QED
    BY <2>3, <2>4, <2>5
<1>6. CASE r.cmd = CorrectReply(req[s].cmd) /\ req[s].cmd \in {"setFormat", "getFormat"}
  <2>1. Format(s, r, rest)
    BY <1>6 DEF Read, r, rest, First, Rest
  <2>2. r.cmd = req[s].cmd /\ req[s].cmd # "getFrame"
    BY <1>6 DEF CorrectReply
  <2>3. CASE op[s].cmd # "getFrame"
    <3>1. req[s].cmd = op[s].cmd
      BY <1>3, <2>3
    <3>2. CASE r.val = 0
      <4>0. (r.val # 0) = FALSE
        BY <3>2
      <4>1. Return(s, FALSE, 0, toDevice, rest) /\ UNCHANGED <<cached, reset>>
        BY <2>1, <2>3, <3>2, <4>0, Zenon DEF Format
      <4> QED
        BY <3>2, <4>1 DEF ReadFails, r, rest
    <3>3. CASE r.val # 0
      <4>0. (r.val # 0) = TRUE
        BY <3>3
      <4>1. /\ Return(s, TRUE, r.val, toDevice, rest)
            /\ cached' = [cached EXCEPT ![s] = r.val] /\ reset' = [reset EXCEPT ![s] = "none"]
        BY <2>1, <2>3, <3>3, <4>0, Zenon DEF Format
      <4> QED
        BY <1>6, <2>2, <3>1, <3>3, <4>1 DEF ReadReturns, Stored, r, rest
    <3> QED
      BY <3>2, <3>3
  <2>4. CASE op[s].cmd = "getFrame"
    <3>1. req[s].cmd = "getFormat" /\ r.cmd = "getFormat" /\ r.val # 0
      BY <1>2, <1>3, <2>2, <2>4
    <3> QED
      BY <2>1, <2>4, <3>1 DEF Format, ReadFormat, Stored, r, rest
  <2> QED
    BY <2>3, <2>4
<1>7. CASE /\ r.cmd = CorrectReply(req[s].cmd)
           /\ req[s].cmd \notin {"getFrame", "setFormat", "getFormat"}
  <2>1. Return(s, TRUE, r.val, toDevice, rest) /\ UNCHANGED <<cached, reset>>
    BY <1>7 DEF Read, r, rest, First, Rest
  <2>2. r.val # 0 /\ req[s].cmd = op[s].cmd
    BY <1>2, <1>3, <1>7 DEF CorrectReply
  <2> QED
    BY <1>7, <2>1, <2>2 DEF ReadReturns, r, rest
<1> QED
  BY <1>4, <1>5, <1>6, <1>7

\* A call takes its own answer and no more, or leaves something behind again.
LEMMA ReadInStep ==
  ASSUME FrameInv, NEW s \in Session, Read(s)
  PROVE  (InStep(s) => Answering(s) /\ InStep(s)') /\ (Behind(s) => Behind(s)')
<1>1. /\ pc[s] = "read" /\ handle[s] = "open" /\ inbox[s] # <<>> /\ UNCHANGED <<usb, handle>>
      /\ ReadFails(s) \/ ReadReturns(s) \/ ReadPacket(s) \/ ReadFormat(s)
  BY ReadIs DEF FrameInv
<1>2. /\ toDevice \in Seq(Pending) /\ inbox[s] \in Seq(Report)
      /\ First(s) = inbox[s][1] /\ Rest(s) \in Seq(Report) /\ First(s) \in Report
      /\ DOMAIN inbox[s] = 1 .. Len(inbox[s]) /\ DOMAIN Rest(s) = 1 .. Len(Rest(s))
      /\ Len(inbox[s]) \in Nat \ {0} /\ Len(Rest(s)) = Len(inbox[s]) - 1
      /\ \A i \in DOMAIN Rest(s) : i + 1 \in DOMAIN inbox[s] /\ Rest(s)[i] = inbox[s][i + 1]
  BY <1>1, HeadIs DEF FrameInv, TypeInv, TypeOK, First, Rest
<1>3. /\ got[s] \in Nat /\ req[s].packets \in Nat \ {0}
      /\ req[s].cmd # "getFrame" => req[s].packets = 1 /\ got[s] = 0
  <2>1. /\ got[s] \in Nat /\ req[s].packets \in Nat \ {0} /\ got[s] < req[s].packets
        /\ req[s].cmd # "getFrame" => req[s].packets = 1
    BY <1>1, UnderWay DEF FrameInv
  <2> QED
    BY <2>1
<1>4. InStep(s) => Answering(s)
  BY <1>1 DEF InStep, Waiting
<1>5. Behind(s) => ~OnlyOneWay(toDevice) \/ Rest(s) # <<>>
  BY <1>1, Left DEF FrameInv, Rest
<1>6. Answering(s) => /\ toDevice = <<>> /\ OnlyOneWay(toDevice)
                      /\ Len(inbox[s]) = req[s].packets - got[s]
                      /\ First(s).cmd = req[s].cmd /\ First(s).left = req[s].packets - (got[s] + 1)
  <2> SUFFICES ASSUME Answering(s)
               PROVE  /\ toDevice = <<>> /\ OnlyOneWay(toDevice)
                      /\ Len(inbox[s]) = req[s].packets - got[s]
                      /\ First(s).cmd = req[s].cmd
                      /\ First(s).left = req[s].packets - (got[s] + 1)
    OBVIOUS
  <2>1. toDevice = <<>> /\ DOMAIN toDevice = {} /\ Len(inbox[s]) = req[s].packets - got[s]
    BY DEF Answering
  <2>2. 1 \in DOMAIN inbox[s]
    BY <1>2
  <2>3. First(s) = Reply(req[s].cmd, inbox[s][1].val, req[s].packets - (got[s] + 1), s)
    BY <1>2, <2>2 DEF Answering
  <2> QED
    BY <2>1, <2>3, ReplyIs DEF OnlyOneWay
<1>10. ASSUME Answering(s), req[s].packets = got[s] + 1
       PROVE  Rest(s) = <<>>
  <2>1. Len(inbox[s]) = req[s].packets - got[s] /\ Len(Rest(s)) = Len(inbox[s]) - 1
    BY <1>2, <1>6, <1>10
  <2>2. Len(Rest(s)) = 0
    BY <1>3, <1>10, <2>1
  <2> QED
    BY <1>2, <2>2, EmptySeq
<1>7. CASE ReadFails(s) \/ ReadReturns(s)
  <2>1. PICK ok, v : Return(s, ok, v, toDevice, Rest(s))
    BY <1>7 DEF ReadFails, ReadReturns
  <2>2. /\ InStep(s)' <=> Rest(s) = <<>> /\ OnlyOneWay(toDevice)
        /\ Behind(s)' <=> ~(Rest(s) = <<>> /\ OnlyOneWay(toDevice))
    BY <1>2, <2>1, Over DEF FrameInv
  <2>3. ASSUME Answering(s) PROVE req[s].packets = got[s] + 1
    <3>1. CASE req[s].cmd # "getFrame"
      BY <1>3, <3>1
    <3>2. CASE req[s].cmd = "getFrame" /\ ReadReturns(s)
      BY <3>2 DEF ReadReturns
    <3>3. CASE req[s].cmd = "getFrame" /\ ReadFails(s)
      <4>1. First(s).cmd = "getFrame" /\ First(s).val # 0
        BY <1>2, <1>6, <2>3, <3>3 DEF Report
      <4> QED
        BY <1>6, <2>3, <3>3, <4>1 DEF ReadFails, CorrectReply
    <3> QED
      BY <1>7, <3>1, <3>2, <3>3
  <2>4. Answering(s) => Rest(s) = <<>>
    BY <1>10, <2>3
  <2> QED
    BY <1>4, <1>5, <1>6, <2>2, <2>4
<1>8. CASE ReadPacket(s)
  <2>1. /\ pc'[s] = "read" /\ handle'[s] = "open" /\ inbox'[s] = Rest(s)
        /\ got'[s] = got[s] + 1 /\ req'[s] = req[s] /\ toDevice' = toDevice
    BY <1>1, <1>8 DEF ReadPacket, FrameInv, TypeInv, TypeOK
  <2>2. inbox[s][1].left # 0 /\ 1 \in DOMAIN inbox[s]
    BY <1>2, <1>8 DEF ReadPacket
  <2>3. /\ 1 + 1 \in DOMAIN inbox[s] /\ inbox[s][1 + 1].val = inbox[s][1].val
    BY <2>2 DEF FrameInv, FramesOK, Whole
  <2>4. 1 \in DOMAIN Rest(s) /\ Rest(s)[1] = inbox[s][1 + 1] /\ Rest(s) # <<>>
    <3>1. 1 \in DOMAIN Rest(s)
      BY <1>2, <2>3
    <3> QED
      BY <1>2, <3>1
  <2>5. ASSUME Answering(s) PROVE Answering(s)'
    <3>1. Len(Rest(s)) = req[s].packets - (got[s] + 1)
      BY <1>2, <1>3, <1>6, <2>5
    <3>2. ASSUME NEW i \in DOMAIN Rest(s)
          PROVE  Rest(s)[i] = Reply(req[s].cmd, Rest(s)[1].val,
                                    req[s].packets - ((got[s] + 1) + i), s)
      <4>1. i + 1 \in DOMAIN inbox[s] /\ Rest(s)[i] = inbox[s][i + 1] /\ i \in Nat
        BY <1>2
      <4>2. inbox[s][i + 1] = Reply(req[s].cmd, inbox[s][1].val,
                                    req[s].packets - (got[s] + (i + 1)), s)
        BY <2>5, <4>1 DEF Answering
      <4>3. got[s] + (i + 1) = (got[s] + 1) + i
        BY <1>3, <4>1
      <4> QED
        BY <2>3, <2>4, <4>1, <4>2, <4>3
    <3> QED
      BY <1>6, <2>1, <2>4, <2>5, <3>1, <3>2 DEF Answering
  <2>6. ASSUME Behind(s) PROVE Behind(s)'
    <3>1. CASE ~OnlyOneWay(toDevice)
      BY <2>1, <2>4, <3>1 DEF Behind
    <3>2. CASE \E i \in DOMAIN inbox[s] : i # Len(inbox[s]) /\ inbox[s][i].left = 0
      <4>1. PICK i \in DOMAIN inbox[s] : i # Len(inbox[s]) /\ inbox[s][i].left = 0
        BY <3>2
      <4>2. i # 1 /\ i \in 1 .. Len(inbox[s])
        BY <1>2, <2>2, <4>1
      <4> DEFINE j == i - 1
      <4>3. j \in 1 .. Len(Rest(s)) /\ i = j + 1 /\ j # Len(Rest(s))
        BY <1>2, <4>1, <4>2
      <4>4. Rest(s)[j].left = 0
        BY <1>2, <4>1, <4>3
      <4> QED
        BY <1>2, <2>1, <4>3, <4>4 DEF Behind
    <3>3. CASE \E i, j \in DOMAIN toDevice :
                 i < j /\ toDevice[i].req.cmd \notin OneWay /\ toDevice[j].req.cmd \notin OneWay
      BY <3>1, <3>3 DEF OnlyOneWay
    <3> QED
      BY <1>1, <2>6, <3>1, <3>2, <3>3 DEF Behind
  <2> QED
    BY <1>4, <2>1, <2>5, <2>6 DEF InStep
<1>9. CASE ReadFormat(s)
  <2>1. /\ pc'[s] = "write" /\ inbox'[s] = Rest(s) /\ toDevice' = toDevice
    BY <1>1, <1>9 DEF ReadFormat, Goto, FrameInv, TypeInv, TypeOK
  <2>2. req[s].packets = got[s] + 1
    BY <1>3, <1>9 DEF ReadFormat
  <2>3. Answering(s) => Rest(s) = <<>>
    BY <1>10, <2>2
  <2> QED
    BY <1>4, <1>5, <1>6, <2>1, <2>3 DEF InStep, Behind, Quiet
<1> QED
  BY <1>1, <1>4, <1>7, <1>8, <1>9

\* The last report of a queue of whole answers is the last of its answer.
LEMMA WholeEnds ==
  ASSUME NEW q \in Seq(Report), q # <<>>, Whole(q)
  PROVE  Len(q) \in DOMAIN q /\ q[Len(q)].left = 0
<1>1. DOMAIN q = 1 .. Len(q) /\ Len(q) \in Nat \ {0}
  BY Taken, LenProperties
<1>2. Len(q) \in DOMAIN q /\ Len(q) + 1 \notin DOMAIN q
  BY <1>1
<1> QED
  BY <1>2 DEF Whole

\* The requests that are left when the device has executed the first.
LEMMA ExecutedOneWay ==
  ASSUME TypeOK, Execute
  PROVE  OnlyOneWay(toDevice) <=> toDevice[1].req.cmd \in OneWay /\ OnlyOneWay(toDevice')
<1>1. /\ Len(toDevice) \in Nat \ {0} /\ Len(toDevice') = Len(toDevice) - 1
      /\ DOMAIN toDevice = 1 .. Len(toDevice) /\ DOMAIN toDevice' = 1 .. Len(toDevice')
      /\ \A i \in DOMAIN toDevice' : i + 1 \in DOMAIN toDevice /\ toDevice'[i] = toDevice[i + 1]
  BY Executed
<1>2. ASSUME OnlyOneWay(toDevice)
      PROVE  toDevice[1].req.cmd \in OneWay /\ OnlyOneWay(toDevice')
  BY <1>1, <1>2 DEF OnlyOneWay
<1>3. ASSUME toDevice[1].req.cmd \in OneWay, OnlyOneWay(toDevice'), NEW i \in DOMAIN toDevice
      PROVE  toDevice[i].req.cmd \in OneWay
  <2>1. CASE i = 1
    BY <1>3, <2>1
  <2>2. CASE i # 1
    <3>1. i - 1 \in DOMAIN toDevice' /\ (i - 1) + 1 = i
      BY <1>1, <2>2
    <3>2. toDevice'[i - 1] = toDevice[i]
      BY <1>1, <3>1
    <3> QED
      BY <1>3, <3>1, <3>2 DEF OnlyOneWay
  <2> QED
    BY <2>1, <2>2
<1> QED
  BY <1>2, <1>3 DEF OnlyOneWay

\* The device executes the last request it has, which is the call's own.
LEMMA ExecuteAnswers ==
  ASSUME TypeInv, NEW s \in Session, handle[s] = "open", Waiting(s), Execute,
         toDevice[1].req.cmd \notin OneWay,
         NEW v, Packets(toDevice[1], v) \in Seq(Report), Sends(Packets(toDevice[1], v)),
         Len(Packets(toDevice[1], v)) = toDevice[1].req.packets, toDevice[1].req.packets \in Nat \ {0},
         DOMAIN Packets(toDevice[1], v) = 1 .. toDevice[1].req.packets,
         \A i \in 1 .. toDevice[1].req.packets :
           Packets(toDevice[1], v)[i] =
             Reply(toDevice[1].req.cmd, v, toDevice[1].req.packets - i, toDevice[1].to)
  PROVE  /\ Answering(s)' /\ Len(toDevice) = 1 /\ toDevice[1] = [req |-> req[s], to |-> s]
         /\ inbox'[s][1].val = v
<1> DEFINE r == toDevice[1]
           q == Packets(r, v)
<1>1. /\ Len(toDevice) \in Nat \ {0} /\ Len(toDevice') = Len(toDevice) - 1
      /\ DOMAIN toDevice = 1 .. Len(toDevice) /\ toDevice' \in Seq(Pending)
  BY Executed DEF TypeInv
<1>2. Len(toDevice) = 1 /\ r = [req |-> req[s], to |-> s]
  BY <1>1 DEF Waiting
<1>3. toDevice' = <<>>
  BY <1>1, <1>2, EmptySeq
<1>4. inbox[s] = <<>> /\ got[s] = 0 /\ inbox'[s] = <<>> \o q
  <2>1. inbox[s] = <<>> /\ got[s] = 0
    BY DEF Waiting
  <2> QED
    BY <2>1, Sent DEF TypeInv
<1>5. inbox'[s] = q
  BY <1>4, ConcatEmptySeq
<1>6. r.req = req[s] /\ r.to = s /\ UNCHANGED <<req, got>>
  BY <1>2 DEF Execute, local
<1> HIDE DEF r
<1>7. /\ q # <<>> /\ Len(q) = req[s].packets /\ DOMAIN q = 1 .. req[s].packets
      /\ 1 \in DOMAIN q
      /\ \A i \in DOMAIN q : q[i] = Reply(req[s].cmd, v, req[s].packets - i, s)
  BY <1>6, EmptySeq DEF r
<1> HIDE DEF q
<1>8. q[1].val = v
  BY <1>7, ReplyIs
<1>9. /\ Len(q) = req'[s].packets - got'[s]
      /\ \A i \in DOMAIN q : q[i] = Reply(req'[s].cmd, q[1].val, req'[s].packets - (got'[s] + i), s)
  <2>1. req'[s] = req[s] /\ got'[s] = 0 /\ req[s].packets \in Nat
    BY <1>4, <1>6 DEF r
  <2>2. req[s].packets - 0 = req[s].packets
    BY <2>1
  <2>3. \A i \in DOMAIN q : 0 + i = i
    BY <1>7, <2>1
  <2> QED
    BY <1>7, <1>8, <2>1, <2>2, <2>3
<1> QED
  BY <1>2, <1>3, <1>5, <1>7, <1>8, <1>9 DEF Answering, r

\* The device executes a one-way request, or answers one.
LEMMA ExecuteKinds ==
  ASSUME TypeInv, Execute
  PROVE  \/ /\ toDevice[1].req.cmd \in OneWay /\ UNCHANGED inbox
            /\ size' = IF toDevice[1].req.cmd = "reset" THEN DefaultSize ELSE size
         \/ /\ toDevice[1].req.cmd \notin OneWay
            /\ \E v : /\ Sends(Packets(toDevice[1], v))
                      /\ \/ /\ toDevice[1].req.cmd = "setFormat"
                            /\ \/ v = toDevice[1].req.arg /\ size' = v /\ v \in Size
                               \/ v = 0 /\ UNCHANGED size
                         \/ toDevice[1].req.cmd = "getFormat" /\ v = size /\ UNCHANGED size
                         \/ /\ toDevice[1].req.cmd \notin {"setFormat", "getFormat"}
                            /\ v = toDevice[1].req.arg /\ v \in Value /\ UNCHANGED size
                      /\ Packets(toDevice[1], v) \in Seq(Report)
                      /\ Len(Packets(toDevice[1], v)) = toDevice[1].req.packets
                      /\ toDevice[1].req.packets \in Nat \ {0}
                      /\ DOMAIN Packets(toDevice[1], v) = 1 .. toDevice[1].req.packets
                      /\ \A i \in 1 .. toDevice[1].req.packets :
                           Packets(toDevice[1], v)[i] =
                             Reply(toDevice[1].req.cmd, v, toDevice[1].req.packets - i, toDevice[1].to)
<1>1. PICK r, v :
        /\ r \in Pending /\ r = toDevice[1]
        /\ \/ /\ r.req.cmd \in OneWay /\ UNCHANGED inbox
              /\ size' = IF r.req.cmd = "reset" THEN DefaultSize ELSE size
           \/ /\ r.req.cmd = "setFormat" /\ Sends(Packets(r, v))
              /\ \/ v = r.req.arg /\ size' = v /\ v \in Size
                 \/ v = 0 /\ UNCHANGED size
           \/ r.req.cmd = "getFormat" /\ Sends(Packets(r, v)) /\ v = size /\ UNCHANGED size
           \/ /\ r.req.cmd \in Cmd \ (OneWay \cup {"setFormat", "getFormat"})
              /\ Sends(Packets(r, v)) /\ v = r.req.arg /\ v \in Value /\ UNCHANGED size
  BY Executed DEF TypeInv
<1>2. CASE r.req.cmd \in OneWay
  BY <1>1, <1>2 DEF OneWay
<1>3. CASE r.req.cmd \notin OneWay
  <2>1. /\ r.req.cmd \notin OneWay /\ Sends(Packets(r, v))
        /\ \/ /\ r.req.cmd = "setFormat"
              /\ \/ v = r.req.arg /\ size' = v /\ v \in Size
                 \/ v = 0 /\ UNCHANGED size
           \/ r.req.cmd = "getFormat" /\ v = size /\ UNCHANGED size
           \/ /\ r.req.cmd \in Cmd \ {"setFormat", "getFormat"}
              /\ v = r.req.arg /\ v \in Value /\ UNCHANGED size
    BY <1>1, <1>3 DEF OneWay
  <2>2. \/ r.req.cmd \in Cmd \ {"setFormat", "getFormat"} /\ v \in Value
        \/ r.req.cmd = "setFormat" /\ v \in Size \cup {0}
        \/ r.req.cmd = "getFormat" /\ v \in Size
    BY <2>1 DEF TypeInv, TypeOK
  <2>3. /\ Packets(r, v) \in Seq(Report) /\ Len(Packets(r, v)) = r.req.packets
        /\ r.req.packets \in Nat \ {0} /\ DOMAIN Packets(r, v) = 1 .. r.req.packets
        /\ \A i \in 1 .. r.req.packets :
             Packets(r, v)[i] = Reply(r.req.cmd, v, r.req.packets - i, r.to)
    BY <1>1, <2>2, PacketsSent
  <2>4. \/ /\ r.req.cmd = "setFormat"
           /\ \/ v = r.req.arg /\ size' = v /\ v \in Size
              \/ v = 0 /\ UNCHANGED size
        \/ r.req.cmd = "getFormat" /\ v = size /\ UNCHANGED size
        \/ /\ r.req.cmd \notin {"setFormat", "getFormat"}
           /\ v = r.req.arg /\ v \in Value /\ UNCHANGED size
    BY <2>1
  <2> QED
    BY <1>1, <2>1, <2>3, <2>4
<1> QED
  BY <1>2, <1>3

\* What the device does keeps the session where it is, but for answers that are
\* lost because its context has no handle.
LEMMA ExecuteInStep ==
  ASSUME FrameInv, NEW s \in Session, Execute
  PROVE  /\ InStep(s) => InStep(s)'
         /\ Behind(s) => Behind(s)' \/ (handle[s] # "open" /\ InStep(s)')
<1>1. /\ toDevice # <<>> /\ toDevice' \in Seq(Pending)
      /\ Len(toDevice) \in Nat \ {0} /\ Len(toDevice') = Len(toDevice) - 1
      /\ DOMAIN toDevice = 1 .. Len(toDevice) /\ DOMAIN toDevice' = 1 .. Len(toDevice')
      /\ \A i \in DOMAIN toDevice' : i + 1 \in DOMAIN toDevice /\ toDevice'[i] = toDevice[i + 1]
  BY Executed DEF FrameInv, TypeInv
<1>2. UNCHANGED <<handle, pc, req, got>>
  BY DEF Execute, local
<1>3. OnlyOneWay(toDevice) <=> toDevice[1].req.cmd \in OneWay /\ OnlyOneWay(toDevice')
  BY ExecutedOneWay DEF FrameInv, TypeInv
<1>4. inbox[s] \in Seq(Report) /\ Whole(inbox[s])
  BY DEF FrameInv, FramesOK, TypeInv, TypeOK
<1>5. CASE toDevice[1].req.cmd \in OneWay /\ UNCHANGED inbox
  <2>1. CASE pc[s] # "read"
    BY <1>2, <1>3, <1>5, <2>1 DEF InStep, Behind, Quiet
  <2>2. ASSUME pc[s] = "read", Waiting(s) PROVE Waiting(s)'
    <3>1. req[s].cmd \notin OneWay
      BY <2>2 DEF FrameInv, TypeInv, CallOK
    <3>2. CASE Len(toDevice) = 1
      <4>1. toDevice[1].req = req[s]
        BY <2>2, <3>2 DEF Waiting
      <4> QED
        BY <1>5, <3>1, <4>1
    <3>3. CASE Len(toDevice) # 1
      <4> DEFINE n == Len(toDevice')
      <4>1. n \in DOMAIN toDevice' /\ n + 1 = Len(toDevice) /\ n \in Nat \ {0}
        BY <1>1, <3>3
      <4>2. toDevice'[n] = [req |-> req[s], to |-> s]
        BY <1>1, <2>2, <4>1 DEF Waiting
      <4>3. ASSUME NEW i \in DOMAIN toDevice', i # n PROVE toDevice'[i].req.cmd \in OneWay
        <5>1. i + 1 \in DOMAIN toDevice /\ i + 1 # Len(toDevice) /\ toDevice'[i] = toDevice[i + 1]
          BY <1>1, <4>1, <4>3
        <5> QED
          BY <2>2, <5>1 DEF Waiting
      <4>4. toDevice' # <<>>
        BY <4>1
      <4> QED
        BY <1>2, <1>5, <2>2, <4>2, <4>3, <4>4 DEF Waiting
    <3> QED
      BY <3>2, <3>3
  <2>3. CASE pc[s] = "read" /\ handle[s] = "open"
    <3>1. InStep(s) => InStep(s)'
      <4>1. ~Answering(s)
        BY <1>1 DEF Answering
      <4> QED
        BY <1>2, <2>2, <2>3, <4>1 DEF InStep
    <3>2. ASSUME Behind(s) PROVE Behind(s)'
      <4>1. CASE inbox[s] # <<>> /\ ~OnlyOneWay(toDevice)
        BY <1>2, <1>3, <1>5, <2>3, <4>1 DEF Behind
      <4>2. CASE \E i, j \in DOMAIN toDevice :
                   i < j /\ toDevice[i].req.cmd \notin OneWay /\ toDevice[j].req.cmd \notin OneWay
        <5>1. PICK i, j \in DOMAIN toDevice :
                i < j /\ toDevice[i].req.cmd \notin OneWay /\ toDevice[j].req.cmd \notin OneWay
          BY <4>2
        <5>2. i # 1
          BY <1>5, <5>1
        <5>3. /\ i - 1 \in DOMAIN toDevice' /\ (i - 1) + 1 = i
              /\ j - 1 \in DOMAIN toDevice' /\ (j - 1) + 1 = j /\ i - 1 < j - 1
          BY <1>1, <5>1, <5>2
        <5>4. toDevice'[i - 1] = toDevice[i] /\ toDevice'[j - 1] = toDevice[j]
          BY <1>1, <5>3
        <5> QED
          BY <1>2, <2>3, <5>1, <5>3, <5>4 DEF Behind
      <4>3. CASE \E i \in DOMAIN inbox[s] : i # Len(inbox[s]) /\ inbox[s][i].left = 0
        BY <1>2, <1>5, <2>3, <4>3 DEF Behind
      <4> QED
        BY <2>3, <3>2, <4>1, <4>2, <4>3 DEF Behind
    <3> QED
      BY <3>1, <3>2
  <2>4. CASE pc[s] = "read" /\ handle[s] # "open"
    BY <1>2, <1>3, <1>5, <2>4 DEF InStep, Behind, Quiet
  <2> QED
    BY <2>1, <2>3, <2>4
<1>6. CASE toDevice[1].req.cmd \notin OneWay
  <2>1. PICK v :
          /\ Sends(Packets(toDevice[1], v))
          /\ Packets(toDevice[1], v) \in Seq(Report)
          /\ Len(Packets(toDevice[1], v)) = toDevice[1].req.packets
          /\ toDevice[1].req.packets \in Nat \ {0}
          /\ DOMAIN Packets(toDevice[1], v) = 1 .. toDevice[1].req.packets
          /\ \A i \in 1 .. toDevice[1].req.packets :
               Packets(toDevice[1], v)[i] =
                 Reply(toDevice[1].req.cmd, v, toDevice[1].req.packets - i, toDevice[1].to)
    BY <1>6, ExecuteKinds DEF FrameInv
  <2> DEFINE q == Packets(toDevice[1], v)
  <2>2. ~Quiet(s) /\ ~OnlyOneWay(toDevice)
    BY <1>3, <1>6 DEF Quiet
  <2>3. CASE handle[s] # "open"
    <3>1. inbox'[s] = inbox[s]
      BY <2>1, <2>3, Sent DEF FrameInv, TypeInv
    <3> QED
      BY <1>2, <2>2, <2>3, <3>1 DEF InStep, Behind, Quiet
  <2>4. CASE handle[s] = "open"
    <3>1. inbox'[s] = inbox[s] \o q /\ q \in Seq(Report) /\ Len(q) \in Nat \ {0}
      BY <2>1, <2>4, Sent DEF FrameInv, TypeInv
    <3> HIDE DEF q
    <3>2. /\ inbox'[s] \in Seq(Report) /\ Len(inbox'[s]) = Len(inbox[s]) + Len(q)
          /\ DOMAIN inbox[s] = 1 .. Len(inbox[s]) /\ DOMAIN inbox'[s] = 1 .. Len(inbox'[s])
          /\ Len(inbox[s]) \in Nat
          /\ \A i \in DOMAIN inbox[s] : inbox'[s][i] = inbox[s][i]
      BY <1>4, <3>1, Joined
    <3>3. inbox'[s] # <<>>
      <4>1. Len(inbox'[s]) # 0
        BY <3>1, <3>2
      <4> QED
        BY <3>2, <4>1, EmptySeq
    <3>4. CASE pc[s] # "read"
      BY <1>2, <2>2, <3>3, <3>4 DEF InStep, Behind, Quiet
    <3>5. CASE pc[s] = "read"
      <4>1. InStep(s) => InStep(s)'
        <5>1. ~Answering(s)
          BY <1>1 DEF Answering
        <5>2. Waiting(s) => Answering(s)'
          BY <1>6, <2>1, <2>4, ExecuteAnswers DEF FrameInv
        <5> QED
          BY <1>2, <2>4, <3>5, <5>1, <5>2 DEF InStep
      <4>2. ASSUME ~OnlyOneWay(toDevice') PROVE Behind(s)'
        BY <1>2, <2>4, <3>3, <3>5, <4>2 DEF Behind
      <4>3. ASSUME NEW i \in DOMAIN inbox[s], inbox[s][i].left = 0 PROVE Behind(s)'
        <5>1. i \in DOMAIN inbox'[s] /\ i # Len(inbox'[s]) /\ inbox'[s][i].left = 0
          BY <3>1, <3>2, <4>3
        <5> QED
          BY <1>2, <2>4, <3>5, <5>1 DEF Behind
      <4>4. ASSUME Behind(s) PROVE Behind(s)'
        <5>1. CASE inbox[s] # <<>>
          BY <1>4, <4>3, <5>1, WholeEnds
        <5>2. CASE \E i, j \in DOMAIN toDevice :
                     i < j /\ toDevice[i].req.cmd \notin OneWay /\ toDevice[j].req.cmd \notin OneWay
          <6>1. PICK i, j \in DOMAIN toDevice : i < j /\ toDevice[j].req.cmd \notin OneWay
            BY <5>2
          <6>2. j - 1 \in DOMAIN toDevice' /\ (j - 1) + 1 = j
            BY <1>1, <6>1
          <6>3. toDevice'[j - 1] = toDevice[j]
            BY <1>1, <6>2
          <6> QED
            BY <4>2, <6>1, <6>2, <6>3 DEF OnlyOneWay
        <5>3. CASE \E i \in DOMAIN inbox[s] : i # Len(inbox[s]) /\ inbox[s][i].left = 0
          BY <4>3, <5>3
        <5> QED
          BY <3>5, <4>4, <5>1, <5>2, <5>3 DEF Behind
      <4> QED
        BY <4>1, <4>4
    <3> QED
      BY <3>4, <3>5
  <2> QED
    BY <2>3, <2>4
<1> QED
  BY <1>5, <1>6, ExecuteKinds DEF FrameInv

\* A device that leaves makes every handle dead, so that nothing is waited for; one that
\* comes finds the queues as they were.
LEMMA BusInStep ==
  ASSUME TypeInv, NEW s \in Session, Unplug \/ Plug
  PROVE  /\ Unplug => InStep(s)' /\ handle'[s] # "open"
         /\ Plug => (InStep(s) => InStep(s)') /\ (Behind(s) => Behind(s)')
<1>1. UNCHANGED <<pc, req, got>>
  BY DEF Unplug, Plug, local
<1>2. CASE Unplug
  <2>1. inbox'[s] = <<>> /\ toDevice' = <<>> /\ handle'[s] # "open" /\ DOMAIN toDevice' = {}
    BY <1>2 DEF Unplug, TypeInv, TypeOK
  <2>2. ~Plug
    BY <1>2 DEF Unplug, Plug
  <2> QED
    BY <1>1, <2>1, <2>2 DEF InStep, Quiet, OnlyOneWay
<1>3. CASE Plug
  <2>1. UNCHANGED <<toDevice, handle, inbox>> /\ ~Unplug
    BY <1>3 DEF Plug, Unplug
  <2> QED
    BY <1>1, <2>1 DEF InStep, Behind, Quiet, Waiting, Answering
<1> QED
  BY <1>2, <1>3

\* Writing the frame size after a reset exchanges nothing.
LEMMA FrameSizeInStep ==
  ASSUME NEW s \in Session, WriteFrameSize(s)
  PROVE  (InStep(s)' <=> InStep(s)) /\ (Behind(s)' <=> Behind(s))
<1>1. UNCHANGED <<toDevice, handle, inbox, pc, req, got>>
  BY DEF WriteFrameSize, local
<1> QED
  BY <1>1 DEF InStep, Behind, Quiet, OnlyOneWay, Waiting, Answering

\* The session stays in step, or behind if replies may be late.
LEMMA StepStep ==
  ASSUME OneSession, StepInv, [Next]_vars
  PROVE  StepInv'
<1>1. FrameInv'
  BY FrameStep DEF StepInv
<1>2. FrameInv /\ TypeInv /\ \A s \in Session : InStep(s) \/ (Late /\ Behind(s))
  BY DEF StepInv, StepOK, FrameInv
<1>3. ASSUME NEW s \in Session, NEW x \in Session,
             \/ Begin(x) \/ Reconnect(x) \/ WriteOK(x) \/ WriteError(x) \/ Read(x) \/ ReadError(x)
             \/ WriteFrameSize(x)
      PROVE  InStep(s)' \/ (Late /\ Behind(s)')
  <2>1. x = s
    BY DEF OneSession
  <2> QED
    BY <1>2, <1>3, <2>1, BeginInStep, ReconnectInStep, WriteOKInStep, WriteErrorInStep,
       ReadInStep, ReadErrorInStep, FrameSizeInStep
<1>4. ASSUME NEW s \in Session, Execute \/ Unplug \/ Plug
      PROVE  InStep(s)' \/ (Late /\ Behind(s)')
  BY <1>2, <1>4, ExecuteInStep, BusInStep
<1>5. ASSUME NEW s \in Session, UNCHANGED vars
      PROVE  InStep(s)' \/ (Late /\ Behind(s)')
  <2>1. UNCHANGED <<toDevice, handle, inbox, pc, req, got>>
    BY <1>5 DEF vars, local
  <2> QED
    BY <1>2, <2>1 DEF InStep, Behind, Quiet, Waiting, Answering
<1> QED
  BY <1>1, <1>3, <1>4, <1>5 DEF StepInv, StepOK, Next

-----------------------------------------------------------------------------
(* The frame size of a session that is in step is the device's.             *)

\* The device's frame size once it has executed the resets it has.
HasReset(q) == \E i \in DOMAIN q : q[i].req.cmd = "reset"
SizeToCome  == IF HasReset(toDevice) THEN DefaultSize ELSE size

\* What a context knows of the size n of the device: its own is none or n, unless a
\* reset that has returned makes n the default and will write it, or never does.
Fits(s, n) ==
  /\ reset[s] = "none" => cached[s] \in {0, n}
  /\ reset[s] = "returned" => n = DefaultSize

\* The same of what it knows after a step.
FitsNext(s, n) ==
  /\ reset'[s] = "none" => cached'[s] \in {0, n}
  /\ reset'[s] = "returned" => n = DefaultSize

\* The context fits the device, or will when the answer in the queue is read.
Known(s) ==
  IF /\ pc[s] = "read" /\ inbox[s] # <<>>
     /\ req[s].cmd \in {"setFormat", "getFormat"} /\ inbox[s][1].val # 0
  THEN inbox[s][1].val = size
  ELSE Fits(s, SizeToCome)

\* A session that is behind may get the size wrong, but not if nothing is left to
\* read: only a new context, without a size, gets in step again.
SizeOK ==
  /\ ~attached => \A s \in Session : handle[s] # "open"
  /\ \A s \in Session :
       /\ pc[s] = "rewrite" => cached[s] = 0 /\ reset[s] = "none"
       /\ reset[s] = "returned" => pc[s] = "idle"
       /\ InStep(s) /\ handle[s] = "open" /\ pc[s] \notin {"open", "reopen"} => Known(s)

SizeInv == StepInv /\ SizeOK

ApartOK == \A s \in Session : ~(InStep(s) /\ Behind(s))

\* The same for every session.
LEMMA ApartAlways == TypeInv => ApartOK
BY Apart DEF ApartOK

\* Only a reset that is written adds a reset to the queue of the device.
LEMMA Resets ==
  ASSUME TypeInv, NEW s \in Session
  PROVE  /\ pc[s] # "idle" => (HasReset(Written(s)) <=> HasReset(toDevice) \/ req[s].cmd = "reset")
         /\ \A q \in Seq(Pending) : HasReset(Disown(q, s)) <=> HasReset(q)
<1>1. ASSUME pc[s] # "idle"
      PROVE  HasReset(Written(s)) <=> HasReset(toDevice) \/ req[s].cmd = "reset"
  <2> DEFINE w == Written(s)
             n == Len(toDevice) + 1
  <2>1. /\ DOMAIN w = DOMAIN toDevice \cup {n} /\ w[n].req = req[s]
        /\ \A i \in DOMAIN toDevice : w[i] = toDevice[i]
    BY <1>1, WrittenIs
  <2> HIDE DEF w, n
  <2>2. HasReset(w) <=> HasReset(toDevice) \/ req[s].cmd = "reset"
    BY <2>1 DEF HasReset
  <2> QED
    BY <2>2 DEF w
<1>2. ASSUME NEW q \in Seq(Pending) PROVE HasReset(Disown(q, s)) <=> HasReset(q)
  BY DisownedPending DEF HasReset
<1> QED
  BY <1>1, <1>2

\* A call that returns.
LEMMA OverKnown ==
  ASSUME TypeInv, NEW s \in Session, NEW ok, NEW v, NEW q \in Seq(Pending), NEW box,
         Return(s, ok, v, q, box),
         NEW n, n = IF HasReset(q) THEN DefaultSize ELSE size', FitsNext(s, n)
  PROVE  Known(s)'
<1>1. pc'[s] = "idle" /\ toDevice' = Disown(q, s)
  BY DEF Return, TypeInv, TypeOK
<1>2. HasReset(toDevice') <=> HasReset(q)
  BY <1>1, Resets
<1> QED
  BY <1>1, <1>2 DEF Known, Fits, FitsNext, SizeToCome

\* Starting a call leaves the frame sizes and the queues as they are.
LEMMA BeginKnown ==
  ASSUME TypeInv, SizeOK, NEW s \in Session, InStep(s), handle[s] = "open", Begin(s)
  PROVE  Known(s)'
<1>1. /\ pc[s] = "idle" /\ pc'[s] \in {"open", "write"}
      /\ UNCHANGED <<cached, toDevice, size>>
      /\ reset'[s] = IF reset[s] = "returned" THEN "sent" ELSE reset[s]
  BY DEF Begin, Goto, usb, TypeInv, TypeOK
<1>2. Fits(s, SizeToCome)
  BY <1>1 DEF SizeOK, Known
<1> QED
  BY <1>1, <1>2 DEF Known, Fits, SizeToCome

\* A reconnection clears the frame size in the context.
LEMMA ReconnectKnown ==
  ASSUME TypeInv, NEW s \in Session, Reconnect(s)
  PROVE  Known(s)'
<1>1. cached'[s] = 0 /\ reset'[s] = "none" /\ pc'[s] # "read"
  BY DEF Reconnect, Return, Goto, TypeInv, TypeOK
<1> QED
  BY <1>1 DEF Known, Fits

\* A reset that is sent fixes the size to come, to the one its caller writes next.
LEMMA WriteKnown ==
  ASSUME TypeInv, SizeOK, NEW s \in Session, InStep(s), handle[s] = "open",
         WriteOK(s) \/ WriteError(s), pc'[s] # "reopen"
  PROVE  Known(s)'
<1>1. pc[s] \in {"write", "rewrite"} /\ UNCHANGED <<handle, size>> /\ Written(s) \in Seq(Pending)
  BY WrittenIs DEF WriteOK, WriteError, usb
<1>2. /\ Fits(s, SizeToCome) /\ reset[s] # "returned"
      /\ pc[s] = "rewrite" => cached[s] = 0 /\ reset[s] = "none"
  BY <1>1 DEF SizeOK, Known
<1>3. CASE WriteOK(s)
  <2>1. /\ cached' = cached
        /\ reset'[s] = IF req[s].cmd = "reset" THEN "returned" ELSE reset[s]
    BY <1>3 DEF WriteOK, TypeInv, TypeOK
  <2>2. HasReset(Written(s)) <=> HasReset(toDevice) \/ req[s].cmd = "reset"
    BY <1>1, Resets
  <2> DEFINE n == IF HasReset(Written(s)) THEN DefaultSize ELSE size'
  <2>3. FitsNext(s, n)
    BY <1>1, <1>2, <2>1, <2>2 DEF SizeToCome, Fits, FitsNext
  <2> HIDE DEF n
  <2>6. n = IF HasReset(Written(s)) THEN DefaultSize ELSE size'
    BY DEF n
  <2>4. CASE Return(s, TRUE, 1, Written(s), inbox[s])
    BY <1>1, <2>3, <2>4, <2>6, OverKnown
  <2>5. CASE toDevice' = Written(s) /\ UNCHANGED <<inbox, req>>
    <3>1. inbox'[s] = <<>>
      BY <1>1, <2>5 DEF InStep, Quiet
    <3> QED
      BY <2>3, <2>5, <2>6, <3>1 DEF Known, Fits, FitsNext, SizeToCome
  <2> QED
    BY <1>3, <2>4, <2>5 DEF WriteOK
<1>4. CASE WriteError(s)
  <2>1. PICK q \in {toDevice} \cup IF Late /\ handle[s] = "open" THEN {Written(s)} ELSE {} :
          IF pc[s] = "rewrite" THEN Return(s, FALSE, 0, q, inbox[s])
          ELSE toDevice' = q /\ Goto(s, "reopen") /\ UNCHANGED <<inbox, op, req, got, res>>
    BY <1>4 DEF WriteError
  <2>2. q \in Seq(Pending) /\ cached' = cached /\ reset' = reset
    BY <1>1, <1>4, <2>1 DEF WriteError, TypeInv, TypeOK
  <2>3. pc[s] = "rewrite" /\ Return(s, FALSE, 0, q, inbox[s])
    BY <2>1 DEF Goto, TypeInv, TypeOK
  <2> DEFINE n == IF HasReset(q) THEN DefaultSize ELSE size'
  <2>4. FitsNext(s, n)
    BY <1>2, <2>2, <2>3 DEF FitsNext
  <2>5. n = IF HasReset(q) THEN DefaultSize ELSE size'
    OBVIOUS
  <2> HIDE DEF n
  <2> QED
    BY <2>2, <2>3, <2>4, <2>5, OverKnown
<1> QED
  BY <1>3, <1>4

\* What Spectrometer.reset writes is the size the device will have.
LEMMA FrameSizeKnown ==
  ASSUME TypeInv, SizeOK, NEW s \in Session, InStep(s), handle[s] = "open", WriteFrameSize(s)
  PROVE  Known(s)'
<1>1. /\ pc[s] = "idle" /\ reset[s] = "returned" /\ UNCHANGED <<toDevice, pc, size>>
      /\ cached'[s] = DefaultSize /\ reset'[s] = "none"
  BY DEF WriteFrameSize, local, usb, TypeInv, TypeOK
<1>2. SizeToCome = DefaultSize
  BY <1>1 DEF SizeOK, Known, Fits
<1> QED
  BY <1>1, <1>2 DEF Known, Fits, SizeToCome, HasReset

\* The format in an answer that is in step is the device's when it is stored.
LEMMA ReadKnown ==
  ASSUME FrameInv, SizeOK, NEW s \in Session, InStep(s), Read(s)
  PROVE  Known(s)'
<1>1. /\ pc[s] = "read" /\ handle[s] = "open" /\ inbox[s] # <<>> /\ UNCHANGED <<usb, handle>>
      /\ ReadFails(s) \/ ReadReturns(s) \/ ReadPacket(s) \/ ReadFormat(s)
  BY ReadIs DEF FrameInv
<1>2. /\ Answering(s) /\ toDevice = <<>> /\ toDevice \in Seq(Pending) /\ size' = size
      /\ ~HasReset(toDevice)
  BY <1>1, ReadInStep DEF FrameInv, TypeInv, TypeOK, usb, Answering, HasReset
<1>3. First(s) = inbox[s][1] /\ First(s).cmd = req[s].cmd
  <2>1. First(s) = inbox[s][1] /\ 1 \in DOMAIN inbox[s]
    BY <1>1, HeadIs DEF FrameInv, TypeInv, First
  <2>2. First(s) = Reply(req[s].cmd, inbox[s][1].val, req[s].packets - (got[s] + 1), s)
    BY <1>2, <2>1 DEF Answering
  <2> QED
    BY <2>1, <2>2, ReplyIs
<1>4. /\ req[s].cmd \in {"setFormat", "getFormat"} /\ First(s).val # 0 => First(s).val = size
      /\ ~(req[s].cmd \in {"setFormat", "getFormat"} /\ First(s).val # 0) => Fits(s, size)
  BY <1>1, <1>2, <1>3 DEF SizeOK, Known, SizeToCome
<1>5. cached \in [Session -> Size \cup {0}] /\ reset \in [Session -> ResetState]
  BY DEF FrameInv, TypeInv, TypeOK
<1>6. CASE ReadFails(s) \/ ReadReturns(s)
  <2>1. FitsNext(s, size')
    <3>1. CASE ReadFails(s)
      <4>1. ~(req[s].cmd \in {"setFormat", "getFormat"} /\ First(s).val # 0)
        BY <1>3, <3>1 DEF ReadFails, CorrectReply
      <4> QED
        BY <1>2, <1>4, <3>1, <4>1 DEF ReadFails, Fits, FitsNext
    <3>2. CASE ReadReturns(s)
      BY <1>2, <1>4, <1>5, <3>2 DEF ReadReturns, Stored, Fits, FitsNext
    <3> QED
      BY <1>6, <3>1, <3>2
  <2>2. PICK ok, v : Return(s, ok, v, toDevice, Rest(s))
    BY <1>6 DEF ReadFails, ReadReturns
  <2>3. size' = IF HasReset(toDevice) THEN DefaultSize ELSE size'
    BY <1>2
  <2> QED
    BY <1>2, <2>1, <2>2, <2>3, OverKnown DEF FrameInv
<1>7. CASE ReadPacket(s)
  BY <1>2, <1>4, <1>7 DEF ReadPacket, Known, Fits, SizeToCome
<1>8. CASE ReadFormat(s)
  <2>1. /\ cached'[s] = size /\ reset'[s] = "none" /\ pc'[s] = "write"
        /\ toDevice' = toDevice
    BY <1>4, <1>5, <1>8 DEF ReadFormat, Stored, Goto, FrameInv, TypeInv, TypeOK
  <2> QED
    BY <1>2, <2>1 DEF Known, Fits, SizeToCome
<1> QED
  BY <1>1, <1>6, <1>7, <1>8

\* A call that gives up waiting is not in step.
LEMMA ReadErrorKnown ==
  ASSUME TypeInv, NEW s \in Session, InStep(s), handle[s] = "open", ReadError(s)
  PROVE  ~InStep(s)'
<1>1. /\ pc[s] = "read" /\ inbox[s] \in Seq(Report) /\ toDevice \in Seq(Pending)
      /\ Return(s, FALSE, 0, toDevice, inbox[s])
  BY DEF ReadError, TypeInv, TypeOK
<1>2. InStep(s)' <=> inbox[s] = <<>> /\ OnlyOneWay(toDevice)
  BY <1>1, Over
<1>3. Waiting(s) => ~OnlyOneWay(toDevice)
  <2>1. req[s].cmd \notin OneWay
    BY <1>1 DEF TypeInv, CallOK
  <2>2. toDevice # <<>> => Len(toDevice) \in DOMAIN toDevice
    BY <1>1, EmptySeq, LenProperties
  <2>3. Waiting(s) => toDevice[Len(toDevice)].req = req[s]
    BY DEF Waiting
  <2> QED
    BY <2>1, <2>2, <2>3 DEF Waiting, OnlyOneWay
<1> QED
  BY <1>1, <1>2, <1>3 DEF InStep, Answering

\* The answer to a request for the format has the size the device has then.
LEMMA ExecuteKnown ==
  ASSUME FrameInv, SizeOK, NEW s \in Session, InStep(s), handle[s] = "open",
         pc[s] \notin {"open", "reopen"}, Execute
  PROVE  Known(s)'
<1>1. /\ toDevice # <<>>
      /\ Len(toDevice) \in Nat \ {0} /\ Len(toDevice') = Len(toDevice) - 1
      /\ DOMAIN toDevice = 1 .. Len(toDevice) /\ DOMAIN toDevice' = 1 .. Len(toDevice')
      /\ \A i \in DOMAIN toDevice' : i + 1 \in DOMAIN toDevice /\ toDevice'[i] = toDevice[i + 1]
  BY Executed DEF FrameInv, TypeInv
<1>2. UNCHANGED <<handle, cached, reset, pc, req, got>>
  BY DEF Execute, local
<1>3. inbox[s] = <<>> /\ (pc[s] = "read" => Waiting(s)) /\ (pc[s] # "read" => OnlyOneWay(toDevice))
  BY <1>1 DEF InStep, Quiet, Waiting, Answering
<1>4. Fits(s, SizeToCome)
  BY <1>3 DEF SizeOK, Known
<1>5. CASE toDevice[1].req.cmd \in OneWay
  <2>1. UNCHANGED inbox /\ size' = IF toDevice[1].req.cmd = "reset" THEN DefaultSize ELSE size
    BY <1>5, ExecuteKinds DEF FrameInv
  <2>2. HasReset(toDevice) <=> toDevice[1].req.cmd = "reset" \/ HasReset(toDevice')
    <3>1. ASSUME NEW i \in DOMAIN toDevice, toDevice[i].req.cmd = "reset", i # 1
          PROVE  HasReset(toDevice')
      <4>1. i - 1 \in DOMAIN toDevice' /\ (i - 1) + 1 = i
        BY <1>1, <3>1
      <4>2. toDevice'[i - 1] = toDevice[i]
        BY <1>1, <4>1
      <4> QED
        BY <3>1, <4>1, <4>2 DEF HasReset
    <3> QED
      BY <1>1, <3>1 DEF HasReset
  <2>3. SizeToCome' = SizeToCome
    BY <2>1, <2>2 DEF SizeToCome
  <2> QED
    BY <1>2, <1>3, <1>4, <2>1, <2>3 DEF Known, Fits
<1>6. CASE toDevice[1].req.cmd \notin OneWay
  <2>1. PICK v :
          /\ Sends(Packets(toDevice[1], v))
          /\ \/ /\ toDevice[1].req.cmd = "setFormat"
                /\ \/ v = toDevice[1].req.arg /\ size' = v /\ v \in Size
                   \/ v = 0 /\ UNCHANGED size
             \/ toDevice[1].req.cmd = "getFormat" /\ v = size /\ UNCHANGED size
             \/ /\ toDevice[1].req.cmd \notin {"setFormat", "getFormat"}
                /\ v = toDevice[1].req.arg /\ v \in Value /\ UNCHANGED size
          /\ Packets(toDevice[1], v) \in Seq(Report)
          /\ Len(Packets(toDevice[1], v)) = toDevice[1].req.packets
          /\ toDevice[1].req.packets \in Nat \ {0}
          /\ DOMAIN Packets(toDevice[1], v) = 1 .. toDevice[1].req.packets
          /\ \A i \in 1 .. toDevice[1].req.packets :
               Packets(toDevice[1], v)[i] =
                 Reply(toDevice[1].req.cmd, v, toDevice[1].req.packets - i, toDevice[1].to)
    BY <1>6, ExecuteKinds DEF FrameInv
  <2>2. pc[s] = "read" /\ Waiting(s)
    BY <1>1, <1>3, <1>6 DEF OnlyOneWay
  <2>3. /\ Len(toDevice) = 1 /\ toDevice[1].req = req[s] /\ inbox'[s][1].val = v
        /\ toDevice' = <<>>
    <3>1. /\ Len(toDevice) = 1 /\ toDevice[1] = [req |-> req[s], to |-> s]
          /\ inbox'[s][1].val = v /\ Answering(s)'
      BY <1>6, <2>1, <2>2, ExecuteAnswers DEF FrameInv
    <3>2. toDevice[1].req = req[s] /\ toDevice' = <<>>
      BY <3>1 DEF Answering
    <3> QED
      BY <3>1, <3>2
  <2>4. ~HasReset(toDevice) /\ ~HasReset(toDevice')
    <3>1. DOMAIN toDevice' = {} /\ \A i \in DOMAIN toDevice : i = 1
      BY <1>1, <2>3
    <3> QED
      BY <1>6, <3>1 DEF HasReset, OneWay
  <2>5. CASE req[s].cmd \in {"setFormat", "getFormat"} /\ v # 0
    <3>1. v = size'
      BY <2>1, <2>3, <2>5
    <3>2. req'[s] = req[s] /\ inbox'[s] # <<>>
      BY <1>2, <1>6, <2>1, <2>2, ExecuteAnswers DEF FrameInv, Answering
    <3> QED
      BY <1>2, <2>2, <2>3, <2>5, <3>1, <3>2 DEF Known
  <2>6. CASE ~(req[s].cmd \in {"setFormat", "getFormat"} /\ v # 0)
    <3>1. size' = size /\ cached'[s] = cached[s] /\ req'[s] = req[s]
      <4>1. size' = size
        BY <2>1, <2>3, <2>6, Values
      <4> QED
        BY <1>2, <4>1
    <3>2. Fits(s, SizeToCome)'
      BY <1>2, <1>4, <2>4, <3>1 DEF SizeToCome, Fits
    <3> QED
      BY <2>3, <2>6, <3>1, <3>2 DEF Known
  <2> QED
    BY <2>5, <2>6
<1> QED
  BY <1>5, <1>6

\* Every step keeps the frame size in the context current, or the session behind.
LEMMA SizeStep ==
  ASSUME OneSession, SizeInv, [Next]_vars
  PROVE  SizeInv'
<1>1. StepInv'
  BY StepStep DEF SizeInv
<1>2. \A s \in Session : ~(InStep(s)' /\ Behind(s)')
  <2>1. TypeInv' => ApartOK'
    BY ApartAlways, PTL
  <2> QED
    BY <1>1, <2>1 DEF StepInv, FrameInv, ApartOK
<1>3. /\ FrameInv /\ TypeInv /\ TypeOK /\ SizeOK
      /\ \A s \in Session : InStep(s) \/ Behind(s)
  BY DEF SizeInv, StepInv, StepOK, FrameInv, TypeInv
<1>4. ~attached' => \A s \in Session : handle'[s] # "open"
  <2>1. ASSUME NEW x \in Session, Reconnect(x), ~attached', NEW s \in Session
        PROVE  handle'[s] # "open"
    BY <1>3, <2>1 DEF Reconnect, usb, SizeOK, TypeOK
  <2>2. ASSUME NEW x \in Session,
               \/ Begin(x) \/ WriteOK(x) \/ WriteFrameSize(x) \/ WriteError(x) \/ ReadError(x)
        PROVE  UNCHANGED <<attached, handle>>
    BY <2>2 DEF Begin, WriteOK, WriteFrameSize, WriteError, ReadError, usb
  <2>3. ASSUME NEW x \in Session, Read(x) PROVE UNCHANGED <<attached, handle>>
    BY <2>3 DEF Read, usb
  <2>4. ASSUME Unplug, NEW s \in Session PROVE handle'[s] # "open"
    BY <1>3, <2>4 DEF Unplug, TypeOK
  <2>5. CASE Execute \/ UNCHANGED vars
    BY <1>3, <2>5 DEF Execute, vars, usb, SizeOK
  <2> QED
    BY <1>3, <2>1, <2>2, <2>3, <2>4, <2>5 DEF Next, Plug, SizeOK
<1>5. ASSUME NEW s \in Session
      PROVE  pc'[s] = "rewrite" => cached'[s] = 0 /\ reset'[s] = "none"
  <2>1. ASSUME NEW x \in Session, Reconnect(x), x = s
        PROVE  cached'[s] = 0 /\ reset'[s] = "none"
    BY <1>3, <2>1 DEF Reconnect, TypeOK
  <2>2. ASSUME NEW x \in Session, x = s,
               Begin(x) \/ WriteOK(x) \/ WriteError(x) \/ ReadError(x)
        PROVE  pc'[s] # "rewrite"
    BY <1>3, <2>2 DEF Begin, WriteOK, WriteError, ReadError, Return, Goto, TypeOK
  <2>3. ASSUME NEW x \in Session, x = s, Read(x) PROVE pc'[s] # "rewrite"
    BY <1>3, <2>3, ReadIs DEF ReadFails, ReadReturns, ReadPacket, ReadFormat, Return, Goto, TypeOK
  <2>4. CASE Execute \/ Unplug \/ Plug \/ UNCHANGED vars
    BY <1>3, <2>4 DEF Execute, Unplug, Plug, vars, local, SizeOK
  <2>5. ASSUME NEW x \in Session, x = s, WriteFrameSize(x) PROVE pc'[s] # "rewrite"
    BY <2>5 DEF WriteFrameSize, local
  <2> QED
    BY <2>1, <2>2, <2>3, <2>4, <2>5 DEF Next, OneSession
<1>7. ASSUME NEW s \in Session
      PROVE  reset'[s] = "returned" => pc'[s] = "idle"
  <2>1. ASSUME NEW x \in Session, Begin(x) \/ Reconnect(x) \/ WriteFrameSize(x), x = s
        PROVE  reset'[s] # "returned"
    BY <1>3, <2>1 DEF Begin, Reconnect, WriteFrameSize, TypeOK
  <2>2. ASSUME NEW x \in Session, x = s, WriteOK(x), reset'[s] = "returned"
        PROVE  pc'[s] = "idle"
    <3>1. pc[s] # "idle" /\ reset[s] # "returned"
      BY <1>3, <2>2 DEF WriteOK, SizeOK
    <3>2. req[s].cmd = "reset"
      BY <2>2, <3>1 DEF WriteOK
    <3>3. req[s].cmd \in OneWay
      BY <3>2 DEF OneWay
    <3> QED
      BY <1>3, <2>2, <3>3 DEF WriteOK, Return, TypeOK
  <2>3. ASSUME NEW x \in Session, x = s, WriteError(x) \/ ReadError(x) PROVE reset'[s] # "returned"
    BY <1>3, <2>3 DEF WriteError, ReadError, SizeOK
  <2>4. ASSUME NEW x \in Session, x = s, Read(x) PROVE reset'[s] # "returned"
    <3>1. /\ reset[s] # "returned"
          /\ ReadFails(s) \/ ReadReturns(s) \/ ReadPacket(s) \/ ReadFormat(s)
      BY <1>3, <2>4, ReadIs DEF SizeOK
    <3> QED
      BY <1>3, <3>1 DEF ReadFails, ReadReturns, ReadPacket, ReadFormat, Stored, TypeOK
  <2>5. CASE Execute \/ Unplug \/ Plug \/ UNCHANGED vars
    BY <1>3, <2>5 DEF Execute, Unplug, Plug, vars, local, SizeOK
  <2> QED
    BY <2>1, <2>2, <2>3, <2>4, <2>5 DEF Next, OneSession
<1>6. ASSUME NEW s \in Session, InStep(s)', handle'[s] = "open", pc'[s] \notin {"open", "reopen"}
      PROVE  Known(s)'
  <2>1. ~Behind(s)'
    BY <1>2, <1>6
  <2>2. CASE Reconnect(s)
    BY <1>3, <2>2, ReconnectKnown
  <2>3. CASE Begin(s)
    <3>1. handle[s] = "open" /\ InStep(s)
      BY <1>3, <1>6, <2>1, <2>3, BeginInStep DEF Begin
    <3> QED
      BY <1>3, <2>3, <3>1, BeginKnown
  <2>4. CASE WriteOK(s) \/ WriteError(s)
    <3>1. handle[s] = "open" /\ InStep(s)
      BY <1>3, <1>6, <2>1, <2>4, WriteOKInStep, WriteErrorInStep DEF WriteOK, WriteError
    <3> QED
      BY <1>3, <1>6, <2>4, <3>1, WriteKnown
  <2>5. CASE Read(s)
    <3>1. InStep(s)
      BY <1>3, <2>1, <2>5, ReadInStep
    <3> QED
      BY <1>3, <2>5, <3>1, ReadKnown
  <2>6. CASE ReadError(s)
    <3>1. handle[s] = "open" /\ InStep(s)
      BY <1>3, <1>6, <2>1, <2>6, ReadErrorInStep DEF ReadError
    <3> QED
      BY <1>3, <1>6, <2>6, <3>1, ReadErrorKnown
  <2>7. CASE Execute
    <3>1. handle[s] = "open" /\ pc[s] \notin {"open", "reopen"}
      BY <1>6, <2>7 DEF Execute, local
    <3>2. InStep(s)
      BY <1>3, <2>1, <2>7, <3>1, ExecuteInStep
    <3> QED
      BY <1>3, <2>7, <3>1, <3>2, ExecuteKnown
  <2>8. CASE Unplug
    BY <1>3, <1>6, <2>8, BusInStep
  <2>9. CASE Plug
    BY <1>3, <1>6, <2>9 DEF Plug, SizeOK
  <2>10. CASE UNCHANGED vars
    <3>1. UNCHANGED <<toDevice, handle, inbox, pc, req, got, cached, reset, size>>
      BY <2>10 DEF vars, local, usb
    <3> QED
      BY <1>3, <1>6, <3>1 DEF SizeOK, Known, Fits, SizeToCome, HasReset, InStep, Quiet,
                              OnlyOneWay, Waiting, Answering
  <2>11. CASE WriteFrameSize(s)
    <3>1. handle[s] = "open" /\ InStep(s)
      BY <1>6, <2>11, FrameSizeInStep DEF WriteFrameSize
    <3> QED
      BY <1>3, <2>11, <3>1, FrameSizeKnown
  <2> QED
    BY <2>2, <2>3, <2>4, <2>5, <2>6, <2>7, <2>8, <2>9, <2>10, <2>11 DEF Next, OneSession
<1> QED
  BY <1>1, <1>4, <1>5, <1>6, <1>7 DEF SizeInv, SizeOK

\* No context has a frame size at first.
LEMMA SizeInit == Init => SizeInv
<1> SUFFICES ASSUME Init PROVE SizeInv
  OBVIOUS
<1>1. FrameInv
  BY FramesInit
<1>2. \A s \in Session : InStep(s) /\ Known(s)
  BY DEF Init, InStep, Quiet, OnlyOneWay, Known, Fits
<1> QED
  BY <1>1, <1>2 DEF SizeInv, SizeOK, StepInv, StepOK, Init

\* libspectrometer.c:277, :612 and spectrometer.py:260: a context keeps no frame size the
\* device no longer has once the session has read all that was sent to it, for one
\* thread on the device: not after refusals, power cycles, failed writes that were
\* delivered, timeouts whose replies came later, or a Spectrometer.reset.  It may
\* after a resetDevice whose caller leaves the size as it was.
THEOREM SizeNeverStale ==
  ASSUME OneSession
  PROVE  Spec => []FrameSizeCurrent
<1>1. SizeInv => FrameSizeCurrent
  <2> SUFFICES ASSUME SizeInv, NEW s \in Session, pc[s] = "idle", handle[s] = "open",
                      reset[s] = "none", inbox[s] = <<>>, toDevice = <<>>
               PROVE  cached[s] \in {0, size}
    BY DEF FrameSizeCurrent
  <2>1. Quiet(s) /\ ~HasReset(toDevice)
    BY DEF Quiet, OnlyOneWay, HasReset
  <2>2. InStep(s)
    BY <2>1 DEF InStep
  <2> QED
    BY <2>1, <2>2 DEF SizeInv, SizeOK, Known, Fits, SizeToCome
<1>2. SizeInv /\ [Next]_vars => SizeInv'
  BY SizeStep
<1>3. Spec => []SizeInv
  BY <1>2, SizeInit, PTL DEF Spec
<1> QED
  BY <1>1, <1>3, PTL

-----------------------------------------------------------------------------
(* Replies in time: an answer is the call's own.                            *)

\* With replies in time the session is in step.
LEMMA AlwaysInStep ==
  ASSUME ~Late, StepInv
  PROVE  FrameInv /\ TypeInv /\ TypeOK /\ \A s \in Session : InStep(s)
BY DEF StepInv, StepOK, FrameInv, TypeInv

\* The report a call reads is one of its answer's.
LEMMA ReadsOwn ==
  ASSUME FrameInv, NEW s \in Session, InStep(s), Read(s)
  PROVE  /\ Answering(s) /\ toDevice = <<>>
         /\ Head(inbox[s]).to = s /\ Head(inbox[s]).cmd = req[s].cmd
<1>1. inbox[s] # <<>> /\ Answering(s) /\ toDevice = <<>>
  BY ReadInStep DEF Read, Answering
<1>2. Head(inbox[s]) = inbox[s][1] /\ 1 \in DOMAIN inbox[s]
  BY <1>1, HeadIs DEF FrameInv, TypeInv
<1>3. Head(inbox[s]) = Reply(req[s].cmd, inbox[s][1].val, req[s].packets - (got[s] + 1), s)
  BY <1>1, <1>2 DEF Answering
<1> QED
  BY <1>1, <1>3, ReplyIs

\* internal.c:116 to 124: for one thread on the device whose replies come
\* before the timeouts, a call that returns OK has read the reply to its own
\* request, though no reply says which request it answers and no call empties the
\* queue: whatever reconnections, failed writes and refusals came before.
THEOREM AnswersAreOwn ==
  ASSUME OneSession, ~Late
  PROVE  Spec => OwnAnswer
<1> DEFINE Own == \A s \in Session :
                    pc[s] = "read" /\ pc'[s] = "idle" /\ res'[s].ok => Head(inbox[s]).to = s
<1>1. StepInv /\ [Next]_vars => [Own]_vars
  <2> SUFFICES ASSUME StepInv, Next, NEW s \in Session,
                      pc[s] = "read", pc'[s] = "idle", res'[s].ok
               PROVE  Head(inbox[s]).to = s
    OBVIOUS
  <2>1. FrameInv /\ TypeInv /\ TypeOK /\ InStep(s)
    BY AlwaysInStep
  <2>2. CASE Read(s)
    BY <2>1, <2>2, ReadsOwn
  <2>3. CASE ReadError(s)
    BY <2>1, <2>3 DEF ReadError, Return, TypeOK
  <2>4. CASE Begin(s) \/ Reconnect(s) \/ WriteOK(s) \/ WriteError(s)
    BY <2>4 DEF Begin, Reconnect, WriteOK, WriteError
  <2>5. CASE Execute \/ Unplug \/ Plug \/ WriteFrameSize(s)
    BY <2>5 DEF Execute, Unplug, Plug, WriteFrameSize, local
  <2> QED
    BY <2>2, <2>3, <2>4, <2>5 DEF Next, OneSession
<1>2. Init => StepInv
  BY SizeInit DEF SizeInv
<1>3. StepInv /\ [Next]_vars => StepInv'
  BY StepStep
<1> QED
  BY <1>1, <1>2, <1>3, PTL DEF Spec, OwnAnswer

-----------------------------------------------------------------------------
(* The refinement: what each step is to the callers.                        *)

\* The one-way requests of a queue; n of them come first, and no others.
PostedOf(q) == [i \in {j \in DOMAIN q : q[j].req.cmd \in OneWay} |-> q[i].req.cmd]
OneWayUpTo(q, n) ==
  n \in 0 .. Len(q) /\ \A i \in DOMAIN q : q[i].req.cmd \in OneWay <=> i <= n

\* The posted commands are those of the leading one-way requests, in their order.
LEMMA PostedIs ==
  ASSUME NEW q \in Seq(Pending), NEW n, OneWayUpTo(q, n)
  PROVE  /\ PostedOf(q) \in Seq(OneWay) /\ Len(PostedOf(q)) = n
         /\ n \in Nat /\ n <= Len(q) /\ Len(q) \in Nat /\ DOMAIN q = 1 .. Len(q)
         /\ \A i \in 1 .. n : PostedOf(q)[i] = q[i].req.cmd
<1>1. DOMAIN q = 1 .. Len(q) /\ Len(q) \in Nat /\ n \in Nat /\ n <= Len(q)
  BY LenProperties DEF OneWayUpTo
<1>2. {j \in DOMAIN q : q[j].req.cmd \in OneWay} = 1 .. n
  BY <1>1 DEF OneWayUpTo
<1>3. PostedOf(q) = [i \in 1 .. n |-> q[i].req.cmd]
  BY <1>2 DEF PostedOf
<1>4. PostedOf(q) \in [1 .. n -> OneWay]
  BY <1>1, <1>3 DEF OneWayUpTo
<1> QED
  BY <1>1, <1>3, <1>4, Queued

\* They are the same in queues that begin with the same one-way requests.
LEMMA PostedSame ==
  ASSUME NEW p \in Seq(Pending), NEW q \in Seq(Pending), NEW n,
         OneWayUpTo(p, n), OneWayUpTo(q, n), \A i \in 1 .. n : p[i].req.cmd = q[i].req.cmd
  PROVE  PostedOf(p) = PostedOf(q)
BY PostedIs, SeqEqual

\* What posted is in a session that is in step.
LEMMA PostedInStep ==
  ASSUME TypeInv, NEW s \in Session, InStep(s)
  PROVE  /\ OnlyOneWay(toDevice) => OneWayUpTo(toDevice, Len(toDevice))
         /\ ~OnlyOneWay(toDevice) => /\ toDevice # <<>> /\ pc[s] = "read" /\ handle[s] = "open"
                                     /\ Waiting(s) /\ OneWayUpTo(toDevice, Len(toDevice) - 1)
<1>1. toDevice \in Seq(Pending) /\ Len(toDevice) \in Nat /\ DOMAIN toDevice = 1 .. Len(toDevice)
  BY LenProperties DEF TypeInv, TypeOK
<1>2. OnlyOneWay(toDevice) => OneWayUpTo(toDevice, Len(toDevice))
  BY <1>1 DEF OnlyOneWay, OneWayUpTo
<1>3. ASSUME ~OnlyOneWay(toDevice)
      PROVE  /\ toDevice # <<>> /\ pc[s] = "read" /\ handle[s] = "open"
             /\ Waiting(s) /\ OneWayUpTo(toDevice, Len(toDevice) - 1)
  <2>1. toDevice # <<>> /\ pc[s] = "read" /\ handle[s] = "open" /\ Waiting(s)
    BY <1>3 DEF InStep, Quiet, Answering, OnlyOneWay
  <2>2. req[s].cmd \notin OneWay
    BY <2>1 DEF TypeInv, CallOK
  <2>3. Len(toDevice) \in Nat \ {0} /\ toDevice[Len(toDevice)].req = req[s]
    BY <1>1, <2>1, EmptySeq DEF Waiting
  <2>4. \A i \in DOMAIN toDevice : toDevice[i].req.cmd \in OneWay <=> i # Len(toDevice)
    BY <2>1, <2>2, <2>3 DEF Waiting
  <2>5. \A i \in DOMAIN toDevice : i # Len(toDevice) <=> i <= Len(toDevice) - 1
    BY <1>1
  <2>6. Len(toDevice) - 1 \in 0 .. Len(toDevice)
    BY <2>3
  <2> QED
    BY <2>1, <2>4, <2>5, <2>6 DEF OneWayUpTo
<1> QED
  BY <1>2, <1>3

\* A call that returns changes nothing of what is posted.
LEMMA PostedDisowned ==
  ASSUME NEW q \in Seq(Pending), NEW s, NEW n, OneWayUpTo(q, n)
  PROVE  PostedOf(Disown(q, s)) = PostedOf(q) /\ OneWayUpTo(Disown(q, s), n)
<1>1. /\ Disown(q, s) \in Seq(Pending) /\ Len(Disown(q, s)) = Len(q)
      /\ DOMAIN Disown(q, s) = DOMAIN q
      /\ \A i \in DOMAIN q : Disown(q, s)[i].req = q[i].req
  BY DisownedPending
<1>2. OneWayUpTo(Disown(q, s), n)
  BY <1>1 DEF OneWayUpTo
<1>3. \A i \in 1 .. n : i \in DOMAIN q
  BY PostedIs
<1> QED
  BY <1>1, <1>2, <1>3, PostedSame

\* A request that is written is posted if it is one-way.
LEMMA PostedWritten ==
  ASSUME TypeInv, NEW s \in Session, pc[s] # "idle", OnlyOneWay(toDevice)
  PROVE  /\ OneWayUpTo(toDevice, Len(toDevice))
         /\ req[s].cmd \notin OneWay => PostedOf(Written(s)) = PostedOf(toDevice)
         /\ req[s].cmd \in OneWay => /\ OneWayUpTo(Written(s), Len(toDevice) + 1)
                                     /\ PostedOf(Written(s)) = Append(PostedOf(toDevice), req[s].cmd)
<1> DEFINE w == Written(s)
           n == Len(toDevice)
<1>1. /\ w \in Seq(Pending) /\ Len(w) = n + 1 /\ n \in Nat
      /\ DOMAIN w = DOMAIN toDevice \cup {n + 1} /\ DOMAIN toDevice = 1 .. n
      /\ \A i \in DOMAIN toDevice : w[i] = toDevice[i]
      /\ w[n + 1].req = req[s] /\ toDevice \in Seq(Pending)
  BY WrittenIs DEF TypeInv, TypeOK
<1>2. OneWayUpTo(toDevice, n)
  BY <1>1 DEF OneWayUpTo, OnlyOneWay
<1> HIDE DEF w, n
<1>3. CASE req[s].cmd \notin OneWay
  <2>1. OneWayUpTo(w, n)
    BY <1>1, <1>2, <1>3 DEF OneWayUpTo
  <2>2. PostedOf(w) = PostedOf(toDevice)
    BY <1>1, <1>2, <2>1, PostedSame
  <2> QED
    BY <1>2, <1>3, <2>2 DEF w, n
<1>4. CASE req[s].cmd \in OneWay
  <2>1. OneWayUpTo(w, n + 1)
    <3>1. \A i \in DOMAIN w : w[i].req.cmd \in OneWay
      BY <1>1, <1>2, <1>4 DEF OneWayUpTo
    <3> QED
      BY <1>1, <3>1 DEF OneWayUpTo
  <2> DEFINE p == PostedOf(toDevice)
             a == Append(p, req[s].cmd)
  <2>2. p \in Seq(OneWay) /\ Len(p) = n /\ \A i \in 1 .. n : p[i] = toDevice[i].req.cmd
    BY <1>1, <1>2, PostedIs
  <2>3. /\ PostedOf(w) \in Seq(OneWay) /\ Len(PostedOf(w)) = n + 1
        /\ \A i \in 1 .. n + 1 : PostedOf(w)[i] = w[i].req.cmd
    BY <1>1, <2>1, PostedIs
  <2> HIDE DEF p
  <2>4. /\ a \in Seq(OneWay) /\ Len(a) = n + 1 /\ a[n + 1] = req[s].cmd
        /\ \A i \in 1 .. n : a[i] = p[i]
    <3>1. DOMAIN p = 1 .. n
      BY <2>2, LenProperties
    <3> QED
      BY <1>4, <2>2, <3>1, Appended
  <2> HIDE DEF a
  <2>5. \A i \in 1 .. n + 1 : PostedOf(w)[i] = a[i]
    BY <1>1, <2>2, <2>3, <2>4
  <2>6. PostedOf(w) = a
    BY <2>3, <2>4, <2>5, SeqEqual
  <2> QED
    BY <1>2, <1>4, <2>1, <2>6 DEF w, n, a, p
<1> QED
  BY <1>3, <1>4

\* A one-way request that is executed is the first that was posted.
LEMMA PostedExecuted ==
  ASSUME TypeInv, NEW s \in Session, InStep(s), Execute, toDevice[1].req.cmd \in OneWay
  PROVE  /\ PostedOf(toDevice) # <<>> /\ Head(PostedOf(toDevice)) = toDevice[1].req.cmd
         /\ PostedOf(toDevice') = Tail(PostedOf(toDevice))
<1> DEFINE q == toDevice'
           p == PostedOf(toDevice)
<1>1. /\ Len(toDevice) \in Nat \ {0} /\ Len(q) = Len(toDevice) - 1 /\ q \in Seq(Pending)
      /\ DOMAIN toDevice = 1 .. Len(toDevice) /\ DOMAIN q = 1 .. Len(q)
      /\ \A i \in DOMAIN q : i + 1 \in DOMAIN toDevice /\ q[i] = toDevice[i + 1]
      /\ toDevice \in Seq(Pending)
  BY Executed DEF TypeInv, TypeOK
<1>2. PICK n : OneWayUpTo(toDevice, n)
  BY PostedInStep
<1>3. /\ p \in Seq(OneWay) /\ Len(p) = n /\ n \in Nat /\ n <= Len(toDevice)
      /\ \A i \in 1 .. n : p[i] = toDevice[i].req.cmd
  BY <1>1, <1>2, PostedIs
<1> HIDE DEF q, p
<1>4. n # 0
  BY <1>1, <1>2 DEF OneWayUpTo
<1>5. /\ p # <<>> /\ Head(p) = p[1] /\ Tail(p) \in Seq(OneWay) /\ Len(Tail(p)) = n - 1
      /\ DOMAIN Tail(p) = 1 .. n - 1
      /\ \A i \in DOMAIN Tail(p) : Tail(p)[i] = p[i + 1]
  <2>1. p # <<>>
    BY <1>3, <1>4, EmptySeq
  <2>2. Tail(p) \in Seq(OneWay) /\ Len(Tail(p)) = n - 1
    BY <1>3, <2>1, Taken
  <2> QED
    BY <1>3, <2>1, <2>2, Taken, LenProperties
<1>6. OneWayUpTo(q, n - 1)
  <2>1. n - 1 \in 0 .. Len(q)
    BY <1>1, <1>3, <1>4
  <2>2. ASSUME NEW i \in DOMAIN q PROVE q[i].req.cmd \in OneWay <=> i <= n - 1
    <3>1. q[i] = toDevice[i + 1] /\ i + 1 \in DOMAIN toDevice /\ i \in Nat
      BY <1>1
    <3>2. i + 1 <= n <=> i <= n - 1
      BY <1>3, <3>1
    <3> QED
      BY <1>2, <3>1, <3>2 DEF OneWayUpTo
  <2> QED
    BY <2>1, <2>2 DEF OneWayUpTo
<1>7. /\ PostedOf(q) \in Seq(OneWay) /\ Len(PostedOf(q)) = n - 1
      /\ \A i \in 1 .. n - 1 : PostedOf(q)[i] = q[i].req.cmd
  BY <1>1, <1>6, PostedIs
<1>8. \A i \in 1 .. n - 1 : PostedOf(q)[i] = Tail(p)[i]
  <2> SUFFICES ASSUME NEW i \in 1 .. n - 1 PROVE PostedOf(q)[i] = Tail(p)[i]
    OBVIOUS
  <2>1. i \in DOMAIN q /\ i + 1 \in 1 .. n
    BY <1>1, <1>3
  <2>2. q[i] = toDevice[i + 1]
    BY <1>1, <2>1
  <2> QED
    BY <1>3, <1>5, <1>7, <2>1, <2>2
<1>9. PostedOf(q) = Tail(p)
  BY <1>5, <1>7, <1>8, SeqEqual
<1>10. p[1] = toDevice[1].req.cmd
  BY <1>3, <1>4
<1> QED
  BY <1>5, <1>9, <1>10 DEF p, q

\* A packet that is not the last is followed by the next.
LEMMA PacketFollows ==
  ASSUME FrameInv, NEW s \in Session, inbox[s] # <<>>, First(s).left # 0
  PROVE  Rest(s) # <<>>
<1>1. /\ First(s) = inbox[s][1] /\ 1 \in DOMAIN inbox[s]
      /\ DOMAIN inbox[s] = 1 .. Len(inbox[s]) /\ Len(inbox[s]) \in Nat
      /\ Rest(s) \in Seq(Report) /\ Len(Rest(s)) = Len(inbox[s]) - 1
  BY HeadIs DEF FrameInv, TypeInv, First, Rest
<1>2. 1 + 1 \in DOMAIN inbox[s]
  BY <1>1 DEF FrameInv, FramesOK, Whole
<1>3. \A n \in Nat : 1 + 1 \in 1 .. n => n - 1 # 0
  OBVIOUS
<1>4. Len(Rest(s)) # 0
  BY <1>1, <1>2, <1>3
<1> QED
  BY <1>1, <1>4, EmptySeq

\* The call of the abstract specification.
Call == [s \in Session |-> CallOf(s)]
Asking(o)     == [st |-> "asked", cmd |-> o.cmd, arg |-> o.arg, val |-> 0]
Knowing(o, v) == [st |-> "answered", cmd |-> o.cmd, arg |-> o.arg, val |-> v]

Stutter == size' = size /\ Posted' = Posted /\ Call' = Call /\ res' = res

\* A record updated in two fields is updated in one and then in the other.
LEMMA TwoFields ==
  ASSUME NEW r, NEW st, NEW v
  PROVE  [r EXCEPT !.st = st, !.val = v] = [[r EXCEPT !.st = st] EXCEPT !.val = v]
OBVIOUS

\* A call that is answered, and one that is asked, differ in state and value only.
LEMMA AskingKnowing ==
  ASSUME NEW o, NEW v
  PROVE  /\ [Asking(o) EXCEPT !.st = "answered", !.val = v] = Knowing(o, v)
         /\ [Knowing(o, v) EXCEPT !.st = "asked", !.val = 0] = Asking(o)
<1> DEFINE a(w) == [st |-> "answered", cmd |-> o.cmd, arg |-> o.arg, val |-> w]
           b(w) == [st |-> "asked", cmd |-> o.cmd, arg |-> o.arg, val |-> w]
<1>1. [b(0) EXCEPT !.st = "answered"] = a(0) /\ [a(v) EXCEPT !.st = "asked"] = b(v)
  OBVIOUS
<1>2. [a(0) EXCEPT !.val = v] = a(v) /\ [b(v) EXCEPT !.val = 0] = b(0)
  OBVIOUS
<1>3. Asking(o) = b(0) /\ Knowing(o, v) = a(v)
  BY DEF Asking, Knowing
<1> HIDE DEF a, b
<1>4. [b(0) EXCEPT !.st = "answered", !.val = v] = a(v)
  BY <1>1, <1>2, TwoFields, Zenon
<1>5. [a(v) EXCEPT !.st = "asked", !.val = 0] = b(0)
  BY <1>1, <1>2, TwoFields, Zenon
<1> QED
  BY <1>3, <1>4, <1>5, Zenon

\* Where neither the posted requests nor the calls change, nothing does.
LEMMA StutterIs == Stutter => UNCHANGED Calls!vars
BY DEF Stutter, Call, Calls!vars

\* What each state of a call is mapped to.
LEMMA CallIs ==
  ASSUME NEW s \in Session
  PROVE  /\ pc[s] = "idle" => CallOf(s) = Calls!NoCall
         /\ pc[s] # "idle" /\ ~Answered(s) => CallOf(s) = Asking(op[s])
         /\ pc[s] # "idle" /\ Answered(s) => CallOf(s) = Knowing(op[s], Head(inbox[s]).val)
         /\ Calls!NoCall.st = "idle"
         /\ \A o : Asking(o).st = "asked" /\ Asking(o).cmd = o.cmd /\ Asking(o).arg = o.arg
         /\ \A o, v : /\ Knowing(o, v).st = "answered" /\ Knowing(o, v).cmd = o.cmd
                      /\ Knowing(o, v).arg = o.arg /\ Knowing(o, v).val = v
BY DEF CallOf, Calls!NoCall, Asking, Knowing

\* What the callers see of a step, if it is this of the only session.
LEMMA CallNext ==
  ASSUME OneSession, NEW s \in Session
  PROVE  /\ pc'[s] = "idle" => Call' = [Call EXCEPT ![s] = Calls!NoCall]
         /\ pc'[s] # "idle" /\ ~Answered(s)' => Call' = [Call EXCEPT ![s] = Asking(op'[s])]
         /\ pc'[s] # "idle" /\ Answered(s)' =>
              Call' = [Call EXCEPT ![s] = Knowing(op'[s], Head(inbox'[s]).val)]
         /\ Call = [Call EXCEPT ![s] = CallOf(s)] /\ Call[s] = CallOf(s)
<1>1. /\ pc'[s] = "idle" => CallOf(s)' = Calls!NoCall
      /\ pc'[s] # "idle" /\ ~Answered(s)' => CallOf(s)' = Asking(op'[s])
      /\ pc'[s] # "idle" /\ Answered(s)' => CallOf(s)' = Knowing(op'[s], Head(inbox'[s]).val)
  BY DEF CallOf, Calls!NoCall, Asking, Knowing
<1>2. \A x \in Session : x = s
  BY DEF OneSession
<1>3. Call' = [Call EXCEPT ![s] = CallOf(s)'] /\ Call = [Call EXCEPT ![s] = CallOf(s)]
      /\ Call[s] = CallOf(s)
  BY <1>2 DEF Call
<1> QED
  BY <1>1, <1>3

\* Disowning reports changes no command.
LEMMA PostedKept ==
  ASSUME TypeInv, NEW s \in Session, InStep(s)
  PROVE  PostedOf(Disown(toDevice, s)) = PostedOf(toDevice)
<1>1. toDevice \in Seq(Pending)
  BY DEF TypeInv, TypeOK
<1> QED
  BY <1>1, PostedInStep, PostedDisowned

\* A call that returns an error.
LEMMA Ended ==
  ASSUME OneSession, TypeInv, NEW s \in Session, InStep(s), pc[s] # "idle", NEW box,
         Return(s, FALSE, 0, toDevice, box), size' = size
  PROVE  Calls!Fail(s)
<1>1. /\ pc'[s] = "idle" /\ res' = [res EXCEPT ![s] = Calls!Failed]
      /\ toDevice' = Disown(toDevice, s)
  BY DEF Return, Calls!Failed, TypeInv, TypeOK
<1>2. Posted' = Posted
  BY <1>1, PostedKept DEF Posted, PostedOf
<1>3. Call' = [Call EXCEPT ![s] = Calls!NoCall] /\ Call[s].st # "idle"
  BY <1>1, CallIs, CallNext
<1> QED
  BY <1>1, <1>2, <1>3 DEF Calls!Fail, Call

\* A call that begins asks.
LEMMA BeginAsks ==
  ASSUME OneSession, TypeInv, NEW s \in Session, Begin(s)
  PROVE  Calls!Ask(s)
<1>1. PICK c \in Cmd, a \in Size \cup Frame \cup {1} :
        op' = [op EXCEPT ![s] = Request(c, a, 0)]
  BY DEF Begin
<1>2. /\ pc[s] = "idle" /\ pc'[s] \in {"open", "write"} /\ op'[s] = Request(c, a, 0)
      /\ UNCHANGED <<size, toDevice, res>>
  BY <1>1 DEF Begin, Goto, usb, TypeInv, TypeOK
<1>3. Call[s].st = "idle" /\ Call' = [Call EXCEPT ![s] = Asking(Request(c, a, 0))]
  <2>1. ~Answered(s)'
    BY <1>2 DEF Answered
  <2> QED
    BY <1>2, <2>1, CallIs, CallNext
<1>4. Asking(Request(c, a, 0)) = [st |-> "asked", cmd |-> c, arg |-> a, val |-> 0]
  BY NoneIs DEF Asking
<1>5. Posted' = Posted
  BY <1>2 DEF Posted
<1> QED
  BY <1>1, <1>2, <1>3, <1>4, <1>5 DEF Calls!Ask, Call

\* A reconnection is no step of a call, or its failure.
LEMMA ReconnectCalls ==
  ASSUME OneSession, TypeInv, NEW s \in Session, InStep(s), Reconnect(s)
  PROVE  Calls!Fail(s) \/ Stutter
<1>1. pc[s] \in {"open", "reopen"} /\ size' = size
  BY DEF Reconnect, usb
<1>2. CASE Return(s, FALSE, 0, toDevice, <<>>)
  BY <1>1, <1>2, Ended
<1>3. CASE /\ Goto(s, IF pc[s] = "open" THEN "write" ELSE "rewrite")
           /\ UNCHANGED <<toDevice, op, req, got, res>>
  <2>1. pc'[s] \in {"write", "rewrite"} /\ ~Answered(s) /\ ~Answered(s)' /\ op'[s] = op[s]
    BY <1>1, <1>3 DEF Goto, Answered, TypeInv, TypeOK
  <2>2. Call' = Call
    BY <1>1, <2>1, CallIs, CallNext
  <2> QED
    BY <1>1, <1>3, <2>2 DEF Stutter, Posted
<1> QED
  BY <1>2, <1>3 DEF Reconnect

\* A one-way request that is written is posted and returns; other writes are no step.
LEMMA WriteCalls ==
  ASSUME OneSession, ~Late, TypeInv, NEW s \in Session, InStep(s), WriteOK(s) \/ WriteError(s)
  PROVE  Calls!Post(s) \/ Calls!Fail(s) \/ Stutter
<1>1. /\ pc[s] \in {"write", "rewrite"} /\ size' = size
      /\ inbox[s] = <<>> /\ OnlyOneWay(toDevice) /\ toDevice \in Seq(Pending)
  BY DEF WriteOK, WriteError, usb, InStep, Quiet, TypeInv, TypeOK
<1>2. ~Answered(s) /\ CallOf(s) = Asking(op[s]) /\ Call[s] = Asking(op[s])
  <2>1. ~Answered(s)
    BY <1>1 DEF Answered
  <2> QED
    BY <1>1, <2>1, CallIs, CallNext
<1>3. CASE req[s].cmd \in OneWay /\ Return(s, TRUE, 1, Written(s), inbox[s])
  <2>1. /\ pc'[s] = "idle" /\ res' = [res EXCEPT ![s] = [ok |-> TRUE, val |-> 1]]
        /\ toDevice' = Disown(Written(s), s)
    BY <1>3 DEF Return, TypeInv, TypeOK
  <2>2. req[s].cmd = op[s].cmd
    BY <1>1, <1>3, NoneIs, UnderWay DEF OneWay
  <2>3. PostedOf(toDevice') = Append(PostedOf(toDevice), op[s].cmd)
    <3>1. /\ OneWayUpTo(Written(s), Len(toDevice) + 1) /\ Written(s) \in Seq(Pending)
          /\ PostedOf(Written(s)) = Append(PostedOf(toDevice), req[s].cmd)
      BY <1>1, <1>3, WrittenIs, PostedWritten
    <3>2. PostedOf(Disown(Written(s), s)) = PostedOf(Written(s))
      BY <3>1, PostedDisowned
    <3> QED
      BY <2>1, <2>2, <3>1, <3>2
  <2>4. Call' = [Call EXCEPT ![s] = Calls!NoCall]
    BY <2>1, CallNext
  <2>5. Call[s].st = "asked" /\ Call[s].cmd = op[s].cmd /\ op[s].cmd \in OneWay
    BY <1>2, <1>3, <2>2, CallIs
  <2>6. Posted' = Append(Posted, op[s].cmd)
    BY <2>3 DEF Posted, PostedOf
  <2> QED
    BY <1>1, <2>1, <2>4, <2>5, <2>6 DEF Calls!Post, Call
<1>4. CASE /\ req[s].cmd \notin OneWay /\ toDevice' = Written(s) /\ Goto(s, "read")
           /\ UNCHANGED <<inbox, op, req, got, res>>
  <2>1. pc'[s] = "read" /\ op'[s] = op[s] /\ ~Answered(s)'
    BY <1>1, <1>4 DEF Goto, Answered, TypeInv, TypeOK
  <2>2. Call' = Call
    BY <1>2, <2>1, CallNext
  <2>3. PostedOf(toDevice') = PostedOf(toDevice)
    BY <1>1, <1>4, PostedWritten
  <2>4. Posted' = Posted
    BY <2>3 DEF Posted, PostedOf
  <2> QED
    BY <1>1, <1>4, <2>2, <2>4 DEF Stutter
<1>5. CASE WriteError(s)
  <2>1. \/ Return(s, FALSE, 0, toDevice, inbox[s])
        \/ /\ toDevice' = toDevice /\ Goto(s, "reopen")
           /\ UNCHANGED <<inbox, op, req, got, res>>
    BY <1>5 DEF WriteError
  <2>2. CASE Return(s, FALSE, 0, toDevice, inbox[s])
    BY <1>1, <2>2, Ended
  <2>3. CASE /\ toDevice' = toDevice /\ Goto(s, "reopen")
             /\ UNCHANGED <<inbox, op, req, got, res>>
    <3>1. pc'[s] = "reopen" /\ op'[s] = op[s] /\ ~Answered(s)'
      BY <1>1, <2>3 DEF Goto, Answered, TypeInv, TypeOK
    <3>2. Call' = Call
      BY <1>2, <3>1, CallNext
    <3> QED
      BY <1>1, <2>3, <3>2 DEF Stutter, Posted
  <2> QED
    BY <2>1, <2>2, <2>3
<1> QED
  BY <1>3, <1>4, <1>5 DEF WriteOK

\* Reading the answer returns it, reading a refusal or nothing fails; packets before
\* the last, and the format a getFrame asks for, are no step.
LEMMA ReadCalls ==
  ASSUME OneSession, FrameInv, NEW s \in Session, InStep(s), Read(s) \/ (~Late /\ ReadError(s))
  PROVE  Calls!Return(s) \/ Calls!Fail(s) \/ Stutter
<1>1. TypeInv
  BY DEF FrameInv
<1>2. CASE ReadError(s)
  BY <1>1, <1>2, Ended DEF ReadError, usb
<1>3. CASE Read(s)
  <2>1. /\ pc[s] = "read" /\ inbox[s] # <<>> /\ size' = size
        /\ ReadFails(s) \/ ReadReturns(s) \/ ReadPacket(s) \/ ReadFormat(s)
    BY <1>1, <1>3, ReadIs DEF usb
  <2>2. /\ Head(inbox[s]).to = s /\ Head(inbox[s]).cmd = req[s].cmd /\ First(s) = Head(inbox[s])
        /\ Answering(s) /\ toDevice = <<>>
    BY <1>3, ReadsOwn DEF First
  <2>3. CASE ReadFails(s)
    BY <1>1, <2>1, <2>3, Ended DEF ReadFails
  <2>4. CASE ReadReturns(s)
    <3>1. /\ Return(s, TRUE, First(s).val, toDevice, Rest(s)) /\ First(s).val # 0
          /\ req[s].cmd = op[s].cmd
      BY <2>4 DEF ReadReturns
    <3>2. /\ pc'[s] = "idle" /\ res' = [res EXCEPT ![s] = [ok |-> TRUE, val |-> First(s).val]]
          /\ toDevice' = Disown(toDevice, s)
      BY <1>1, <3>1 DEF Return, TypeInv, TypeOK
    <3>3. Call[s] = Knowing(op[s], First(s).val)
      <4>1. Answered(s)
        BY <2>1, <2>2, <3>1 DEF Answered
      <4> QED
        BY <2>1, <2>2, <4>1, CallIs, CallNext
    <3>4. Call' = [Call EXCEPT ![s] = Calls!NoCall]
      BY <3>2, CallNext
    <3>5. Posted' = Posted
      BY <1>1, <3>2, PostedKept DEF Posted, PostedOf
    <3>6. Call[s].st = "answered" /\ Call[s].val = First(s).val
      BY <3>3, CallIs
    <3> QED
      BY <2>1, <3>1, <3>2, <3>4, <3>5, <3>6 DEF Calls!Return, Call
  <2>5. CASE ReadPacket(s)
    <3>1. /\ pc'[s] = "read" /\ op'[s] = op[s] /\ req'[s] = req[s] /\ inbox'[s] = Rest(s)
          /\ toDevice' = toDevice /\ res' = res /\ handle'[s] = "open"
      BY <1>1, <1>3, <2>1, <2>5 DEF Read, ReadPacket, TypeInv, TypeOK
    <3>2. /\ inbox[s] \in Seq(Report) /\ 1 \in DOMAIN inbox[s] /\ First(s) = inbox[s][1]
          /\ Rest(s) \in Seq(Report)
          /\ \A i \in DOMAIN Rest(s) : i + 1 \in DOMAIN inbox[s] /\ Rest(s)[i] = inbox[s][i + 1]
      BY <1>1, <2>1, HeadIs DEF First, Rest, TypeInv
    <3>3. InStep(s)'
      BY <1>3, ReadInStep
    <3>4. Rest(s) # <<>>
      BY <2>1, <2>5, PacketFollows DEF ReadPacket
    <3>5. Head(Rest(s)) = Rest(s)[1] /\ 1 \in DOMAIN Rest(s)
      BY <3>2, <3>4, Taken
    <3>6. 1 + 1 \in DOMAIN inbox[s] /\ Rest(s)[1] = inbox[s][1 + 1]
      BY <3>2, <3>5
    <3>7. /\ Head(Rest(s)).to = s /\ Head(Rest(s)).cmd = req[s].cmd
          /\ Head(Rest(s)).val = inbox[s][1].val
      BY <2>2, <3>5, <3>6, ReplyIs DEF Answering
    <3>8. Answered(s) <=> Answered(s)'
      BY <2>1, <2>2, <3>1, <3>4, <3>7 DEF Answered
    <3>9. Call' = Call
      BY <2>1, <2>2, <3>1, <3>2, <3>7, <3>8, CallIs, CallNext
    <3>10. Posted' = Posted
      BY <3>1 DEF Posted
    <3> QED
      BY <2>1, <3>1, <3>9, <3>10 DEF Stutter
  <2>6. CASE ReadFormat(s)
    <3>1. /\ pc'[s] = "write" /\ op'[s] = op[s] /\ toDevice' = toDevice /\ res' = res
          /\ op[s].cmd = "getFrame" /\ req[s].cmd = "getFormat"
      BY <1>1, <2>6 DEF ReadFormat, Goto, TypeInv, TypeOK
    <3>2. ~Answered(s) /\ ~Answered(s)'
      BY <2>2, <3>1 DEF Answered
    <3>3. Call' = Call
      BY <2>1, <3>1, <3>2, CallIs, CallNext
    <3>4. Posted' = Posted
      BY <3>1 DEF Posted
    <3> QED
      BY <2>1, <3>1, <3>3, <3>4 DEF Stutter
  <2> QED
    BY <2>1, <2>3, <2>4, <2>5, <2>6
<1> QED
  BY <1>2, <1>3

\* The device executes what was posted, in order, or answers the call that waits.
LEMMA ExecuteCalls ==
  ASSUME OneSession, FrameInv, NEW s \in Session, InStep(s), Execute
  PROVE  Calls!ExecutePosted \/ Calls!Answer(s) \/ Stutter
<1>1. TypeInv /\ toDevice # <<>> /\ UNCHANGED <<handle, pc, op, req, got, res>>
  BY DEF FrameInv, Execute, local
<1>2. CASE toDevice[1].req.cmd \in OneWay
  <2>1. UNCHANGED inbox /\ size' = IF toDevice[1].req.cmd = "reset" THEN DefaultSize ELSE size
    BY <1>1, <1>2, ExecuteKinds
  <2>2. /\ PostedOf(toDevice) # <<>> /\ Head(PostedOf(toDevice)) = toDevice[1].req.cmd
        /\ PostedOf(toDevice') = Tail(PostedOf(toDevice))
    BY <1>1, <1>2, PostedExecuted
  <2>3. Posted # <<>> /\ Head(Posted) = toDevice[1].req.cmd /\ Posted' = Tail(Posted)
    BY <2>2 DEF Posted, PostedOf
  <2>4. Call' = Call
    <3>1. \A x \in Session : CallOf(x)' = CallOf(x)
      BY <1>1, <2>1 DEF CallOf, Answered
    <3> QED
      BY <3>1 DEF Call
  <2> QED
    BY <1>1, <2>1, <2>3, <2>4 DEF Calls!ExecutePosted, Call
<1>3. CASE toDevice[1].req.cmd \notin OneWay
  <2>1. PICK v :
          /\ Sends(Packets(toDevice[1], v))
          /\ \/ /\ toDevice[1].req.cmd = "setFormat"
                /\ \/ v = toDevice[1].req.arg /\ size' = v /\ v \in Size
                   \/ v = 0 /\ UNCHANGED size
             \/ toDevice[1].req.cmd = "getFormat" /\ v = size /\ UNCHANGED size
             \/ /\ toDevice[1].req.cmd \notin {"setFormat", "getFormat"}
                /\ v = toDevice[1].req.arg /\ v \in Value /\ UNCHANGED size
          /\ Packets(toDevice[1], v) \in Seq(Report)
          /\ Len(Packets(toDevice[1], v)) = toDevice[1].req.packets
          /\ toDevice[1].req.packets \in Nat \ {0}
          /\ DOMAIN Packets(toDevice[1], v) = 1 .. toDevice[1].req.packets
          /\ \A i \in 1 .. toDevice[1].req.packets :
               Packets(toDevice[1], v)[i] =
                 Reply(toDevice[1].req.cmd, v, toDevice[1].req.packets - i, toDevice[1].to)
    BY <1>1, <1>3, ExecuteKinds
  <2>2. /\ pc[s] = "read" /\ handle[s] = "open" /\ Waiting(s)
        /\ OneWayUpTo(toDevice, Len(toDevice) - 1) /\ toDevice \in Seq(Pending)
    <3>1. 1 \in DOMAIN toDevice
      BY <1>1, Executed DEF TypeInv
    <3>2. ~OnlyOneWay(toDevice)
      BY <1>3, <3>1 DEF OnlyOneWay
    <3> QED
      BY <1>1, <3>2, PostedInStep DEF TypeInv, TypeOK
  <2>3. /\ Len(toDevice) = 1 /\ toDevice[1].req = req[s] /\ inbox'[s][1].val = v
        /\ toDevice' = <<>> /\ inbox'[s] # <<>> /\ Answering(s)'
    <3>1. /\ Len(toDevice) = 1 /\ toDevice[1] = [req |-> req[s], to |-> s]
          /\ inbox'[s][1].val = v /\ Answering(s)'
      BY <1>1, <1>3, <2>1, <2>2, ExecuteAnswers
    <3>2. toDevice[1].req = req[s] /\ toDevice' = <<>> /\ inbox'[s] # <<>>
      BY <3>1 DEF Answering
    <3> QED
      BY <3>1, <3>2
  <2>4. Head(inbox'[s]) = inbox'[s][1] /\ Head(inbox'[s]).to = s /\ Head(inbox'[s]).cmd = req[s].cmd
    <3>1. inbox'[s] \in Seq(Report)
      BY <1>1, <2>1, Sent DEF TypeInv
    <3>2. Head(inbox'[s]) = inbox'[s][1] /\ 1 \in DOMAIN inbox'[s]
      BY <2>3, <3>1, Taken
    <3>3. inbox'[s][1] = Reply(req'[s].cmd, inbox'[s][1].val, req'[s].packets - (got'[s] + 1), s)
      BY <2>3, <3>2 DEF Answering
    <3> QED
      BY <1>1, <3>2, <3>3, ReplyIs
  <2>5. Posted = <<>> /\ Posted' = <<>>
    <3>1. Posted = <<>>
      <4>1. PostedOf(toDevice) \in Seq(OneWay) /\ Len(PostedOf(toDevice)) = 1 - 1
        BY <2>2, <2>3, PostedIs
      <4>2. PostedOf(toDevice) = <<>>
        BY <4>1, EmptySeq
      <4> QED
        BY <4>2 DEF Posted, PostedOf
    <3>2. PostedOf(<<>>) = <<>>
      <4>1. <<>> \in Seq(Pending) /\ Len(<<>>) = 0 /\ DOMAIN <<>> = {}
        OBVIOUS
      <4>2. OneWayUpTo(<<>>, 0)
        BY <4>1 DEF OneWayUpTo
      <4> QED
        BY <4>1, <4>2, PostedIs, EmptySeq
    <3> QED
      BY <2>3, <3>1, <3>2 DEF Posted, PostedOf
  <2>6. Call[s] = Asking(op[s])
    <3>1. ~Answered(s)
      BY <2>2 DEF Answered, Waiting
    <3> QED
      BY <2>2, <3>1, CallIs, CallNext
  <2>7. pc'[s] = "read" /\ op'[s] = op[s]
    BY <1>1, <2>2
  <2>8. CASE req[s].cmd = op[s].cmd /\ req[s].arg = op[s].arg
    <3>1. Answered(s)'
      BY <2>3, <2>4, <2>7, <2>8 DEF Answered
    <3>2. Call' = [Call EXCEPT ![s] = Knowing(op[s], v)]
      BY <2>3, <2>4, <2>7, <3>1, CallNext
    <3>3. Call' = [Call EXCEPT ![s].st = "answered", ![s].val = v]
      <4>1. Call = [x \in Session |-> Asking(op[s])] /\ Call' = [x \in Session |-> Knowing(op[s], v)]
        BY <2>6, <3>2 DEF Call, OneSession
      <4>2. [Call EXCEPT ![s].st = "answered", ![s].val = v] =
              [x \in Session |-> [Asking(op[s]) EXCEPT !.st = "answered", !.val = v]]
        BY <4>1 DEF OneSession
      <4>3. [Asking(op[s]) EXCEPT !.st = "answered", !.val = v] = Knowing(op[s], v)
        BY AskingKnowing
      <4> QED
        BY <4>1, <4>2, <4>3
    <3>4. \/ op[s].cmd = "setFormat" /\ v = op[s].arg /\ size' = op[s].arg
          \/ op[s].cmd = "setFormat" /\ v = 0 /\ UNCHANGED size
          \/ op[s].cmd = "getFormat" /\ v = size /\ UNCHANGED size
          \/ op[s].cmd \notin {"setFormat", "getFormat"} /\ v = op[s].arg /\ UNCHANGED size
      BY <2>1, <2>3, <2>8
    <3>5. Call[s].st = "asked" /\ Call[s].cmd = op[s].cmd /\ Call[s].arg = op[s].arg
      BY <2>6, CallIs
    <3> QED
      BY <1>1, <2>5, <3>3, <3>4, <3>5 DEF Calls!Answer, Call
  <2>9. CASE op[s].cmd = "getFrame" /\ req[s].cmd = "getFormat"
    <3>1. ~Answered(s)'
      BY <2>4, <2>7, <2>9 DEF Answered
    <3>2. Call' = Call
      BY <2>2, <2>6, <2>7, <3>1, CallNext
    <3>3. size' = size
      BY <2>1, <2>3, <2>9
    <3> QED
      BY <1>1, <2>5, <3>2, <3>3 DEF Stutter
  <2> QED
    BY <1>1, <2>2, <2>8, <2>9, UnderWay, NoneIs
<1> QED
  BY <1>2, <1>3

\* The device goes, or comes back without its settings.
LEMMA BusCalls ==
  ASSUME TypeInv, Unplug \/ Plug
  PROVE  Calls!Lose \/ Calls!Restart \/ Stutter
<1>1. UNCHANGED <<pc, op, res>>
  BY DEF Unplug, Plug, local
<1>2. CASE Plug
  <2>1. UNCHANGED <<inbox, toDevice>> /\ size' \in {size, DefaultSize}
    BY <1>2 DEF Plug
  <2>2. Call' = Call /\ Posted' = Posted
    BY <1>1, <2>1 DEF Call, CallOf, Answered, Posted
  <2> QED
    BY <1>1, <2>1, <2>2 DEF Stutter, Calls!Restart, Call
<1>3. CASE Unplug
  <2>1. /\ size' = size /\ toDevice' = <<>> /\ DOMAIN toDevice' = {}
        /\ \A s \in Session : inbox'[s] = <<>>
    BY <1>3 DEF Unplug
  <2>2. Posted' = <<>>
    <3>1. PostedOf(<<>>) = <<>>
      <4>1. <<>> \in Seq(Pending) /\ Len(<<>>) = 0 /\ DOMAIN <<>> = {}
        OBVIOUS
      <4>2. OneWayUpTo(<<>>, 0)
        BY <4>1 DEF OneWayUpTo
      <4> QED
        BY <4>1, <4>2, PostedIs, EmptySeq
    <3> QED
      BY <2>1, <3>1 DEF Posted, PostedOf
  <2>3. \A s \in Session :
          CallOf(s)' = IF CallOf(s).st = "answered"
                       THEN [CallOf(s) EXCEPT !.st = "asked", !.val = 0] ELSE CallOf(s)
    <3> SUFFICES ASSUME NEW s \in Session
                 PROVE  CallOf(s)' = IF CallOf(s).st = "answered"
                          THEN [CallOf(s) EXCEPT !.st = "asked", !.val = 0] ELSE CallOf(s)
      OBVIOUS
    <3>1. ~Answered(s)'
      BY <2>1 DEF Answered
    <3>2. CASE pc[s] = "idle"
      BY <1>1, <3>2 DEF CallOf
    <3>3. CASE pc[s] # "idle" /\ ~Answered(s)
      BY <1>1, <3>1, <3>3 DEF CallOf
    <3>4. CASE pc[s] # "idle" /\ Answered(s)
      <4>1. CallOf(s)' = Asking(op[s])
        BY <1>1, <3>1, <3>4 DEF CallOf, Asking
      <4>2. CallOf(s) = Knowing(op[s], Head(inbox[s]).val)
        BY <3>4, CallIs
      <4>3. [Knowing(op[s], Head(inbox[s]).val) EXCEPT !.st = "asked", !.val = 0] = Asking(op[s])
        BY AskingKnowing
      <4> QED
        BY <4>1, <4>2, <4>3, CallIs
    <3> QED
      BY <3>2, <3>3, <3>4
  <2> QED
    BY <1>1, <2>1, <2>2, <2>3 DEF Calls!Lose
<1> QED
  BY <1>2, <1>3

\* Nothing is posted and no call under way at first.
LEMMA CallsInit == Init => Calls!Init
<1> SUFFICES ASSUME Init PROVE Calls!Init
  OBVIOUS
<1>1. \A s \in Session : CallOf(s) = Calls!NoCall
  BY CallIs DEF Init
<1>2. Posted = <<>>
  <2>1. PostedOf(<<>>) = <<>>
    <3>1. <<>> \in Seq(Pending) /\ Len(<<>>) = 0 /\ DOMAIN <<>> = {}
      OBVIOUS
    <3>2. OneWayUpTo(<<>>, 0)
      BY <3>1 DEF OneWayUpTo
    <3> QED
      BY <3>1, <3>2, PostedIs, EmptySeq
  <2> QED
    BY <2>1 DEF Init, Posted, PostedOf
<1>3. size = DefaultSize /\ res = [s \in Session |-> Calls!Failed]
  BY DEF Init, Calls!Failed
<1> QED
  BY <1>1, <1>2, <1>3 DEF Calls!Init

\* Every step is one of the remote procedure calls, or none.
LEMMA CallsStep ==
  ASSUME OneSession, ~Late, StepInv, [Next]_vars
  PROVE  [Calls!Next]_(Calls!vars)
<1>1. FrameInv /\ TypeInv /\ \A s \in Session : InStep(s)
  BY AlwaysInStep
<1>2. ASSUME NEW s \in Session,
             \/ Begin(s) \/ Reconnect(s) \/ WriteOK(s) \/ WriteError(s) \/ Read(s) \/ ReadError(s)
      PROVE  Calls!Ask(s) \/ Calls!Post(s) \/ Calls!Return(s) \/ Calls!Fail(s) \/ Stutter
  BY <1>1, <1>2, BeginAsks, ReconnectCalls, WriteCalls, ReadCalls
<1>3. ASSUME Execute
      PROVE  Calls!ExecutePosted \/ (\E s \in Session : Calls!Answer(s)) \/ Stutter
  <2>1. PICK s \in Session : TRUE
    BY DEF OneSession
  <2> QED
    BY <1>1, <1>3, <2>1, ExecuteCalls
<1>4. ASSUME Unplug \/ Plug PROVE Calls!Lose \/ Calls!Restart \/ Stutter
  BY <1>1, <1>4, BusCalls
<1>5. CASE UNCHANGED vars \/ \E s \in Session : WriteFrameSize(s)
  <2>1. UNCHANGED <<size, toDevice, inbox, pc, op, res>>
    BY <1>5 DEF vars, WriteFrameSize, usb, local
  <2>2. Call' = Call /\ Posted' = Posted
    BY <2>1 DEF Call, CallOf, Answered, Posted
  <2>3. Stutter
    BY <2>1, <2>2 DEF Stutter
  <2> QED
    BY <2>3, StutterIs
<1> QED
  BY <1>2, <1>3, <1>4, <1>5, StutterIs DEF Next, Calls!Next

\* For one thread on the device whose replies come before the timeouts, the
\* library implements the remote procedure calls of DeviceCalls: _reconnect, the
\* retry of a write, the format asked for within getFrame and the packets of a
\* frame are invisible to the caller; requests are executed in order and at most
\* once per call, and OK means the device's answer to this call.
THEOREM CallsImplemented ==
  ASSUME OneSession, ~Late
  PROVE  Spec => Implements
<1>1. Init => Calls!Init
  BY CallsInit
<1>2. StepInv /\ [Next]_vars => [Calls!Next]_(Calls!vars)
  BY CallsStep
<1>3. Init => StepInv
  BY SizeInit DEF SizeInv
<1>4. StepInv /\ [Next]_vars => StepInv'
  BY StepStep
<1> QED
  BY <1>1, <1>2, <1>3, <1>4, PTL DEF Spec, Calls!Spec, Implements
=============================================================================
