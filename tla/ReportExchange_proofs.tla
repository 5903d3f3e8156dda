------------------------ MODULE ReportExchange_proofs ------------------------
(***************************************************************************)
(* Requests and replies with any number of sessions and replies of any     *)
(* age: the type invariant, and that no frame is torn.                     *)
(***************************************************************************)
EXTENDS ReportExchange, QueueLemmas, FiniteSetTheorems

\* A call under way and the request it exchanges.
CallOK ==
  \A s \in Session :
    /\ pc[s] = "idle" => op[s] = None /\ req[s] = None /\ got[s] = 0
    /\ pc[s] # "idle" =>
         /\ op[s] # None /\ req[s] \in Asked
         /\ \/ req[s].cmd = op[s].cmd /\ req[s].arg = op[s].arg
            \/ op[s].cmd = "getFrame" /\ req[s] = Request("getFormat", 1, 1)
         /\ req[s].cmd # "getFrame" => req[s].packets = 1
         /\ got[s] < req[s].packets
         /\ got[s] > 0 => pc[s] = "read"
         /\ pc[s] = "read" => req[s].cmd \notin OneWay

TypeInv == TypeOK /\ CallOK

-----------------------------------------------------------------------------
\* Frame sizes and frame numbers are positive, so that 0 can stand for a refusal.
LEMMA Values ==
  /\ Size \subseteq Nat \ {0} /\ Frame \subseteq Nat \ {0} /\ DefaultSize \in Size
  /\ Value \subseteq Nat \ {0} /\ Size \subseteq Value /\ Frame \subseteq Value /\ 1 \in Value
  /\ NULL \notin Session
BY ExchangeAssumption DEF Value

\* The fields of a request, and of none.
LEMMA NoneIs ==
  /\ None.cmd = "none" /\ None.cmd \notin Cmd
  /\ \A c, a, n : /\ Request(c, a, n) = [cmd |-> c, arg |-> a, packets |-> n]
                  /\ Request(c, a, n).cmd = c /\ Request(c, a, n).arg = a
                  /\ Request(c, a, n).packets = n
BY DEF None, Request, Cmd, OneWay

\* The fields of a reply.
LEMMA ReplyIs ==
  \A c, v, l, t : /\ Reply(c, v, l, t).cmd = c /\ Reply(c, v, l, t).val = v
                  /\ Reply(c, v, l, t).left = l /\ Reply(c, v, l, t).to = t
BY DEF Reply

\* A call that is over keeps the contents of the queues.
Unowned(r) == [r EXCEPT !.to = NULL]

\* Disowning changes the owner of a queue's reports and nothing else.
LEMMA DisownedQueue ==
  ASSUME NEW S, NEW q \in Seq(S), NEW s, \A r \in S : Unowned(r) \in S
  PROVE  /\ Disown(q, s) \in Seq(S) /\ Len(Disown(q, s)) = Len(q)
         /\ DOMAIN Disown(q, s) = DOMAIN q
         /\ \A i \in DOMAIN q : /\ q[i] \in S
                                /\ Disown(q, s)[i] = IF q[i].to = s THEN Unowned(q[i]) ELSE q[i]
<1>1. Len(q) \in Nat /\ DOMAIN q = 1 .. Len(q) /\ \A i \in DOMAIN q : q[i] \in S
  BY LenProperties, ElementOfSeq
<1>2. Disown(q, s) = [i \in DOMAIN q |-> IF q[i].to = s THEN Unowned(q[i]) ELSE q[i]]
  BY DEF Disown, Unowned
<1>3. Disown(q, s) \in [1 .. Len(q) -> S]
  BY <1>1, <1>2
<1> QED
  BY <1>1, <1>2, <1>3, Queued

\* The same of the device's requests.
LEMMA DisownedPending ==
  ASSUME NEW q \in Seq(Pending), NEW s
  PROVE  /\ Disown(q, s) \in Seq(Pending) /\ Len(Disown(q, s)) = Len(q)
         /\ DOMAIN Disown(q, s) = DOMAIN q
         /\ \A i \in DOMAIN q : Disown(q, s)[i].req = q[i].req
<1>1. \A r \in Pending : Unowned(r) \in Pending /\ Unowned(r).req = r.req
  BY DEF Pending, Owner, Unowned
<1> QED
  BY <1>1, DisownedQueue

\* The same of a handle's reports.
LEMMA DisownedReports ==
  ASSUME NEW q \in Seq(Report), NEW s
  PROVE  /\ Disown(q, s) \in Seq(Report) /\ Len(Disown(q, s)) = Len(q)
         /\ DOMAIN Disown(q, s) = DOMAIN q
         /\ \A i \in DOMAIN q : /\ Disown(q, s)[i].cmd = q[i].cmd
                                /\ Disown(q, s)[i].val = q[i].val
                                /\ Disown(q, s)[i].left = q[i].left
<1>1. \A r \in Report : /\ Unowned(r) \in Report
                        /\ Unowned(r).cmd = r.cmd /\ Unowned(r).val = r.val
                        /\ Unowned(r).left = r.left
  BY DEF Report, Owner, Unowned
<1> QED
  BY <1>1, DisownedQueue

\* What the device sends for a request: that many reports, numbered downwards.
LEMMA PacketsSent ==
  ASSUME NEW r \in Pending, NEW v,
         \/ r.req.cmd \in Cmd \ {"setFormat", "getFormat"} /\ v \in Value
         \/ r.req.cmd = "setFormat" /\ v \in Size \cup {0}
         \/ r.req.cmd = "getFormat" /\ v \in Size
  PROVE  /\ Packets(r, v) \in Seq(Report) /\ Len(Packets(r, v)) = r.req.packets
         /\ r.req.packets \in Nat \ {0} /\ DOMAIN Packets(r, v) = 1 .. r.req.packets
         /\ \A i \in 1 .. r.req.packets :
              Packets(r, v)[i] = Reply(r.req.cmd, v, r.req.packets - i, r.to)
<1> DEFINE n == r.req.packets
<1>1. n \in Nat \ {0} /\ r.req.cmd \in Cmd /\ r.to \in Owner
  BY Values DEF Pending, Asked
<1>2. \A i \in 1 .. n : Reply(r.req.cmd, v, n - i, r.to) \in Report
  <2> SUFFICES ASSUME NEW i \in 1 .. n PROVE Reply(r.req.cmd, v, n - i, r.to) \in Report
    OBVIOUS
  <2>1. n - i \in Nat
    BY <1>1
  <2>2. v \in Value \cup {0} /\ (v = 0 => r.req.cmd = "setFormat")
        /\ (r.req.cmd \in {"setFormat", "getFormat"} => v \in Size \cup {0})
    BY Values
  <2> QED
    BY <1>1, <2>1, <2>2 DEF Reply, Report
<1>3. Packets(r, v) \in [1 .. n -> Report]
  BY <1>2 DEF Packets
<1> QED
  BY <1>1, <1>3, Queued DEF Packets

\* What is sent reaches the open handles.
LEMMA Sent ==
  ASSUME TypeOK, NEW q \in Seq(Report), Sends(q)
  PROVE  /\ inbox' \in [Session -> Seq(Report)]
         /\ \A s \in Session : inbox'[s] = IF handle[s] = "open" THEN inbox[s] \o q ELSE inbox[s]
<1>1. \A s \in Session : inbox[s] \in Seq(Report) /\ inbox[s] \o q \in Seq(Report)
  BY Joined DEF TypeOK
<1> QED
  BY <1>1 DEF Sends

\* The call of s returns.
LEMMA Returned ==
  ASSUME TypeInv, NEW s \in Session, NEW ok \in BOOLEAN, NEW v \in Value \cup {0},
         NEW q \in Seq(Pending), NEW box \in Seq(Report), Return(s, ok, v, q, box),
         attached' \in BOOLEAN, size' \in Size, cached' \in [Session -> Size \cup {0}],
         reset' \in [Session -> ResetState],
         handle' \in [Session -> {"open", "dead", "none"}],
         seen' \in [Session -> SUBSET (Value \cup {0})]
  PROVE  TypeInv'
<1>1. toDevice' \in Seq(Pending) /\ inbox' \in [Session -> Seq(Report)]
  <2>1. \A x \in Session : (IF x = s THEN box ELSE inbox[x]) \in Seq(Report)
    BY DEF TypeInv, TypeOK
  <2> QED
    BY <2>1, DisownedPending, DisownedReports DEF Return
<1>2. \A x \in Session : x # s => /\ pc'[x] = pc[x] /\ op'[x] = op[x] /\ req'[x] = req[x]
                                  /\ got'[x] = got[x]
  BY DEF Return, TypeInv, TypeOK
<1>3. pc'[s] = "idle" /\ op'[s] = None /\ req'[s] = None /\ got'[s] = 0
  BY DEF Return, TypeInv, TypeOK
<1>4. TypeOK'
  BY <1>1 DEF Return, TypeInv, TypeOK
<1>5. CallOK'
  BY <1>2, <1>3 DEF TypeInv, CallOK
<1> QED
  BY <1>4, <1>5 DEF TypeInv

-----------------------------------------------------------------------------
\* A call of s goes on, its queues as given: the other sessions' calls rest.
LEMMA Continued ==
  ASSUME TypeInv, NEW s \in Session,
         attached' \in BOOLEAN, size' \in Size, cached' \in [Session -> Size \cup {0}],
         reset' \in [Session -> ResetState],
         handle' \in [Session -> {"open", "dead", "none"}],
         seen' \in [Session -> SUBSET (Value \cup {0})], res' = res,
         toDevice' \in Seq(Pending), inbox' \in [Session -> Seq(Report)],
         NEW l \in {"open", "write", "reopen", "rewrite", "read"}, pc' = [pc EXCEPT ![s] = l],
         NEW o \in [cmd : Cmd, arg : Value, packets : {0}], op' = [op EXCEPT ![s] = o],
         NEW r \in Asked, req' = [req EXCEPT ![s] = r],
         NEW n \in Nat, got' = [got EXCEPT ![s] = n],
         \/ r.cmd = o.cmd /\ r.arg = o.arg
         \/ o.cmd = "getFrame" /\ r = Request("getFormat", 1, 1),
         r.cmd # "getFrame" => r.packets = 1,
         n < r.packets, n > 0 => l = "read", l = "read" => r.cmd \notin OneWay
  PROVE  TypeInv'
<1>1. TypeOK'
  BY DEF TypeInv, TypeOK
<1>2. \A x \in Session : x # s => /\ pc'[x] = pc[x] /\ op'[x] = op[x] /\ req'[x] = req[x]
                                  /\ got'[x] = got[x]
  BY DEF TypeInv, TypeOK
<1>3. pc'[s] = l /\ op'[s] = o /\ req'[s] = r /\ got'[s] = n
  BY DEF TypeInv, TypeOK
<1>4. o # None
  BY NoneIs
<1>5. CallOK'
  BY <1>2, <1>3, <1>4 DEF TypeInv, CallOK
<1> QED
  BY <1>1, <1>5 DEF TypeInv

\* The state of a call under way.
LEMMA UnderWay ==
  ASSUME TypeInv, NEW s \in Session, pc[s] # "idle"
  PROVE  /\ op[s] \in [cmd : Cmd, arg : Value, packets : {0}] /\ req[s] \in Asked
         /\ \/ req[s].cmd = op[s].cmd /\ req[s].arg = op[s].arg
            \/ op[s].cmd = "getFrame" /\ req[s] = Request("getFormat", 1, 1)
         /\ req[s].cmd # "getFrame" => req[s].packets = 1
         /\ got[s] \in Nat /\ req[s].packets \in Nat \ {0} /\ got[s] < req[s].packets
         /\ pc[s] # "read" => got[s] = 0
         /\ op = [op EXCEPT ![s] = op[s]] /\ req = [req EXCEPT ![s] = req[s]]
         /\ got = [got EXCEPT ![s] = got[s]] /\ pc = [pc EXCEPT ![s] = pc[s]]
<1>1. req[s].packets \in Nat \ {0}
  BY Values DEF TypeInv, CallOK, Asked
<1> QED
  BY <1>1 DEF TypeInv, TypeOK, CallOK

\* It goes on to its next step.
LEMMA Moved ==
  ASSUME TypeInv, NEW s \in Session, pc[s] # "idle", pc[s] # "read",
         attached' \in BOOLEAN, size' \in Size, cached' \in [Session -> Size \cup {0}],
         reset' \in [Session -> ResetState],
         handle' \in [Session -> {"open", "dead", "none"}],
         seen' \in [Session -> SUBSET (Value \cup {0})],
         toDevice' \in Seq(Pending), inbox' \in [Session -> Seq(Report)],
         UNCHANGED <<op, req, got, res>>,
         NEW l \in {"open", "write", "reopen", "rewrite", "read"}, Goto(s, l),
         l = "read" => req[s].cmd \notin OneWay
  PROVE  TypeInv'
<1>1. TypeOK'
  BY DEF TypeInv, TypeOK, Goto
<1>2. \A x \in Session : x # s => pc'[x] = pc[x]
  BY DEF TypeInv, TypeOK, Goto
<1>3. pc'[s] = l
  BY DEF TypeInv, TypeOK, Goto
<1>4. CallOK'
  BY <1>2, <1>3 DEF TypeInv, CallOK
<1> QED
  BY <1>1, <1>4 DEF TypeInv

\* The initial state has its types.
LEMMA TypeInit == Init => TypeInv
<1> SUFFICES ASSUME Init PROVE TypeInv
  OBVIOUS
<1>1. <<>> \in Seq(Pending) /\ <<>> \in Seq(Report)
  OBVIOUS
<1>2. TypeOK
  BY <1>1, Values DEF Init, TypeOK, ResetState
<1>3. CallOK
  BY DEF Init, CallOK
<1> QED
  BY <1>2, <1>3 DEF TypeInv

\* A call starts with the request of its command, or that of the frame format before
\* a getFrame whose context has none.
LEMMA BeginStep ==
  ASSUME TypeInv, NEW s \in Session, Begin(s)
  PROVE  TypeInv'
<1>1. PICK c \in Cmd, a \in Size \cup Frame \cup {1} :
        /\ a \in CASE c = "setFormat" -> Size [] c = "getFrame" -> Frame [] OTHER -> {1}
        /\ op' = [op EXCEPT ![s] = Request(c, a, 0)]
        /\ req' = [req EXCEPT ![s] = FirstRequest(s, c, a)]
        /\ Goto(s, IF handle[s] = "none" THEN "open" ELSE "write")
  BY DEF Begin
<1>2. /\ pc[s] = "idle" /\ seen' = [seen EXCEPT ![s] = {}]
      /\ reset' = IF reset[s] = "returned" THEN [reset EXCEPT ![s] = "sent"] ELSE reset
      /\ UNCHANGED <<usb, toDevice, handle, inbox, cached, got, res>>
  BY DEF Begin
<1> DEFINE o == Request(c, a, 0)
           r == FirstRequest(s, c, a)
<1>3. a \in Value /\ (c = "setFormat" => a \in Size)
  BY <1>1 DEF Value
<1>4. o \in [cmd : Cmd, arg : Value, packets : {0}] /\ o.cmd = c /\ o.arg = a
  BY <1>3 DEF Request
<1>5. /\ r \in Asked /\ r.packets \in Nat \ {0}
      /\ \/ r.cmd = c /\ r.arg = a
         \/ c = "getFrame" /\ r = Request("getFormat", 1, 1)
      /\ r.cmd # "getFrame" => r.packets = 1
  <2>1. ASSUME NEW n \in Size \cup {1}, NEW k \in Cmd, NEW v \in Value,
               k = "setFormat" => v \in Size
        PROVE  /\ Request(k, v, n) \in Asked /\ n \in Nat \ {0}
               /\ Request(k, v, n).cmd = k /\ Request(k, v, n).arg = v
               /\ Request(k, v, n).packets = n
    BY <2>1, Values DEF Request, Asked
  <2>2. CASE c # "getFrame"
    <3>1. r = Request(c, a, 1)
      BY <2>2 DEF FirstRequest
    <3>2. c \in Cmd /\ 1 \in Size \cup {1}
      OBVIOUS
    <3>3. Request(c, a, 1) \in Asked /\ Request(c, a, 1).cmd = c /\ Request(c, a, 1).arg = a
          /\ Request(c, a, 1).packets = 1
      BY <2>1, <3>2, <1>3
    <3> HIDE DEF r
    <3>4. r \in Asked /\ r.cmd = c /\ r.arg = a /\ r.packets = 1
      BY <3>1, <3>3
    <3> QED
      BY <3>4
  <2>3. CASE c = "getFrame" /\ cached[s] = 0
    <3>1. "getFormat" \in Cmd
      BY DEF Cmd
    <3> QED
      BY <2>1, <2>3, <3>1, Values DEF FirstRequest
  <2>4. CASE c = "getFrame" /\ cached[s] # 0
    <3>1. cached[s] \in Size
      BY <2>4 DEF TypeInv, TypeOK
    <3>2. r = Request("getFrame", a, cached[s])
      BY <2>4 DEF FirstRequest
    <3>3. /\ Request(c, a, cached[s]) \in Asked /\ cached[s] \in Nat \ {0}
          /\ Request(c, a, cached[s]).cmd = c /\ Request(c, a, cached[s]).arg = a
          /\ Request(c, a, cached[s]).packets = cached[s]
      BY <2>1, <3>1, <1>3
    <3> HIDE DEF r
    <3>4. r \in Asked /\ r.cmd = c /\ r.arg = a /\ r.packets = cached[s]
      BY <2>4, <3>2, <3>3
    <3> QED
      BY <2>4, <3>3, <3>4
  <2> QED
    BY <2>2, <2>3, <2>4
<1>6. got[s] = 0 /\ got' = [got EXCEPT ![s] = 0]
  BY <1>2 DEF TypeInv, TypeOK, CallOK
<1>7. /\ attached' \in BOOLEAN /\ size' \in Size /\ cached' \in [Session -> Size \cup {0}]
      /\ reset' \in [Session -> ResetState]
      /\ handle' \in [Session -> {"open", "dead", "none"}]
      /\ seen' \in [Session -> SUBSET (Value \cup {0})] /\ res' = res
      /\ toDevice' \in Seq(Pending) /\ inbox' \in [Session -> Seq(Report)]
  BY <1>2 DEF TypeInv, TypeOK, usb, ResetState
<1>8. req' = [req EXCEPT ![s] = r] /\ op' = [op EXCEPT ![s] = o]
  BY <1>1
<1> HIDE DEF o, r
<1>9. ASSUME NEW l \in {"open", "write"}, Goto(s, l) PROVE TypeInv'
  <2>1. /\ pc' = [pc EXCEPT ![s] = l] /\ 0 < r.packets /\ l # "read" /\ 0 \in Nat /\ ~(0 > 0)
        /\ l \in {"open", "write", "reopen", "rewrite", "read"}
    BY <1>5, <1>9 DEF Goto
  <2>2. \/ r.cmd = o.cmd /\ r.arg = o.arg
        \/ o.cmd = "getFrame" /\ r = Request("getFormat", 1, 1)
    BY <1>4, <1>5
  <2> QED
    BY <1>4, <1>5, <1>6, <1>7, <1>8, <2>1, <2>2, Continued
<1> QED
  BY <1>1, <1>9

\* A reconnection replaces handle, queue and frame size, and keeps the request.
LEMMA ReconnectStep ==
  ASSUME TypeInv, NEW s \in Session, Reconnect(s)
  PROVE  TypeInv'
<1>1. /\ pc[s] \in {"open", "reopen"} /\ cached' = [cached EXCEPT ![s] = 0]
      /\ reset' = [reset EXCEPT ![s] = "none"] /\ UNCHANGED <<usb, seen>>
  BY DEF Reconnect
<1>2. /\ attached' \in BOOLEAN /\ size' \in Size /\ cached' \in [Session -> Size \cup {0}]
      /\ reset' \in [Session -> ResetState]
      /\ seen' \in [Session -> SUBSET (Value \cup {0})]
      /\ toDevice \in Seq(Pending) /\ <<>> \in Seq(Report)
  BY <1>1 DEF TypeInv, TypeOK, usb, ResetState
<1>3. CASE /\ attached
           /\ handle' = [handle EXCEPT ![s] = "open"]
           /\ inbox' = [inbox EXCEPT ![s] = <<>>]
           /\ Goto(s, IF pc[s] = "open" THEN "write" ELSE "rewrite")
           /\ UNCHANGED <<toDevice, op, req, got, res>>
  <2>1. handle' \in [Session -> {"open", "dead", "none"}] /\ inbox' \in [Session -> Seq(Report)]
    BY <1>2, <1>3 DEF TypeInv, TypeOK
  <2> DEFINE l == IF pc[s] = "open" THEN "write" ELSE "rewrite"
  <2>2. l \in {"write", "rewrite"} /\ Goto(s, l) /\ pc[s] # "idle" /\ pc[s] # "read"
        /\ toDevice' \in Seq(Pending) /\ UNCHANGED <<op, req, got, res>>
    BY <1>1, <1>2, <1>3
  <2> HIDE DEF l
  <2> QED
    BY <1>2, <2>1, <2>2, Moved
<1>4. CASE handle' = [handle EXCEPT ![s] = "none"] /\ Return(s, FALSE, 0, toDevice, <<>>)
  <2>1. handle' \in [Session -> {"open", "dead", "none"}]
    BY <1>4 DEF TypeInv, TypeOK
  <2> QED
    BY <1>2, <1>4, <2>1, Returned
<1> QED
  BY <1>3, <1>4 DEF Reconnect

\* A request is written behind those the device has.
LEMMA WrittenIs ==
  ASSUME TypeInv, NEW s \in Session, pc[s] # "idle"
  PROVE  /\ Written(s) = Append(toDevice, [req |-> req[s], to |-> s])
         /\ [req |-> req[s], to |-> s] \in Pending
         /\ Written(s) \in Seq(Pending)
         /\ Len(Written(s)) = Len(toDevice) + 1 /\ Len(toDevice) \in Nat
         /\ DOMAIN Written(s) = DOMAIN toDevice \cup {Len(toDevice) + 1}
         /\ \A i \in DOMAIN toDevice : Written(s)[i] = toDevice[i]
         /\ Written(s)[Len(toDevice) + 1] = [req |-> req[s], to |-> s]
         /\ Written(s)[Len(toDevice) + 1].req = req[s]
         /\ Written(s)[Len(toDevice) + 1].to = s
         /\ DOMAIN toDevice = 1 .. Len(toDevice)
<1>1. [req |-> req[s], to |-> s] \in Pending
  BY UnderWay DEF Pending, Owner
<1>2. toDevice \in Seq(Pending)
  BY DEF TypeInv, TypeOK
<1>3. DOMAIN toDevice = 1 .. Len(toDevice)
  BY <1>2, LenProperties
<1> QED
  BY <1>1, <1>2, <1>3, Appended DEF Written

\* A request that is written is queued, and awaited unless it is one-way.
LEMMA WriteOKStep ==
  ASSUME TypeInv, NEW s \in Session, WriteOK(s)
  PROVE  TypeInv'
<1>1. /\ pc[s] \in {"write", "rewrite"} /\ UNCHANGED <<usb, handle, cached, seen>>
      /\ reset' = IF req[s].cmd = "reset" THEN [reset EXCEPT ![s] = "returned"] ELSE reset
  BY DEF WriteOK
<1>2. /\ attached' \in BOOLEAN /\ size' \in Size /\ cached' \in [Session -> Size \cup {0}]
      /\ reset' \in [Session -> ResetState]
      /\ handle' \in [Session -> {"open", "dead", "none"}]
      /\ seen' \in [Session -> SUBSET (Value \cup {0})]
      /\ inbox \in [Session -> Seq(Report)] /\ inbox[s] \in Seq(Report)
  BY <1>1 DEF TypeInv, TypeOK, usb, ResetState
<1>3. CASE req[s].cmd \in OneWay /\ Return(s, TRUE, 1, Written(s), inbox[s])
  BY <1>1, <1>2, <1>3, WrittenIs, Values, Returned
<1>4. CASE /\ req[s].cmd \notin OneWay /\ toDevice' = Written(s) /\ Goto(s, "read")
           /\ UNCHANGED <<inbox, op, req, got, res>>
  BY <1>1, <1>2, <1>4, WrittenIs, Moved
<1> QED
  BY <1>3, <1>4 DEF WriteOK

\* Writing the frame size after a reset touches nothing else.
LEMMA WriteFrameSizeStep ==
  ASSUME TypeInv, NEW s \in Session, WriteFrameSize(s)
  PROVE  TypeInv'
<1>1. /\ cached' = [cached EXCEPT ![s] = DefaultSize] /\ reset' = [reset EXCEPT ![s] = "none"]
      /\ UNCHANGED <<usb, toDevice, handle, inbox, local, seen, res>>
  BY DEF WriteFrameSize
<1>2. cached' \in [Session -> Size \cup {0}] /\ reset' \in [Session -> ResetState]
  BY <1>1, Values DEF TypeInv, TypeOK, ResetState
<1>3. TypeOK'
  BY <1>1, <1>2 DEF TypeInv, TypeOK, usb, local
<1>4. CallOK'
  BY <1>1 DEF TypeInv, CallOK, local
<1> QED
  BY <1>3, <1>4 DEF TypeInv

\* A write that fails may have been queued; it is retried once.
LEMMA WriteErrorStep ==
  ASSUME TypeInv, NEW s \in Session, WriteError(s)
  PROVE  TypeInv'
<1>1. pc[s] \in {"write", "rewrite"} /\ UNCHANGED <<usb, handle, cached, reset, seen>>
  BY DEF WriteError
<1>2. PICK q \in {toDevice} \cup IF Late /\ handle[s] = "open" THEN {Written(s)} ELSE {} :
        IF pc[s] = "rewrite" THEN Return(s, FALSE, 0, q, inbox[s])
        ELSE toDevice' = q /\ Goto(s, "reopen") /\ UNCHANGED <<inbox, op, req, got, res>>
  BY DEF WriteError
<1>3. q \in Seq(Pending)
  BY <1>1, WrittenIs DEF TypeInv, TypeOK
<1>4. /\ attached' \in BOOLEAN /\ size' \in Size /\ cached' \in [Session -> Size \cup {0}]
      /\ reset' \in [Session -> ResetState]
      /\ handle' \in [Session -> {"open", "dead", "none"}]
      /\ seen' \in [Session -> SUBSET (Value \cup {0})]
      /\ inbox \in [Session -> Seq(Report)] /\ inbox[s] \in Seq(Report)
  BY <1>1 DEF TypeInv, TypeOK, usb
<1>5. CASE Return(s, FALSE, 0, q, inbox[s])
  BY <1>3, <1>4, <1>5, Returned
<1>6. CASE toDevice' = q /\ Goto(s, "reopen") /\ UNCHANGED <<inbox, op, req, got, res>>
  BY <1>1, <1>3, <1>4, <1>6, Moved
<1> QED
  BY <1>2, <1>5, <1>6

\* The report a call takes, and the rest.
LEMMA HeadIs ==
  ASSUME TypeOK, NEW s \in Session, inbox[s] # <<>>
  PROVE  /\ inbox[s] \in Seq(Report) /\ Head(inbox[s]) \in Report /\ Head(inbox[s]) = inbox[s][1]
         /\ Tail(inbox[s]) \in Seq(Report)
         /\ DOMAIN inbox[s] = 1 .. Len(inbox[s]) /\ DOMAIN Tail(inbox[s]) = 1 .. Len(Tail(inbox[s]))
         /\ Len(inbox[s]) \in Nat \ {0} /\ Len(Tail(inbox[s])) = Len(inbox[s]) - 1
         /\ \A i \in DOMAIN Tail(inbox[s]) : /\ i + 1 \in DOMAIN inbox[s] /\ i + 1 # 1
                                             /\ Tail(inbox[s])[i] = inbox[s][i + 1]
         /\ [inbox EXCEPT ![s] = Tail(inbox[s])] \in [Session -> Seq(Report)]
<1>1. inbox[s] \in Seq(Report) /\ inbox \in [Session -> Seq(Report)]
  BY DEF TypeOK
<1> QED
  BY <1>1, Taken, LenProperties

\* A packet of a frame is counted, and the last ends the call.
LEMMA PacketStep ==
  ASSUME TypeInv, NEW s \in Session, pc[s] = "read", NEW r \in Report, NEW rest \in Seq(Report),
         inbox' = [inbox EXCEPT ![s] = rest] => inbox' \in [Session -> Seq(Report)],
         UNCHANGED <<usb, handle>>, req[s].cmd = "getFrame", Packet(s, r, rest)
  PROVE  TypeInv'
<1>1. /\ attached' \in BOOLEAN /\ size' \in Size /\ cached' \in [Session -> Size \cup {0}]
      /\ reset' \in [Session -> ResetState]
      /\ handle' \in [Session -> {"open", "dead", "none"}]
      /\ toDevice \in Seq(Pending) /\ r.val \in Value \cup {0} /\ r.left \in Nat
  BY DEF Packet, TypeInv, TypeOK, usb, Report
<1>2. seen' \in [Session -> SUBSET (Value \cup {0})]
  <2>1. seen \in [Session -> SUBSET (Value \cup {0})]
    BY DEF TypeInv, TypeOK
  <2>2. seen[s] \cup {r.val} \in SUBSET (Value \cup {0})
    BY <1>1, <2>1
  <2>3. seen' = seen \/ seen' = [seen EXCEPT ![s] = seen[s] \cup {r.val}]
    BY DEF Packet
  <2> QED
    BY <2>1, <2>2, <2>3
<1>3. CASE \E ok \in BOOLEAN, v \in {0, r.val} : Return(s, ok, v, toDevice, rest)
  BY <1>1, <1>2, <1>3, Returned
<1>4. CASE /\ r.left = req[s].packets - (got[s] + 1) /\ r.left # 0
           /\ got' = [got EXCEPT ![s] = @ + 1]
           /\ inbox' = [inbox EXCEPT ![s] = rest]
           /\ UNCHANGED <<toDevice, pc, op, req, res>>
  <2> DEFINE n == got[s] + 1
  <2>1. got[s] \in Nat /\ req[s].packets \in Nat
    BY UnderWay
  <2>2. n \in Nat /\ n < req[s].packets
    BY <1>1, <1>4, <2>1
  <2>3. /\ got' = [got EXCEPT ![s] = n] /\ req[s].cmd \notin OneWay
        /\ pc' = [pc EXCEPT ![s] = "read"] /\ op' = [op EXCEPT ![s] = op[s]]
        /\ req' = [req EXCEPT ![s] = req[s]] /\ UNCHANGED <<toDevice, res>>
    BY <1>4, UnderWay DEF OneWay
  <2>4. inbox' \in [Session -> Seq(Report)] /\ toDevice' \in Seq(Pending)
    BY <1>1, <1>4
  <2> HIDE DEF n
  <2>5. /\ op[s] \in [cmd : Cmd, arg : Value, packets : {0}] /\ req[s] \in Asked
        /\ \/ req[s].cmd = op[s].cmd /\ req[s].arg = op[s].arg
           \/ op[s].cmd = "getFrame" /\ req[s] = Request("getFormat", 1, 1)
    BY UnderWay
  <2> QED
    BY <1>1, <1>2, <2>2, <2>3, <2>4, <2>5, Continued
<1> QED
  BY <1>3, <1>4 DEF Packet

\* A frame format is stored, and a getFrame goes on to its packets.
LEMMA FormatStep ==
  ASSUME TypeInv, NEW s \in Session, pc[s] = "read", NEW r \in Report, NEW rest \in Seq(Report),
         inbox' = [inbox EXCEPT ![s] = rest] => inbox' \in [Session -> Seq(Report)],
         UNCHANGED <<usb, handle, seen>>, req[s].cmd \in {"setFormat", "getFormat"},
         r.cmd = req[s].cmd, Format(s, r, rest)
  PROVE  TypeInv'
<1>1. r.val \in Size \cup {0} /\ (r.val = 0 => r.cmd = "setFormat") /\ r.val \in Value \cup {0}
  BY DEF Report
<1>2. /\ attached' \in BOOLEAN /\ size' \in Size /\ cached' \in [Session -> Size \cup {0}]
      /\ reset' \in [Session -> ResetState]
      /\ handle' \in [Session -> {"open", "dead", "none"}]
      /\ seen' \in [Session -> SUBSET (Value \cup {0})] /\ toDevice \in Seq(Pending)
  BY <1>1 DEF Format, TypeInv, TypeOK, usb, ResetState
<1>3. CASE op[s].cmd # "getFrame" /\ Return(s, r.val # 0, r.val, toDevice, rest)
  <2>1. (r.val # 0) \in BOOLEAN
    OBVIOUS
  <2> QED
    BY <1>1, <1>2, <1>3, <2>1, Returned
<1>4. CASE /\ op[s].cmd = "getFrame"
           /\ req' = [req EXCEPT ![s] = Request("getFrame", op[s].arg, r.val)]
           /\ Goto(s, "write")
           /\ inbox' = [inbox EXCEPT ![s] = rest]
           /\ UNCHANGED <<toDevice, op, got, res>>
  <2>1. r.val \in Size
    BY <1>1, <1>4, UnderWay, NoneIs
  <2> DEFINE q == Request("getFrame", op[s].arg, r.val)
  <2>2. /\ q \in Asked /\ q.cmd = "getFrame" /\ q.arg = op[s].arg /\ q.packets = r.val
        /\ q.cmd \notin OneWay /\ q.packets \in Nat \ {0}
    BY <2>1, UnderWay, Values DEF Request, Asked, Cmd, OneWay
  <2>3. got[s] = 0
    <3>1. req[s].packets = 1 /\ got[s] \in Nat /\ got[s] < req[s].packets
      BY UnderWay
    <3> QED
      BY <3>1
  <2>4. /\ pc' = [pc EXCEPT ![s] = "write"] /\ op' = [op EXCEPT ![s] = op[s]]
        /\ req' = [req EXCEPT ![s] = q] /\ got' = [got EXCEPT ![s] = 0] /\ 0 \in Nat /\ ~(0 > 0)
    BY <1>4, <2>3, UnderWay DEF Goto
  <2>5. 0 < q.packets
    BY <2>2
  <2>6. /\ inbox' \in [Session -> Seq(Report)] /\ toDevice' \in Seq(Pending)
        /\ op[s] \in [cmd : Cmd, arg : Value, packets : {0}]
        /\ "write" \in {"open", "write", "reopen", "rewrite", "read"} /\ res' = res
    BY <1>2, <1>4, UnderWay
  <2>7. q.cmd = op[s].cmd /\ q.arg = op[s].arg
    BY <1>4, <2>2
  <2> HIDE DEF q
  <2> QED
    BY <1>2, <2>2, <2>4, <2>5, <2>6, <2>7, Continued
<1> QED
  BY <1>3, <1>4 DEF Format

\* The oldest report is read.
LEMMA ReadStep ==
  ASSUME TypeInv, NEW s \in Session, Read(s)
  PROVE  TypeInv'
<1> DEFINE r == Head(inbox[s])
           rest == Tail(inbox[s])
<1>1. pc[s] = "read" /\ handle[s] = "open" /\ inbox[s] # <<>> /\ UNCHANGED <<usb, handle>>
  BY DEF Read
<1>2. /\ r \in Report /\ rest \in Seq(Report)
      /\ inbox' = [inbox EXCEPT ![s] = rest] => inbox' \in [Session -> Seq(Report)]
  BY <1>1, HeadIs DEF TypeInv
<1>3. /\ attached' \in BOOLEAN /\ size' \in Size
      /\ handle' \in [Session -> {"open", "dead", "none"}] /\ toDevice \in Seq(Pending)
      /\ r.val \in Value \cup {0}
  BY <1>1, <1>2 DEF TypeInv, TypeOK, usb, Report
<1>4. CASE /\ \E ok \in BOOLEAN, v \in {0, r.val} : Return(s, ok, v, toDevice, rest)
           /\ UNCHANGED <<cached, reset, seen>>
  <2>1. /\ cached' \in [Session -> Size \cup {0}] /\ reset' \in [Session -> ResetState]
        /\ seen' \in [Session -> SUBSET (Value \cup {0})]
    BY <1>4 DEF TypeInv, TypeOK
  <2> QED
    BY <1>2, <1>3, <1>4, <2>1, Returned
<1>5. CASE req[s].cmd = "getFrame" /\ Packet(s, r, rest)
  BY <1>1, <1>2, <1>5, PacketStep
<1>6. CASE /\ req[s].cmd \in {"setFormat", "getFormat"} /\ r.cmd = CorrectReply(req[s].cmd)
           /\ Format(s, r, rest) /\ UNCHANGED seen
  BY <1>1, <1>2, <1>6, FormatStep DEF CorrectReply
<1> QED
  BY <1>4, <1>5, <1>6 DEF Read

\* A read that gives up ends the call.
LEMMA ReadErrorStep ==
  ASSUME TypeInv, NEW s \in Session, ReadError(s)
  PROVE  TypeInv'
<1>1. Return(s, FALSE, 0, toDevice, inbox[s]) /\ UNCHANGED <<usb, handle, cached, reset, seen>>
  BY DEF ReadError
<1> QED
  BY <1>1, Returned DEF TypeInv, TypeOK, usb

\* The device executes the first of its requests and sends its reports, if any.
LEMMA Executed ==
  ASSUME TypeOK, Execute
  PROVE  \E r, v :
           /\ r \in Pending /\ r = Head(toDevice) /\ r = toDevice[1] /\ toDevice # <<>>
           /\ toDevice' = Tail(toDevice) /\ toDevice' \in Seq(Pending)
           /\ Len(toDevice) \in Nat \ {0} /\ Len(toDevice') = Len(toDevice) - 1
           /\ DOMAIN toDevice = 1 .. Len(toDevice) /\ DOMAIN toDevice' = 1 .. Len(toDevice')
           /\ \A i \in DOMAIN toDevice' : i + 1 \in DOMAIN toDevice /\ toDevice'[i] = toDevice[i + 1]
           /\ \/ /\ r.req.cmd \in OneWay /\ UNCHANGED inbox
                 /\ size' = IF r.req.cmd = "reset" THEN DefaultSize ELSE size
              \/ /\ r.req.cmd = "setFormat" /\ Sends(Packets(r, v))
                 /\ \/ v = r.req.arg /\ size' = v /\ v \in Size
                    \/ v = 0 /\ UNCHANGED size
              \/ r.req.cmd = "getFormat" /\ Sends(Packets(r, v)) /\ v = size /\ UNCHANGED size
              \/ /\ r.req.cmd \in Cmd \ (OneWay \cup {"setFormat", "getFormat"})
                 /\ Sends(Packets(r, v)) /\ v = r.req.arg /\ v \in Value /\ UNCHANGED size
<1> DEFINE r == Head(toDevice)
<1>1. toDevice # <<>> /\ toDevice' = Tail(toDevice) /\ toDevice \in Seq(Pending)
  BY DEF Execute, TypeOK
<1>2. /\ r \in Pending /\ r = toDevice[1] /\ toDevice' \in Seq(Pending)
      /\ Len(toDevice) \in Nat \ {0} /\ Len(toDevice') = Len(toDevice) - 1
      /\ DOMAIN toDevice = 1 .. Len(toDevice) /\ DOMAIN toDevice' = 1 .. Len(toDevice')
      /\ \A i \in DOMAIN toDevice' : i + 1 \in DOMAIN toDevice /\ toDevice'[i] = toDevice[i + 1]
  BY <1>1, Taken, LenProperties
<1>3. /\ r.req.cmd \in Cmd /\ r.req.arg \in Value
      /\ r.req.cmd = "setFormat" => r.req.arg \in Size
  BY <1>2 DEF Pending, Asked
<1>4. \E v : \/ /\ r.req.cmd \in OneWay /\ UNCHANGED inbox
                /\ size' = IF r.req.cmd = "reset" THEN DefaultSize ELSE size
             \/ /\ r.req.cmd = "setFormat" /\ Sends(Packets(r, v))
                /\ \/ v = r.req.arg /\ size' = v /\ v \in Size
                   \/ v = 0 /\ UNCHANGED size
             \/ r.req.cmd = "getFormat" /\ Sends(Packets(r, v)) /\ v = size /\ UNCHANGED size
             \/ /\ r.req.cmd \in Cmd \ (OneWay \cup {"setFormat", "getFormat"})
                /\ Sends(Packets(r, v)) /\ v = r.req.arg /\ v \in Value /\ UNCHANGED size
  <2> HIDE DEF r
  <2> DEFINE P(v) == \/ /\ r.req.cmd \in OneWay /\ UNCHANGED inbox
                        /\ size' = IF r.req.cmd = "reset" THEN DefaultSize ELSE size
                     \/ /\ r.req.cmd = "setFormat" /\ Sends(Packets(r, v))
                        /\ \/ v = r.req.arg /\ size' = v /\ v \in Size
                           \/ v = 0 /\ UNCHANGED size
                     \/ r.req.cmd = "getFormat" /\ Sends(Packets(r, v)) /\ v = size /\ UNCHANGED size
                     \/ /\ r.req.cmd \in Cmd \ (OneWay \cup {"setFormat", "getFormat"})
                        /\ Sends(Packets(r, v)) /\ v = r.req.arg /\ v \in Value /\ UNCHANGED size
  <2>1. P(r.req.arg) \/ P(0) \/ P(size)
    BY <1>3 DEF Execute, r, OneWay
  <2> QED
    BY <2>1
<1> QED
  BY <1>1, <1>2, <1>4

\* The device executes its oldest request and reports to every open handle.
LEMMA ExecuteStep ==
  ASSUME TypeInv, Execute
  PROVE  TypeInv'
<1>1. PICK r, v :
        /\ r \in Pending /\ toDevice' \in Seq(Pending)
        /\ \/ r.req.cmd \in OneWay /\ UNCHANGED inbox /\ size' \in Size
           \/ r.req.cmd = "setFormat" /\ Sends(Packets(r, v)) /\ v \in Size \cup {0} /\ size' \in Size
           \/ r.req.cmd = "getFormat" /\ Sends(Packets(r, v)) /\ v \in Size /\ size' \in Size
           \/ /\ r.req.cmd \in Cmd \ {"setFormat", "getFormat"} /\ Sends(Packets(r, v))
              /\ v \in Value /\ size' \in Size
  BY Executed, Values DEF TypeInv, TypeOK
<1>2. inbox' \in [Session -> Seq(Report)]
  <2>1. CASE UNCHANGED inbox
    BY <2>1 DEF TypeInv, TypeOK
  <2>2. CASE Sends(Packets(r, v)) /\ Packets(r, v) \in Seq(Report)
    BY <2>2, Sent DEF TypeInv
  <2> QED
    BY <1>1, <2>1, <2>2, PacketsSent
<1>3. UNCHANGED <<attached, handle, cached, reset, local, seen, res>> /\ size' \in Size
  BY <1>1 DEF Execute
<1>4. TypeOK'
  BY <1>1, <1>2, <1>3 DEF TypeInv, TypeOK, local
<1>5. CallOK'
  BY <1>3 DEF TypeInv, CallOK, local
<1> QED
  BY <1>4, <1>5 DEF TypeInv

\* A device that leaves makes the handles dead; one that comes may have its default size.
LEMMA BusStep ==
  ASSUME TypeInv, Unplug \/ Plug
  PROVE  TypeInv'
<1>1. UNCHANGED <<cached, reset, local, seen, res>>
  BY DEF Unplug, Plug
<1>2. /\ attached' \in BOOLEAN /\ size' \in Size
      /\ toDevice' \in Seq(Pending) /\ inbox' \in [Session -> Seq(Report)]
      /\ handle' \in [Session -> {"open", "dead", "none"}]
  <2>1. <<>> \in Seq(Pending) /\ <<>> \in Seq(Report)
    OBVIOUS
  <2>2. CASE Unplug
    BY <2>1, <2>2 DEF Unplug, TypeInv, TypeOK
  <2>3. CASE Plug
    BY <2>3, Values DEF Plug, TypeInv, TypeOK
  <2> QED
    BY <2>2, <2>3
<1>3. TypeOK'
  BY <1>1, <1>2 DEF TypeInv, TypeOK, local
<1>4. CallOK'
  BY <1>1 DEF TypeInv, CallOK, local
<1> QED
  BY <1>3, <1>4 DEF TypeInv

\* Every step keeps the types and the calls under way.
LEMMA TypeStep == TypeInv /\ [Next]_vars => TypeInv'
<1> SUFFICES ASSUME TypeInv, [Next]_vars PROVE TypeInv'
  OBVIOUS
<1>1. CASE UNCHANGED vars
  BY <1>1 DEF vars, usb, local, TypeInv, TypeOK, CallOK
<1> QED
  BY <1>1, BeginStep, ReconnectStep, WriteOKStep, WriteFrameSizeStep, WriteErrorStep,
     ReadStep, ReadErrorStep, ExecuteStep, BusStep DEF Next

\* The queues hold requests and reports the two ends understand, and a call under
\* way exchanges its own request or, for a frame, one for the format: whatever
\* the number of sessions, and however late the replies are.
THEOREM ExchangeTypeCorrect == Spec => []TypeOK
<1>1. Spec => []TypeInv
  BY TypeInit, TypeStep, PTL DEF Spec
<1>2. TypeInv => TypeOK
  BY DEF TypeInv
<1> QED
  BY <1>1, <1>2, PTL

-----------------------------------------------------------------------------
(* Frames are never torn, with any number of sessions and late replies.     *)

\* A queue of reports is made of batches that end, and only lost at the front:
\* a packet that others follow is followed by the next one of its frame.
Whole(q) ==
  \A i \in DOMAIN q : q[i].left # 0 =>
    i + 1 \in DOMAIN q /\ q[i + 1].left = q[i].left - 1 /\ q[i + 1].val = q[i].val

\* A getFrame that has taken a packet finds the next one of that frame, with the
\* count it expects, at the head of its queue.
FramesOK ==
  \A s \in Session :
    /\ Whole(inbox[s])
    /\ \E v : seen[s] \subseteq {v}
    /\ pc[s] # "idle" /\ got[s] = 0 => seen[s] = {}
    /\ got[s] > 0 /\ handle[s] = "open" =>
         /\ inbox[s] # <<>> /\ seen[s] = {inbox[s][1].val}
         /\ inbox[s][1].left = req[s].packets - (got[s] + 1)

FrameInv == TypeInv /\ FramesOK

\* An empty queue tears no frame.
LEMMA WholeEmpty == Whole(<<>>)
BY DEF Whole

\* Neither does what is left when the oldest report is taken.
LEMMA WholeTail ==
  ASSUME NEW q \in Seq(Report), q # <<>>, Whole(q)
  PROVE  Whole(Tail(q))
<1>1. /\ Len(q) \in Nat \ {0} /\ Len(Tail(q)) = Len(q) - 1
      /\ DOMAIN q = 1 .. Len(q) /\ DOMAIN Tail(q) = 1 .. Len(Tail(q))
      /\ \A i \in DOMAIN Tail(q) : i + 1 \in DOMAIN q /\ Tail(q)[i] = q[i + 1]
  BY Taken, LenProperties
<1>2. SUFFICES ASSUME NEW i \in DOMAIN Tail(q), Tail(q)[i].left # 0
               PROVE  /\ i + 1 \in DOMAIN Tail(q)
                      /\ Tail(q)[i + 1].left = Tail(q)[i].left - 1
                      /\ Tail(q)[i + 1].val = Tail(q)[i].val
  BY DEF Whole
<1>3. /\ (i + 1) + 1 \in DOMAIN q /\ q[(i + 1) + 1].left = q[i + 1].left - 1
      /\ q[(i + 1) + 1].val = q[i + 1].val
  BY <1>1, <1>2 DEF Whole
<1>4. i + 1 \in DOMAIN Tail(q)
  BY <1>1, <1>2, <1>3
<1> QED
  BY <1>1, <1>2, <1>3, <1>4

\* Whole answers behind whole answers are whole.
LEMMA WholeJoined ==
  ASSUME NEW p \in Seq(Report), NEW q \in Seq(Report), Whole(p), Whole(q)
  PROVE  Whole(p \o q)
<1>1. /\ Len(p) \in Nat /\ Len(q) \in Nat /\ Len(p \o q) = Len(p) + Len(q)
      /\ DOMAIN p = 1 .. Len(p) /\ DOMAIN q = 1 .. Len(q) /\ DOMAIN (p \o q) = 1 .. Len(p \o q)
      /\ \A i \in DOMAIN p : (p \o q)[i] = p[i]
      /\ \A i \in DOMAIN q : (p \o q)[Len(p) + i] = q[i]
  BY Joined
<1> DEFINE r == p \o q
           n == Len(p)
<1>2. SUFFICES ASSUME NEW i \in DOMAIN r, r[i].left # 0
               PROVE  /\ i + 1 \in DOMAIN r /\ r[i + 1].left = r[i].left - 1
                      /\ r[i + 1].val = r[i].val
  BY DEF Whole
<1>3. CASE i \in DOMAIN p
  <2>1. i + 1 \in DOMAIN p /\ p[i + 1].left = p[i].left - 1 /\ p[i + 1].val = p[i].val
    BY <1>1, <1>2, <1>3 DEF Whole
  <2> QED
    BY <1>1, <1>2, <1>3, <2>1
<1>4. CASE i \notin DOMAIN p
  <2>1. i - n \in DOMAIN q /\ i = n + (i - n)
    BY <1>1, <1>2, <1>4
  <2> DEFINE j == i - n
  <2>2. j + 1 \in DOMAIN q /\ q[j + 1].left = q[j].left - 1 /\ q[j + 1].val = q[j].val
    BY <1>1, <1>2, <2>1 DEF Whole
  <2>3. i + 1 = n + (j + 1) /\ i + 1 \in DOMAIN r
    BY <1>1, <1>2, <2>1, <2>2
  <2>4. r[i] = q[j] /\ r[i + 1] = q[j + 1]
    BY <1>1, <2>1, <2>2, <2>3
  <2> QED
    BY <2>2, <2>3, <2>4
<1> QED
  BY <1>3, <1>4

\* Disowning changes no packet.
LEMMA WholeDisowned ==
  ASSUME NEW q \in Seq(Report), NEW s, Whole(q)
  PROVE  Whole(Disown(q, s))
<1>1. /\ DOMAIN Disown(q, s) = DOMAIN q
      /\ \A i \in DOMAIN q : Disown(q, s)[i].left = q[i].left /\ Disown(q, s)[i].val = q[i].val
  BY DisownedReports
<1> QED
  BY <1>1 DEF Whole

\* The packets of one answer are of one frame, numbered down to 0.
LEMMA WholePackets ==
  ASSUME NEW r \in Pending, NEW v, r.req.packets \in Nat \ {0},
         DOMAIN Packets(r, v) = 1 .. r.req.packets,
         \A i \in 1 .. r.req.packets :
           Packets(r, v)[i] = Reply(r.req.cmd, v, r.req.packets - i, r.to)
  PROVE  Whole(Packets(r, v))
<1> DEFINE n == r.req.packets
           q == Packets(r, v)
<1>1. \A i \in 1 .. n : q[i] = Reply(r.req.cmd, v, n - i, r.to)
  OBVIOUS
<1>3. n \in Nat \ {0} /\ DOMAIN q = 1 .. n
  OBVIOUS
<1> HIDE DEF n, q
<1>2. \A i \in 1 .. n : q[i].left = n - i /\ q[i].val = v
  BY <1>1, ReplyIs
<1>4. Whole(q)
  BY <1>2, <1>3 DEF Whole
<1> QED
  BY <1>4 DEF q

\* A call that returns leaves frames whole, and what it has seen is of one.
LEMMA ReturnKeepsFrames ==
  ASSUME FrameInv, NEW s \in Session, NEW ok, NEW v, NEW q,
         NEW box \in Seq(Report), Whole(box), Return(s, ok, v, q, box),
         \A x \in Session : x # s => seen'[x] = seen[x] /\ handle'[x] = handle[x],
         \E w : seen'[s] \subseteq {w}
  PROVE  FramesOK'
<1> SUFFICES ASSUME NEW x \in Session
             PROVE  /\ Whole(inbox'[x])
                    /\ \E w : seen'[x] \subseteq {w}
                    /\ pc'[x] # "idle" /\ got'[x] = 0 => seen'[x] = {}
                    /\ got'[x] > 0 /\ handle'[x] = "open" =>
                         /\ inbox'[x] # <<>> /\ seen'[x] = {inbox'[x][1].val}
                         /\ inbox'[x][1].left = req'[x].packets - (got'[x] + 1)
  BY DEF FramesOK
<1>1. CASE x = s
  <2>1. pc'[s] = "idle" /\ got'[s] = 0 /\ inbox'[s] = Disown(box, s)
    BY DEF Return, FrameInv, TypeInv, TypeOK
  <2>2. Whole(inbox'[s])
    BY <2>1, WholeDisowned
  <2>3. ~(got'[s] > 0)
    BY <2>1
  <2> QED
    BY <1>1, <2>1, <2>2, <2>3
<1>2. CASE x # s
  <2>1. /\ pc'[x] = pc[x] /\ got'[x] = got[x] /\ req'[x] = req[x]
        /\ inbox'[x] = Disown(inbox[x], s)
    <3>1. /\ pc \in [Session -> {"idle", "open", "write", "reopen", "rewrite", "read"}]
          /\ got \in [Session -> Nat] /\ req \in [Session -> Asked \cup {None}]
      BY DEF FrameInv, TypeInv, TypeOK
    <3>2. /\ pc' = [pc EXCEPT ![s] = "idle"] /\ got' = [got EXCEPT ![s] = 0]
          /\ req' = [req EXCEPT ![s] = None]
          /\ inbox' = [y \in Session |-> Disown(IF y = s THEN box ELSE inbox[y], s)]
      BY DEF Return
    <3> QED
      BY <1>2, <3>1, <3>2
  <2>2. inbox[x] \in Seq(Report) /\ Whole(inbox[x])
    BY DEF FrameInv, TypeInv, TypeOK, FramesOK
  <2>3. /\ DOMAIN inbox'[x] = DOMAIN inbox[x]
        /\ \A i \in DOMAIN inbox[x] : /\ inbox'[x][i].val = inbox[x][i].val
                                      /\ inbox'[x][i].left = inbox[x][i].left
    BY <2>1, <2>2, DisownedReports
  <2>4. inbox[x] # <<>> => 1 \in DOMAIN inbox[x] /\ inbox'[x] # <<>>
    BY <2>1, <2>2, DisownedReports, Taken, EmptySeq, LenProperties
  <2>5. seen'[x] = seen[x] /\ handle'[x] = handle[x]
    BY <1>2
  <2>6. Whole(inbox'[x])
    BY <2>1, <2>2, WholeDisowned
  <2>7. /\ \E w : seen[x] \subseteq {w}
        /\ pc[x] # "idle" /\ got[x] = 0 => seen[x] = {}
        /\ got[x] > 0 /\ handle[x] = "open" =>
             /\ inbox[x] # <<>> /\ seen[x] = {inbox[x][1].val}
             /\ inbox[x][1].left = req[x].packets - (got[x] + 1)
    BY DEF FrameInv, FramesOK
  <2> QED
    BY <2>1, <2>3, <2>4, <2>5, <2>6, <2>7
<1> QED
  BY <1>1, <1>2

\* A step that takes nothing out of a queue but all of it.
LEMMA FramesRest ==
  ASSUME FrameInv,
         \A s \in Session :
           /\ inbox'[s] \in {inbox[s], <<>>}
           /\ \/ /\ got'[s] = got[s] /\ req'[s] = req[s] /\ seen'[s] = seen[s]
                 /\ pc[s] = "idle" => pc'[s] = "idle"
              \/ got'[s] = 0 /\ seen'[s] = {}
           /\ \/ got'[s] = 0
              \/ inbox'[s] = inbox[s] /\ (handle'[s] = "open" => handle[s] = "open")
              \/ handle'[s] # "open"
  PROVE  FramesOK'
<1> SUFFICES ASSUME NEW s \in Session
             PROVE  /\ Whole(inbox'[s])
                    /\ \E w : seen'[s] \subseteq {w}
                    /\ pc'[s] # "idle" /\ got'[s] = 0 => seen'[s] = {}
                    /\ got'[s] > 0 /\ handle'[s] = "open" =>
                         /\ inbox'[s] # <<>> /\ seen'[s] = {inbox'[s][1].val}
                         /\ inbox'[s][1].left = req'[s].packets - (got'[s] + 1)
  BY DEF FramesOK
<1>1. Whole(inbox'[s])
  BY WholeEmpty DEF FrameInv, FramesOK
<1>2. CASE got'[s] = 0 /\ seen'[s] = {}
  BY <1>1, <1>2
<1>3. CASE /\ got'[s] = got[s] /\ req'[s] = req[s] /\ seen'[s] = seen[s]
           /\ pc[s] = "idle" => pc'[s] = "idle"
  <2>1. /\ \E w : seen'[s] \subseteq {w}
        /\ pc'[s] # "idle" /\ got'[s] = 0 => seen'[s] = {}
    BY <1>3 DEF FrameInv, FramesOK
  <2>2. ASSUME got'[s] > 0, handle'[s] = "open"
        PROVE  /\ inbox'[s] # <<>> /\ seen'[s] = {inbox'[s][1].val}
               /\ inbox'[s][1].left = req'[s].packets - (got'[s] + 1)
    <3>1. inbox'[s] = inbox[s] /\ handle[s] = "open"
      BY <2>2
    <3> QED
      BY <1>3, <2>2, <3>1 DEF FrameInv, FramesOK
  <2> QED
    BY <1>1, <2>1, <2>2
<1> QED
  BY <1>2, <1>3

\* A call starts with no packet seen.
LEMMA BeginFrames ==
  ASSUME FrameInv, NEW s \in Session, Begin(s)
  PROVE  FramesOK'
<1>1. /\ pc[s] = "idle" /\ seen' = [seen EXCEPT ![s] = {}]
      /\ UNCHANGED <<handle, inbox, got>>
  BY DEF Begin
<1>2. /\ \A x \in Session : x # s => pc'[x] = pc[x] /\ req'[x] = req[x]
      /\ \A x \in Session : x # s => seen'[x] = seen[x]
      /\ seen'[s] = {} /\ got'[s] = 0
  BY <1>1 DEF Begin, Goto, FrameInv, TypeInv, TypeOK, CallOK
<1> QED
  BY <1>1, <1>2, FramesRest

\* A new handle has an empty queue.
LEMMA ReconnectFrames ==
  ASSUME FrameInv, NEW s \in Session, Reconnect(s)
  PROVE  FramesOK'
<1>1. pc[s] \in {"open", "reopen"} /\ UNCHANGED seen
  BY DEF Reconnect
<1>2. CASE /\ handle' = [handle EXCEPT ![s] = "open"]
           /\ inbox' = [inbox EXCEPT ![s] = <<>>]
           /\ Goto(s, IF pc[s] = "open" THEN "write" ELSE "rewrite")
           /\ UNCHANGED <<toDevice, op, req, got, res>>
  <2>1. got'[s] = 0 /\ seen'[s] = {} /\ inbox'[s] = <<>>
    BY <1>1, <1>2, UnderWay DEF FrameInv, FramesOK, TypeInv, TypeOK
  <2>2. \A x \in Session : x # s => /\ pc'[x] = pc[x] /\ inbox'[x] = inbox[x]
                                    /\ handle'[x] = handle[x]
    BY <1>2 DEF Goto, FrameInv, TypeInv, TypeOK
  <2> QED
    BY <1>1, <1>2, <2>1, <2>2, FramesRest
<1>3. CASE handle' = [handle EXCEPT ![s] = "none"] /\ Return(s, FALSE, 0, toDevice, <<>>)
  <2>1. <<>> \in Seq(Report) /\ \E w : seen'[s] \subseteq {w}
    BY <1>1 DEF FrameInv, FramesOK
  <2>2. \A x \in Session : x # s => seen'[x] = seen[x] /\ handle'[x] = handle[x]
    BY <1>1, <1>3 DEF FrameInv, TypeInv, TypeOK
  <2> QED
    BY <1>3, <2>1, <2>2, WholeEmpty, ReturnKeepsFrames
<1> QED
  BY <1>2, <1>3 DEF Reconnect

\* A call that returns and takes no report leaves the queues whole.
LEMMA ReturnWhole ==
  ASSUME FrameInv, NEW s \in Session, NEW ok, NEW v, NEW q, Return(s, ok, v, q, inbox[s]),
         UNCHANGED <<seen, handle>>
  PROVE  FramesOK'
<1>1. inbox[s] \in Seq(Report) /\ Whole(inbox[s]) /\ \E w : seen'[s] \subseteq {w}
  BY DEF FrameInv, FramesOK, TypeInv, TypeOK
<1> QED
  BY <1>1, ReturnKeepsFrames

\* Writing touches no packet.
LEMMA WriteFrames ==
  ASSUME FrameInv, NEW s \in Session, WriteOK(s) \/ WriteError(s)
  PROVE  FramesOK'
<1>1. UNCHANGED <<handle, seen>> /\ pc[s] \in {"write", "rewrite"}
  BY DEF WriteOK, WriteError
<1>2. CASE \E ok, v, q : Return(s, ok, v, q, inbox[s])
  BY <1>1, <1>2, ReturnWhole
<1>3. CASE UNCHANGED <<inbox, op, req, got, res>> /\ \E l \in {"read", "reopen"} : Goto(s, l)
  <2>1. \A x \in Session : pc[x] = "idle" => pc'[x] = "idle"
    BY <1>1, <1>3 DEF Goto, FrameInv, TypeInv, TypeOK
  <2> QED
    BY <1>1, <1>3, <2>1, FramesRest
<1> QED
  BY <1>2, <1>3 DEF WriteOK, WriteError

\* Nor does writing the frame size after a reset.
LEMMA WriteFrameSizeFrames ==
  ASSUME FrameInv, NEW s \in Session, WriteFrameSize(s)
  PROVE  FramesOK'
<1>1. UNCHANGED <<handle, inbox, pc, req, got, seen>>
  BY DEF WriteFrameSize, local
<1> QED
  BY <1>1, FramesRest

\* A read that gives up takes no packet.
LEMMA ReadErrorFrames ==
  ASSUME FrameInv, NEW s \in Session, ReadError(s)
  PROVE  FramesOK'
BY ReturnWhole DEF ReadError

\* A packet is taken: it is of the frame of the packets before it.
LEMMA ReadFrames ==
  ASSUME FrameInv, NEW s \in Session, Read(s)
  PROVE  FramesOK'
<1> DEFINE r == Head(inbox[s])
           rest == Tail(inbox[s])
<1>1. pc[s] = "read" /\ handle[s] = "open" /\ inbox[s] # <<>> /\ UNCHANGED handle
  BY DEF Read
<1>2. /\ r \in Report /\ r = inbox[s][1] /\ rest \in Seq(Report) /\ Whole(rest)
      /\ r.left \in Nat /\ 1 \in DOMAIN inbox[s]
      /\ DOMAIN rest = 1 .. Len(rest) /\ Len(rest) = Len(inbox[s]) - 1
      /\ DOMAIN inbox[s] = 1 .. Len(inbox[s]) /\ Len(inbox[s]) \in Nat
      /\ \A i \in DOMAIN rest : rest[i] = inbox[s][i + 1]
  <2>1. inbox[s] \in Seq(Report) /\ Whole(inbox[s])
    BY DEF FrameInv, FramesOK, TypeInv, TypeOK
  <2> QED
    BY <1>1, <2>1, WholeTail, HeadIs DEF FrameInv, TypeInv, Report
<1> HIDE DEF r, rest
<1>3. \/ seen[s] = {}
      \/ seen[s] = {r.val}
  <2>1. got[s] \in Nat
    BY DEF FrameInv, TypeInv, TypeOK
  <2>2. got[s] = 0 \/ got[s] > 0
    BY <2>1
  <2> QED
    BY <1>1, <1>2, <2>2 DEF FrameInv, FramesOK
<1>4. CASE /\ \E ok, v : Return(s, ok, v, toDevice, rest)
           /\ seen' = seen \/ seen' = [seen EXCEPT ![s] = seen[s] \cup {r.val}]
  <2>1. \A x \in Session : x # s => seen'[x] = seen[x] /\ handle'[x] = handle[x]
    BY <1>1, <1>4 DEF FrameInv, TypeInv, TypeOK
  <2>2. seen'[s] \subseteq {r.val}
    BY <1>3, <1>4 DEF FrameInv, TypeInv, TypeOK
  <2> QED
    BY <1>2, <1>4, <2>1, <2>2, ReturnKeepsFrames
<1>5. CASE /\ r.left = req[s].packets - (got[s] + 1) /\ r.left # 0
           /\ seen' = [seen EXCEPT ![s] = @ \cup {r.val}]
           /\ got' = [got EXCEPT ![s] = @ + 1]
           /\ inbox' = [inbox EXCEPT ![s] = rest]
           /\ UNCHANGED <<toDevice, pc, op, req, res>>
  <2>1. /\ 1 \in DOMAIN rest /\ rest # <<>>
        /\ rest[1].left = r.left - 1 /\ rest[1].val = r.val
    <3>1. 1 + 1 \in DOMAIN inbox[s] /\ inbox[s][1 + 1].left = r.left - 1
          /\ inbox[s][1 + 1].val = r.val
      BY <1>2, <1>5 DEF FrameInv, FramesOK, Whole
    <3>2. 1 \in DOMAIN rest
      BY <1>2, <3>1
    <3>3. rest # <<>>
      BY <1>2, <3>2, EmptySeq
    <3>4. rest[1] = inbox[s][1 + 1]
      BY <1>2, <3>2
    <3> QED
      BY <3>1, <3>2, <3>3, <3>4
  <2>2. seen'[s] = {r.val}
    BY <1>3, <1>5 DEF FrameInv, TypeInv, TypeOK
  <2>3. got[s] \in Nat /\ got'[s] = got[s] + 1 /\ req[s].packets \in Nat /\ inbox'[s] = rest
    BY <1>1, <1>5, UnderWay DEF FrameInv, TypeInv, TypeOK
  <2>4. rest[1].left = req[s].packets - (got'[s] + 1) /\ got'[s] > 0 /\ got'[s] # 0
    BY <1>2, <1>5, <2>1, <2>3
  <2>5. \A x \in Session : x # s => /\ seen'[x] = seen[x] /\ got'[x] = got[x]
                                    /\ inbox'[x] = inbox[x]
    BY <1>5 DEF FrameInv, TypeInv, TypeOK
  <2>6. UNCHANGED <<pc, req, handle>>
    BY <1>1, <1>5
  <2>7. ASSUME NEW x \in Session
        PROVE  /\ Whole(inbox'[x])
               /\ \E w : seen'[x] \subseteq {w}
               /\ pc'[x] # "idle" /\ got'[x] = 0 => seen'[x] = {}
               /\ got'[x] > 0 /\ handle'[x] = "open" =>
                    /\ inbox'[x] # <<>> /\ seen'[x] = {inbox'[x][1].val}
                    /\ inbox'[x][1].left = req'[x].packets - (got'[x] + 1)
    <3>1. CASE x = s
      BY <1>2, <2>1, <2>2, <2>3, <2>4, <2>6, <3>1
    <3>2. CASE x # s
      BY <2>5, <2>6, <3>2 DEF FrameInv, FramesOK
    <3> QED
      BY <3>1, <3>2
  <2> QED
    BY <2>7 DEF FramesOK
<1>6. CASE /\ req[s].cmd \in {"setFormat", "getFormat"}
           /\ seen' = seen /\ got' = got
           /\ req' = [req EXCEPT ![s] = Request("getFrame", op[s].arg, r.val)]
           /\ Goto(s, "write")
           /\ inbox' = [inbox EXCEPT ![s] = rest]
  <2>1. req[s].packets = 1 /\ got[s] \in Nat /\ got[s] < req[s].packets
    BY <1>1, <1>6, UnderWay DEF FrameInv
  <2>5. got[s] = 0
    BY <2>1
  <2>2. got'[s] = 0 /\ seen'[s] = {} /\ inbox'[s] = rest
    BY <1>1, <1>6, <2>5 DEF FrameInv, FramesOK, TypeInv, TypeOK
  <2>3. \A x \in Session : x # s => /\ pc'[x] = pc[x] /\ req'[x] = req[x]
                                    /\ inbox'[x] = inbox[x]
    BY <1>6 DEF Goto, FrameInv, TypeInv, TypeOK
  <2>4. ASSUME NEW x \in Session
        PROVE  /\ Whole(inbox'[x])
               /\ \E w : seen'[x] \subseteq {w}
               /\ pc'[x] # "idle" /\ got'[x] = 0 => seen'[x] = {}
               /\ got'[x] > 0 /\ handle'[x] = "open" =>
                    /\ inbox'[x] # <<>> /\ seen'[x] = {inbox'[x][1].val}
                    /\ inbox'[x][1].left = req'[x].packets - (got'[x] + 1)
    <3>1. CASE x = s
      BY <1>2, <2>2, <3>1
    <3>2. CASE x # s
      BY <1>1, <1>6, <2>3, <3>2 DEF FrameInv, FramesOK
    <3> QED
      BY <3>1, <3>2
  <2> QED
    BY <2>4 DEF FramesOK
<1> QED
  <2>1. CASE /\ \E ok, v : Return(s, ok, v, toDevice, rest)
             /\ UNCHANGED seen
    BY <1>4, <2>1
  <2>2. CASE req[s].cmd = "getFrame" /\ Packet(s, r, rest)
    <3>1. \/ /\ \E ok, v : Return(s, ok, v, toDevice, rest)
             /\ seen' = seen \/ seen' = [seen EXCEPT ![s] = seen[s] \cup {r.val}]
          \/ /\ r.left = req[s].packets - (got[s] + 1) /\ r.left # 0
             /\ seen' = [seen EXCEPT ![s] = @ \cup {r.val}]
             /\ got' = [got EXCEPT ![s] = @ + 1]
             /\ inbox' = [inbox EXCEPT ![s] = rest]
             /\ UNCHANGED <<toDevice, pc, op, req, res>>
      BY <2>2 DEF Packet
    <3> QED
      BY <1>4, <1>5, <3>1
  <2>3. CASE req[s].cmd \in {"setFormat", "getFormat"} /\ Format(s, r, rest) /\ UNCHANGED seen
    BY <1>4, <1>6, <2>3 DEF Format
  <2> QED
    BY <2>1, <2>2, <2>3 DEF Read, r, rest

\* The device sends whole batches.
LEMMA ExecuteFrames ==
  ASSUME FrameInv, Execute
  PROVE  FramesOK'
<1>1. PICK r, v :
        /\ r \in Pending
        /\ \/ UNCHANGED inbox
           \/ /\ Sends(Packets(r, v))
              /\ \/ r.req.cmd \in Cmd \ {"setFormat", "getFormat"} /\ v \in Value
                 \/ r.req.cmd = "setFormat" /\ v \in Size \cup {0}
                 \/ r.req.cmd = "getFormat" /\ v \in Size
  BY Executed DEF FrameInv, TypeInv, TypeOK
<1>2. UNCHANGED <<handle, pc, req, got, seen>>
  BY DEF Execute, local
<1>3. CASE UNCHANGED inbox
  BY <1>2, <1>3, FramesRest
<1>4. CASE Sends(Packets(r, v)) /\ inbox' # inbox
  <2> DEFINE q == Packets(r, v)
  <2>1. q \in Seq(Report) /\ Whole(q)
    BY <1>1, <1>4, PacketsSent, WholePackets
  <2>2. \A s \in Session : inbox'[s] = IF handle[s] = "open" THEN inbox[s] \o q ELSE inbox[s]
    BY <1>4, <2>1, Sent DEF FrameInv, TypeInv
  <2> HIDE DEF q
  <2>3. ASSUME NEW s \in Session
        PROVE  /\ Whole(inbox'[s])
               /\ \E w : seen'[s] \subseteq {w}
               /\ pc'[s] # "idle" /\ got'[s] = 0 => seen'[s] = {}
               /\ got'[s] > 0 /\ handle'[s] = "open" =>
                    /\ inbox'[s] # <<>> /\ seen'[s] = {inbox'[s][1].val}
                    /\ inbox'[s][1].left = req'[s].packets - (got'[s] + 1)
    <3>1. inbox[s] \in Seq(Report) /\ Whole(inbox[s])
      BY DEF FrameInv, FramesOK, TypeInv, TypeOK
    <3>2. Whole(inbox'[s])
      BY <2>1, <2>2, <3>1, WholeJoined
    <3>3. inbox[s] # <<>> => inbox'[s] # <<>> /\ inbox'[s][1] = inbox[s][1]
      <4>1. inbox[s] # <<>> => 1 \in DOMAIN inbox[s] /\ Len(inbox[s]) # 0
        BY <3>1, Taken
      <4>2. inbox[s] # <<>> => (inbox[s] \o q)[1] = inbox[s][1] /\ inbox[s] \o q # <<>>
        BY <2>1, <3>1, <4>1, Joined
      <4> QED
        BY <2>2, <4>2
    <3> QED
      BY <1>2, <3>2, <3>3 DEF FrameInv, FramesOK
  <2> QED
    BY <2>3 DEF FramesOK
<1> QED
  BY <1>1, <1>3, <1>4

\* A device that leaves takes all packets along, and its handles are dead.
LEMMA BusFrames ==
  ASSUME FrameInv, Unplug \/ Plug
  PROVE  FramesOK'
<1>1. UNCHANGED <<seen, pc, req, got>>
  BY DEF Unplug, Plug, local
<1>2. CASE Unplug
  <2>1. \A s \in Session : inbox'[s] = <<>> /\ handle'[s] # "open"
    BY <1>2 DEF Unplug, FrameInv, TypeInv, TypeOK
  <2> QED
    BY <1>1, <2>1, FramesRest
<1>3. CASE Plug
  BY <1>1, <1>3, FramesRest DEF Plug
<1> QED
  BY <1>2, <1>3

\* No frame is under way at first.
LEMMA FramesInit == Init => FrameInv
<1>1. Init => FramesOK
  BY WholeEmpty DEF Init, FramesOK
<1> QED
  BY <1>1, TypeInit DEF FrameInv

\* Every step keeps frames whole.
LEMMA FrameStep == FrameInv /\ [Next]_vars => FrameInv'
<1> SUFFICES ASSUME FrameInv, [Next]_vars PROVE FrameInv'
  OBVIOUS
<1>1. TypeInv'
  BY TypeStep DEF FrameInv
<1>2. FramesOK'
  <2>1. CASE UNCHANGED vars
    BY <2>1, FramesRest DEF vars, usb, local
  <2> QED
    BY <2>1, BeginFrames, ReconnectFrames, WriteFrames, WriteFrameSizeFrames, ReadFrames,
       ReadErrorFrames, ExecuteFrames, BusFrames DEF Next
<1> QED
  BY <1>1, <1>2 DEF FrameInv

\* libspectrometer.c:704 to 719: a getFrame never puts packets of two frames into
\* one, though packets carry neither a frame number nor the request they answer
\* and the queue may hold what earlier calls left: for all frame sizes, with any
\* number of sessions on the device and replies of any age.
THEOREM FramesWhole == Spec => []FrameNotTorn
<1>1. FrameInv => FrameNotTorn
  <2> SUFFICES ASSUME FrameInv, NEW s \in Session PROVE Cardinality(seen[s]) <= 1
    BY DEF FrameNotTorn
  <2>1. PICK v : seen[s] \subseteq {v}
    BY DEF FrameInv, FramesOK
  <2>2. seen[s] = {} \/ seen[s] = {v}
    BY <2>1
  <2> QED
    <3>1. Cardinality({}) = 0 /\ Cardinality({v}) = 1
      BY FS_EmptySet, FS_Singleton
    <3>2. Cardinality(seen[s]) \in {0, 1}
      BY <2>2, <3>1
    <3> QED
      BY <3>2
<1>2. Spec => []FrameInv
  BY FramesInit, FrameStep, PTL DEF Spec
<1> QED
  BY <1>1, <1>2, PTL
=============================================================================
