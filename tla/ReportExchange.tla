--------------------------- MODULE ReportExchange ---------------------------
(***************************************************************************)
(* Requests and replies between the sessions of libspectrometer and one    *)
(* spectrometer.                                                           *)
(*                                                                         *)
(* A request is one output report, a reply one or more input reports.      *)
(* hidapi keeps a queue of input reports for every open handle, and the    *)
(* device's reports go to all of them.  A reply carries its command but    *)
(* nothing that says which request it answers: the library takes the next  *)
(* report for the reply to its own request, and no call empties the queue. *)
(* How a session's context and handle are replaced is DeviceContext's.     *)
(***************************************************************************)
EXTENDS Naturals, Sequences, FiniteSets

CONSTANTS
  Session,      \* the contexts connected to the device, each used by a thread
  Size,         \* the frame sizes, in packets (numOfPixelsInFrame / 30)
  DefaultSize,  \* the frame size of a device that was reset
  Frame,        \* the frame numbers, from 1: value 0 is a device's refusal
  Late,         \* a reply may come after the timeout of its call, and a write
                \* that hid_write reports as failed may reach the device
  MaxQueue,     \* bounds the reports on their way to and from the device
  NULL

ASSUME ExchangeAssumption ==
  /\ Size \subseteq Nat \ {0} /\ DefaultSize \in Size
  /\ Frame \subseteq Nat \ {0}
  /\ Late \in BOOLEAN
  /\ MaxQueue \in Nat
  /\ NULL \notin Session

VARIABLES
  attached,  \* the device is on the bus
  size,      \* its frame size
  toDevice,  \* the requests it has received and not executed
  handle,    \* the handle in each session's context
  inbox,     \* the input reports queued on that handle
  cached,    \* numOfPixelsInFrame in each session's context
  reset,     \* "returned" while Spectrometer.reset, whose resetDevice has returned,
             \* has not written it; "sent" if the next call came first; else "none"
  pc,        \* the step each session's call has reached
  op,        \* the API function under way and its argument
  req,       \* the request its call is exchanging
  got,       \* numOfPacketsReceived
  seen,      \* history: the frames whose packets this getFrame has taken
  res        \* the result of each session's last call

usb   == <<attached, size>>
local == <<pc, op, req, got>>
vars  == <<usb, toDevice, handle, inbox, cached, reset, local, seen, res>>

-----------------------------------------------------------------------------
OneWay == {"trigger", "reset"}
Cmd    == {"setFormat", "getFormat", "getAcquisition", "setAll", "getFrame"} \cup OneWay

\* The reply a function waits for (the third argument of _writeReadFunction):
\* setMultipleParameters waits for the reply of getAcquisitionParameters.
CorrectReply(c) == IF c = "setAll" THEN "getAcquisition" ELSE c

\* A request for a frame says how many packets to send.
Request(c, a, n) == [cmd |-> c, arg |-> a, packets |-> n]
None == Request("none", 0, 0)

\* A report carries its command, a value and the packets left; "to" is history:
\* the session whose call it belongs to, NULL once that call has returned.
Reply(c, v, l, s) == [cmd |-> c, val |-> v, left |-> l, to |-> s]

\* The call of s is over: what is still under way for it belongs to no call.
Disown(q, s) == [i \in DOMAIN q |-> IF q[i].to = s THEN [q[i] EXCEPT !.to = NULL] ELSE q[i]]

Init ==
  /\ attached = TRUE /\ size = DefaultSize
  /\ toDevice = <<>>
  /\ handle = [s \in Session |-> "open"]
  /\ inbox = [s \in Session |-> <<>>]
  /\ cached = [s \in Session |-> 0]
  /\ reset = [s \in Session |-> "none"]
  /\ pc = [s \in Session |-> "idle"]
  /\ op = [s \in Session |-> None]
  /\ req = [s \in Session |-> None]
  /\ got = [s \in Session |-> 0]
  /\ seen = [s \in Session |-> {}]
  /\ res = [s \in Session |-> [ok |-> FALSE, val |-> 0]]

-----------------------------------------------------------------------------
(* The sessions. *)

\* The call of s returns; q and box are what it leaves in the queues.
Return(s, ok, v, q, box) ==
  /\ res' = [res EXCEPT ![s] = [ok |-> ok, val |-> v]]
  /\ pc' = [pc EXCEPT ![s] = "idle"]
  /\ op' = [op EXCEPT ![s] = None]
  /\ req' = [req EXCEPT ![s] = None]
  /\ got' = [got EXCEPT ![s] = 0]
  /\ toDevice' = Disown(q, s)
  /\ inbox' = [x \in Session |-> Disown(IF x = s THEN box ELSE inbox[x], s)]

Goto(s, l) == pc' = [pc EXCEPT ![s] = l]

\* Mutant: the frame size is not asked for.
FirstRequestUnsized(s, c, a) ==
  Request(c, a, IF c = "getFrame" THEN cached[s] ELSE 1)

\* A getFrame whose context has no frame size asks for the format first.
FirstRequest(s, c, a) ==
  IF c # "getFrame" THEN Request(c, a, 1)
  ELSE IF cached[s] = 0 THEN Request("getFormat", 1, 1)
  ELSE Request("getFrame", a, cached[s])

\* A call, up to its first write; a failed reconnection has left no handle.
Begin(s) ==
  /\ pc[s] = "idle"
  /\ Len(toDevice) + Len(inbox[s]) < MaxQueue
  /\ \E c \in Cmd, a \in Size \cup Frame \cup {1} :
       /\ a \in CASE c = "setFormat" -> Size [] c = "getFrame" -> Frame [] OTHER -> {1}
       /\ op' = [op EXCEPT ![s] = Request(c, a, 0)]
       /\ req' = [req EXCEPT ![s] = FirstRequest(s, c, a)]
       /\ Goto(s, IF handle[s] = "none" THEN "open" ELSE "write")
  /\ seen' = [seen EXCEPT ![s] = {}]
  /\ reset' = IF reset[s] = "returned" THEN [reset EXCEPT ![s] = "sent"] ELSE reset
  /\ UNCHANGED <<usb, toDevice, handle, inbox, cached, got, res>>

\* _reconnect: a new handle has an empty queue, a new context no frame size.
Reconnect(s) ==
  /\ pc[s] \in {"open", "reopen"}
  /\ \/ /\ attached
        /\ handle' = [handle EXCEPT ![s] = "open"]
        /\ inbox' = [inbox EXCEPT ![s] = <<>>]
        /\ Goto(s, IF pc[s] = "open" THEN "write" ELSE "rewrite")
        /\ UNCHANGED <<toDevice, op, req, got, res>>
     \/ /\ handle' = [handle EXCEPT ![s] = "none"]
        /\ Return(s, FALSE, 0, toDevice, <<>>)
  /\ cached' = [cached EXCEPT ![s] = 0]
  /\ reset' = [reset EXCEPT ![s] = "none"]
  /\ UNCHANGED <<usb, seen>>

Written(s) == Append(toDevice, [req |-> req[s], to |-> s])

\* hid_write of _tryWrite succeeds.  resetDevice leaves the frame size in the
\* context as it was.
WriteOK(s) ==
  /\ pc[s] \in {"write", "rewrite"} /\ handle[s] = "open"
  /\ IF req[s].cmd \in OneWay
     THEN Return(s, TRUE, 1, Written(s), inbox[s])
     ELSE /\ toDevice' = Written(s)
          /\ Goto(s, "read")
          /\ UNCHANGED <<inbox, op, req, got, res>>
  /\ reset' = IF req[s].cmd = "reset" THEN [reset EXCEPT ![s] = "returned"] ELSE reset
  /\ UNCHANGED <<usb, handle, cached, seen>>

\* Mutant: Spectrometer.reset does not write the frame size.
WriteFrameSizeKept(s) ==
  /\ pc[s] = "idle" /\ reset[s] = "returned"
  /\ reset' = [reset EXCEPT ![s] = "none"]
  /\ UNCHANGED <<usb, toDevice, handle, inbox, cached, local, seen, res>>

\* Spectrometer.reset goes on after resetDevice and writes the frame size of a
\* device that was reset into the context.  A caller in C, or a reset() that
\* raises in between, does not.
WriteFrameSize(s) ==
  /\ pc[s] = "idle" /\ reset[s] = "returned"
  /\ cached' = [cached EXCEPT ![s] = DefaultSize]
  /\ reset' = [reset EXCEPT ![s] = "none"]
  /\ UNCHANGED <<usb, toDevice, handle, inbox, local, seen, res>>

\* hid_write fails: the first time _tryWrite reconnects, the second it gives up.
WriteError(s) ==
  /\ pc[s] \in {"write", "rewrite"}
  /\ \E q \in {toDevice} \cup IF Late /\ handle[s] = "open" THEN {Written(s)} ELSE {} :
       IF pc[s] = "rewrite" THEN Return(s, FALSE, 0, q, inbox[s])
       ELSE /\ toDevice' = q
            /\ Goto(s, "reopen")
            /\ UNCHANGED <<inbox, op, req, got, res>>
  /\ UNCHANGED <<usb, handle, cached, reset, seen>>

\* Mutant: the packets left are not compared with those to come.
PacketUncounted(s, r, rest) ==
  /\ seen' = [seen EXCEPT ![s] = @ \cup {r.val}]
  /\ IF got[s] + 1 >= req[s].packets THEN Return(s, TRUE, r.val, toDevice, rest)
     ELSE /\ got' = [got EXCEPT ![s] = @ + 1]
          /\ inbox' = [inbox EXCEPT ![s] = rest]
          /\ UNCHANGED <<toDevice, pc, op, req, res>>
  /\ UNCHANGED <<cached, reset>>

\* Mutant: the loop ends with one packet left.
PacketLeavingOne(s, r, rest) ==
  /\ IF r.left # req[s].packets - (got[s] + 1)
     THEN Return(s, FALSE, 0, toDevice, rest) /\ UNCHANGED seen
     ELSE /\ seen' = [seen EXCEPT ![s] = @ \cup {r.val}]
          /\ Return(s, TRUE, r.val, toDevice, rest)
  /\ UNCHANGED <<cached, reset>>

\* A packet of a frame; the last one ends the call.  The value of the result is
\* the frame whose packets were taken; what is copied is DeviceContext's subject.
Packet(s, r, rest) ==
  /\ IF r.left # req[s].packets - (got[s] + 1)
     THEN Return(s, FALSE, 0, toDevice, rest) /\ UNCHANGED seen
     ELSE /\ seen' = [seen EXCEPT ![s] = @ \cup {r.val}]
          /\ IF r.left = 0 THEN Return(s, TRUE, r.val, toDevice, rest)
             ELSE /\ got' = [got EXCEPT ![s] = @ + 1]
                  /\ inbox' = [inbox EXCEPT ![s] = rest]
                  /\ UNCHANGED <<toDevice, pc, op, req, res>>
  /\ UNCHANGED <<cached, reset>>

\* Mutant: the error code of setFrameFormat is not tested.
FormatUntested(s, r, rest) ==
  /\ cached' = [cached EXCEPT ![s] = IF r.val = 0 THEN @ ELSE r.val]
  /\ reset' = [reset EXCEPT ![s] = IF r.val = 0 THEN @ ELSE "none"]
  /\ IF op[s].cmd # "getFrame" THEN Return(s, TRUE, r.val, toDevice, rest)
     ELSE /\ req' = [req EXCEPT ![s] = Request("getFrame", op[s].arg, r.val)]
          /\ Goto(s, "write")
          /\ inbox' = [inbox EXCEPT ![s] = rest]
          /\ UNCHANGED <<toDevice, op, got, res>>

\* A frame size, unless the format was refused; getFrame goes on with it.
Format(s, r, rest) ==
  /\ cached' = IF r.val = 0 THEN cached ELSE [cached EXCEPT ![s] = r.val]
  /\ reset' = IF r.val = 0 THEN reset ELSE [reset EXCEPT ![s] = "none"]
  /\ IF op[s].cmd # "getFrame" THEN Return(s, r.val # 0, r.val, toDevice, rest)
     ELSE /\ req' = [req EXCEPT ![s] = Request("getFrame", op[s].arg, r.val)]
          /\ Goto(s, "write")
          /\ inbox' = [inbox EXCEPT ![s] = rest]
          /\ UNCHANGED <<toDevice, op, got, res>>

\* hid_read_timeout returns a report.
Read(s) ==
  /\ pc[s] = "read" /\ handle[s] = "open" /\ inbox[s] # <<>>
  /\ LET r == Head(inbox[s])
         rest == Tail(inbox[s])
     IN IF r.cmd # CorrectReply(req[s].cmd)
        THEN Return(s, FALSE, 0, toDevice, rest) /\ UNCHANGED <<cached, reset, seen>>
        ELSE CASE req[s].cmd = "getFrame" -> Packet(s, r, rest)
               [] req[s].cmd \in {"setFormat", "getFormat"} ->
                    Format(s, r, rest) /\ UNCHANGED seen
               [] OTHER ->
                    Return(s, TRUE, r.val, toDevice, rest) /\ UNCHANGED <<cached, reset, seen>>
  /\ UNCHANGED <<usb, handle>>

\* hid_read_timeout returns no report: the device is gone or, if replies can be
\* late, the timeout has passed and the reports in the inbox come after it.
ReadError(s) ==
  /\ pc[s] = "read"
  /\ handle[s] = "dead" \/ Late
  /\ Return(s, FALSE, 0, toDevice, inbox[s])
  /\ UNCHANGED <<usb, handle, cached, reset, seen>>

-----------------------------------------------------------------------------
(* The device. *)

\* What it sends for a request: a frame comes in as many packets as were asked
\* for, numbered downwards; a refused format comes with value 0.
Packets(r, v) == [i \in 1 .. r.req.packets |-> Reply(r.req.cmd, v, r.req.packets - i, r.to)]

\* Every open handle gets the reports.
Sends(q) == inbox' = [s \in Session |-> IF handle[s] = "open" THEN inbox[s] \o q ELSE inbox[s]]

Execute ==
  /\ attached /\ toDevice # <<>>
  /\ LET r == Head(toDevice) IN
     \/ /\ r.req.cmd = "setFormat"
        /\ size' = r.req.arg /\ Sends(Packets(r, r.req.arg))
     \/ /\ r.req.cmd = "setFormat"
        /\ UNCHANGED size /\ Sends(Packets(r, 0))
     \/ /\ r.req.cmd = "getFormat"
        /\ UNCHANGED size /\ Sends(Packets(r, size))
     \/ /\ r.req.cmd \in {"getAcquisition", "setAll", "getFrame"}
        /\ UNCHANGED size /\ Sends(Packets(r, r.req.arg))
     \/ /\ r.req.cmd \in OneWay
        /\ size' = IF r.req.cmd = "reset" THEN DefaultSize ELSE size
        /\ UNCHANGED inbox
  /\ toDevice' = Tail(toDevice)
  /\ UNCHANGED <<attached, handle, cached, reset, local, seen, res>>

Unplug ==
  /\ attached /\ attached' = FALSE
  /\ toDevice' = <<>>
  /\ inbox' = [s \in Session |-> <<>>]
  /\ handle' = [s \in Session |-> IF handle[s] = "open" THEN "dead" ELSE handle[s]]
  /\ UNCHANGED <<size, cached, reset, local, seen, res>>

\* A device that comes back may have lost its settings.
Plug ==
  /\ ~attached /\ attached' = TRUE
  /\ size' \in {size, DefaultSize}
  /\ UNCHANGED <<toDevice, handle, inbox, cached, reset, local, seen, res>>

-----------------------------------------------------------------------------
Next ==
  \/ \E s \in Session : \/ Begin(s) \/ Reconnect(s)
                        \/ WriteOK(s) \/ WriteFrameSize(s) \/ WriteError(s)
                        \/ Read(s) \/ ReadError(s)
  \/ Execute \/ Unplug \/ Plug

Spec == Init /\ [][Next]_vars
-----------------------------------------------------------------------------
(* Properties. *)

Value   == Size \cup Frame \cup {1}
Owner   == Session \cup {NULL}
ResetState == {"none", "returned", "sent"}
Asked   == {r \in [cmd : Cmd, arg : Value, packets : Size \cup {1}] :
              r.cmd = "setFormat" => r.arg \in Size}
Pending == [req : Asked, to : Owner]
Report  == {r \in [cmd : Cmd, val : Value \cup {0}, left : Nat, to : Owner] :
              /\ r.cmd \in {"setFormat", "getFormat"} => r.val \in Size \cup {0}
              /\ r.val = 0 => r.cmd = "setFormat"}

TypeOK ==
  /\ attached \in BOOLEAN /\ size \in Size
  /\ toDevice \in Seq(Pending) /\ inbox \in [Session -> Seq(Report)]
  /\ handle \in [Session -> {"open", "dead", "none"}]
  /\ cached \in [Session -> Size \cup {0}] /\ reset \in [Session -> ResetState]
  /\ pc \in [Session -> {"idle", "open", "write", "reopen", "rewrite", "read"}]
  /\ op \in [Session -> [cmd : Cmd, arg : Value, packets : {0}] \cup {None}]
  /\ req \in [Session -> Asked \cup {None}]
  /\ got \in [Session -> Nat]
  /\ seen \in [Session -> SUBSET (Value \cup {0})]
  /\ res \in [Session -> [ok : BOOLEAN, val : Value \cup {0}]]

\* A call that returns OK has taken the report that answers it: what earlier
\* calls, reconnections and failed writes left behind is never taken for it.
OwnAnswer ==
  [][\A s \in Session :
       pc[s] = "read" /\ pc'[s] = "idle" /\ res'[s].ok => Head(inbox[s]).to = s]_vars

\* A getFrame takes packets of one frame only: the count of the packets left
\* keeps the leftovers of an earlier getFrame apart, also when replies are late.
FrameNotTorn == \A s \in Session : Cardinality(seen[s]) <= 1

\* Once the device has executed what it was sent and the session has read what
\* it sent back, the frame size in the context is the device's: a late reply, a
\* refused format, a power cycle or a Spectrometer.reset leaves none that is out of
\* date.  Only a resetDevice whose caller does not write it does, until the next
\* answer with a format or the next reconnection.
FrameSizeCurrent ==
  \A s \in Session :
    /\ pc[s] = "idle" /\ handle[s] = "open" /\ reset[s] = "none"
    /\ inbox[s] = <<>> /\ toDevice = <<>>
    => cached[s] \in {0, size}

-----------------------------------------------------------------------------
(* With one session and replies in time, the exchange of reports is a       *)
(* remote procedure call.                                                  *)

\* The report that answers the API call of s is the next it reads.
Answered(s) ==
  pc[s] = "read" /\ inbox[s] # <<>> /\ Head(inbox[s]).to = s /\ Head(inbox[s]).cmd = op[s].cmd

CallOf(s) ==
  IF pc[s] = "idle" THEN [st |-> "idle", cmd |-> "none", arg |-> 0, val |-> 0]
  ELSE [st  |-> IF Answered(s) THEN "answered" ELSE "asked",
        cmd |-> op[s].cmd,
        arg |-> op[s].arg,
        val |-> IF Answered(s) THEN Head(inbox[s]).val ELSE 0]

\* The one-way requests the device has to execute.  They are the first it has:
\* the thread that makes a request with an answer waits before it makes another.
Posted == [i \in {j \in DOMAIN toDevice : toDevice[j].req.cmd \in OneWay} |-> toDevice[i].req.cmd]

Calls == INSTANCE DeviceCalls WITH posted <- Posted, call <- [s \in Session |-> CallOf(s)]

\* The library implements the remote procedure call: requests are executed in
\* order, at most once per call, and answers reach the calls they belong to.
Implements == Calls!Spec
=============================================================================
