---------------------------- MODULE DeviceCalls ----------------------------
(***************************************************************************)
(* What a caller of libspectrometer may rely on: a call is a remote        *)
(* procedure call.  The device takes the requests one at a time, in the    *)
(* order they were made, and a call that returns OK returns the device's   *)
(* answer to that very call.  There are no reports, queues or handles here. *)
(***************************************************************************)
EXTENDS Naturals, Sequences

CONSTANTS
  Session,      \* the callers, each with a device context of its own
  Size,         \* the frame sizes, in packets
  DefaultSize,  \* the frame size of a device that was reset
  Frame,        \* the frame numbers
  OneWay,       \* the commands nobody waits an answer for
  Cmd           \* all commands

VARIABLES
  size,    \* the device's frame size
  posted,  \* the one-way commands the device has to execute
  call,    \* the call of each session
  res      \* the result of the last call of each session

vars == <<size, posted, call, res>>

NoCall == [st |-> "idle", cmd |-> "none", arg |-> 0, val |-> 0]
Failed == [ok |-> FALSE, val |-> 0]

Init ==
  /\ size = DefaultSize
  /\ posted = <<>>
  /\ call = [s \in Session |-> NoCall]
  /\ res = [s \in Session |-> Failed]

Ask(s) ==
  /\ call[s].st = "idle"
  /\ \E c \in Cmd, a \in Size \cup Frame \cup {1} :
       call' = [call EXCEPT ![s] = [st |-> "asked", cmd |-> c, arg |-> a, val |-> 0]]
  /\ UNCHANGED <<size, posted, res>>

\* A one-way call returns when the device has its command.
Post(s) ==
  /\ call[s].st = "asked" /\ call[s].cmd \in OneWay
  /\ posted' = Append(posted, call[s].cmd)
  /\ call' = [call EXCEPT ![s] = NoCall]
  /\ res' = [res EXCEPT ![s] = [ok |-> TRUE, val |-> 1]]
  /\ UNCHANGED size

ExecutePosted ==
  /\ posted # <<>>
  /\ posted' = Tail(posted)
  /\ size' = IF Head(posted) = "reset" THEN DefaultSize ELSE size
  /\ UNCHANGED <<call, res>>

\* The device executes the request of s and answers it.
Answer(s) ==
  /\ call[s].st = "asked" /\ posted = <<>>
  /\ LET a == call[s].arg
         Answered(v) == call' = [call EXCEPT ![s].st = "answered", ![s].val = v]
     IN CASE call[s].cmd = "setFormat" ->
               \/ size' = a /\ Answered(a)
               \/ UNCHANGED size /\ Answered(0)
          [] call[s].cmd = "getFormat" -> UNCHANGED size /\ Answered(size)
          [] OTHER -> UNCHANGED size /\ Answered(a)
  /\ UNCHANGED <<posted, res>>

\* OK, with the answer to this call; 0 is the device's refusal.
Return(s) ==
  /\ call[s].st = "answered" /\ call[s].val # 0
  /\ res' = [res EXCEPT ![s] = [ok |-> TRUE, val |-> call[s].val]]
  /\ call' = [call EXCEPT ![s] = NoCall]
  /\ UNCHANGED <<size, posted>>

\* An error: the device may or may not have executed the request.
Fail(s) ==
  /\ call[s].st # "idle"
  /\ res' = [res EXCEPT ![s] = Failed]
  /\ call' = [call EXCEPT ![s] = NoCall]
  /\ UNCHANGED <<size, posted>>

\* The device goes: what it had to execute and to answer is lost.
Lose ==
  /\ posted' = <<>>
  /\ call' = [s \in Session |->
                IF call[s].st = "answered" THEN [call[s] EXCEPT !.st = "asked", !.val = 0]
                ELSE call[s]]
  /\ UNCHANGED <<size, res>>

\* It comes back, and may have lost its settings.
Restart ==
  /\ size' = DefaultSize
  /\ UNCHANGED <<posted, call, res>>

Next ==
  \/ \E s \in Session : Ask(s) \/ Post(s) \/ Answer(s) \/ Return(s) \/ Fail(s)
  \/ ExecutePosted \/ Lose \/ Restart

Spec == Init /\ [][Next]_vars
=============================================================================
