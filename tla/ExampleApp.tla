----------------------------- MODULE ExampleApp -----------------------------
(***************************************************************************)
(* The multi-threaded Python example: a thread for every device reads      *)
(* frames, waits before its last one until every thread has come so far,   *)
(* and times it; main starts the threads, joins them and prints the time   *)
(* from the first start to the last stop.                                  *)
(*                                                                         *)
(* A call of Spectrometer returns or raises, which ends its thread; what   *)
(* it does is Spectrometer's subject.  The scan mode of the example is     *)
(* averaging: self.memory is a FakeMemory, whose length is always 1 and    *)
(* whose clear() does nothing.                                             *)
(***************************************************************************)
EXTENDS Naturals

CONSTANTS
  DeviceCount,    \* device_count()
  FramesRequired  \* frames_required

Thread == {t \in 0 .. DeviceCount : t < DeviceCount}

VARIABLES
  started,     \* the threads main has started
  joined,      \* those it has joined
  printed,     \* main has come to its end: "no", "time" or "raised"
  pc,          \* the step each thread has reached
  frameCount,  \* its frame_count
  counter,     \* its self.counter
  timerStart,  \* timer_start[index] is set
  timerStop,   \* timer_stop[index] is set
  event        \* measure_event is set

main   == <<started, joined, printed>>
timers == <<timerStart, timerStop>>
vars   == <<main, pc, frameCount, counter, timers, event>>

\* Every thread gets the number of devices, as a copy of its own.
Init ==
  /\ started = 0 /\ joined = 0 /\ printed = "no"
  /\ pc = [t \in Thread |-> "connect"]
  /\ frameCount = [t \in Thread |-> 0]
  /\ counter = [t \in Thread |-> DeviceCount]
  /\ timerStart = [t \in Thread |-> FALSE] /\ timerStop = [t \in Thread |-> FALSE]
  /\ event = FALSE

-----------------------------------------------------------------------------
(* A thread. *)

\* t goes from a to b, or a call raises and ends it.
Calls(t, a, b) ==
  /\ t < started /\ pc[t] = a
  /\ \E l \in {b, "ended"} : pc' = [pc EXCEPT ![t] = l]
  /\ UNCHANGED <<main, frameCount, counter, timers, event>>

\* The with statement connects, and initialize_spectrometer does so again.
Connect(t) == Calls(t, "connect", "initialize")

Initialize(t) == Calls(t, "initialize", "trigger")

\* clear() and trigger(), at first and whenever the device's memory is full.
Trigger(t) == Calls(t, "trigger", "loop")

Last(t) == frameCount[t] = FramesRequired - 1

\* status(), at the head of the loop.
Status(t) ==
  /\ frameCount[t] < FramesRequired
  /\ \E l \in {"trigger", IF Last(t) THEN "barrier" ELSE "frame"} : Calls(t, "loop", l)

\* Under measure_lock the thread counts itself off.
Barrier(t) ==
  /\ pc[t] = "barrier"
  /\ counter' = [counter EXCEPT ![t] = @ - 1]
  /\ event' = (event \/ counter'[t] = 0)
  /\ pc' = [pc EXCEPT ![t] = "wait"]
  /\ UNCHANGED <<main, frameCount, timers>>

\* measure_event.wait() returns.
Measure(t) ==
  /\ pc[t] = "wait" /\ event
  /\ timerStart' = [timerStart EXCEPT ![t] = TRUE]
  /\ pc' = [pc EXCEPT ![t] = "frame"]
  /\ UNCHANGED <<main, frameCount, counter, timerStop, event>>

\* memory[0] is read, or raises.
Frame(t) ==
  /\ pc[t] = "frame"
  /\ \/ /\ pc' = [pc EXCEPT ![t] = "loop"]
        /\ frameCount' = [frameCount EXCEPT ![t] = @ + 1]
        /\ timerStop' = [timerStop EXCEPT ![t] = @ \/ Last(t)]
     \/ /\ pc' = [pc EXCEPT ![t] = "ended"]
        /\ UNCHANGED <<frameCount, timerStop>>
  /\ UNCHANGED <<main, counter, timerStart, event>>

\* The loop is over; the with statement disconnects.
Leave(t) == frameCount[t] = FramesRequired /\ Calls(t, "loop", "ended")

-----------------------------------------------------------------------------
(* main. *)

Start ==
  /\ started < DeviceCount /\ started' = started + 1
  /\ UNCHANGED <<joined, printed, pc, frameCount, counter, timers, event>>

Join ==
  /\ started = DeviceCount /\ joined < DeviceCount
  /\ pc[joined] = "ended"
  /\ joined' = joined + 1
  /\ UNCHANGED <<started, printed, pc, frameCount, counter, timers, event>>

\* min and max of the timers: with no device they are lists of no element.
Report ==
  /\ joined = DeviceCount /\ printed = "no"
  /\ started = DeviceCount
  /\ printed' = IF DeviceCount = 0 THEN "raised" ELSE "time"
  /\ UNCHANGED <<started, joined, pc, frameCount, counter, timers, event>>

-----------------------------------------------------------------------------
ThreadStep(t) ==
  \/ Connect(t) \/ Initialize(t) \/ Trigger(t) \/ Status(t)
  \/ Barrier(t) \/ Measure(t) \/ Frame(t) \/ Leave(t)

Next == (\E t \in Thread : ThreadStep(t)) \/ Start \/ Join \/ Report

Spec == Init /\ [][Next]_vars
-----------------------------------------------------------------------------
(* Properties. *)

\* main.py:83, every thread gets frames_required frames and prints the last one:
\* once all threads have reached the barrier it is open.
BarrierOpens == (\A t \in Thread : pc[t] = "wait") /\ DeviceCount > 0 => event

\* What follows from the copies of the counter: with two devices or more no
\* thread ever leaves the barrier, none times or reads its last frame, and main
\* prints a time only if every thread was ended by an exception.
NobodyMeasures ==
  DeviceCount > 1 =>
    /\ ~event
    /\ \A t \in Thread : ~timerStart[t] /\ ~timerStop[t] /\ frameCount[t] < FramesRequired
=============================================================================
