------------------------- MODULE ExampleApp_proofs -------------------------
(***************************************************************************)
(* The barrier of the example, for every number of devices and of frames.  *)
(***************************************************************************)
EXTENDS ExampleApp, TLAPS

Step == {"connect", "initialize", "trigger", "loop", "barrier", "wait", "frame", "ended"}

\* A thread before the barrier has its whole count, and one that reads a frame is
\* not at its last.
BarrierInv ==
  /\ pc \in [Thread -> Step]
  /\ frameCount \in [Thread -> 0 .. FramesRequired - 1]
  /\ counter \in [Thread -> Nat]
  /\ timerStart = [t \in Thread |-> FALSE]
  /\ timerStop = [t \in Thread |-> FALSE]
  /\ event = FALSE
  /\ \A t \in Thread :
       /\ pc[t] \notin {"wait", "ended"} => counter[t] = DeviceCount
       /\ pc[t] = "frame" => frameCount[t] < FramesRequired - 1

\* BarrierInv holds at the start.
LEMMA BarrierInit ==
  ASSUME DeviceCount \in Nat, FramesRequired \in Nat \ {0}, Init
  PROVE  BarrierInv
BY DEF Init, BarrierInv, Step

\* A call of Spectrometer takes its thread to the next step or ends it.
LEMMA CallsKeep ==
  ASSUME DeviceCount \in Nat, FramesRequired \in Nat \ {0}, BarrierInv,
         NEW t \in Thread, NEW a \in Step \ {"wait", "ended"},
         NEW b \in Step \ {"wait"},
         b = "frame" => frameCount[t] < FramesRequired - 1,
         Calls(t, a, b)
  PROVE  BarrierInv'
BY DEF BarrierInv, Calls, Step, main, timers

\* With two devices or more every step keeps BarrierInv.
LEMMA BarrierStep ==
  ASSUME DeviceCount \in Nat, FramesRequired \in Nat \ {0}, DeviceCount > 1,
         BarrierInv, [Next]_vars
  PROVE  BarrierInv'
<1>1. ASSUME NEW t \in Thread, ThreadStep(t)
      PROVE  BarrierInv'
  <2>1. CASE Connect(t)
    BY <2>1, CallsKeep DEF Connect, Step
  <2>2. CASE Initialize(t)
    BY <2>2, CallsKeep DEF Initialize, Step
  <2>3. CASE Trigger(t)
    BY <2>3, CallsKeep DEF Trigger, Step
  <2>4. CASE Status(t)
    <3>1. PICK l \in {"trigger", IF Last(t) THEN "barrier" ELSE "frame"} :
            Calls(t, "loop", l)
      BY <2>4 DEF Status
    <3>2. l = "frame" => frameCount[t] < FramesRequired - 1
      BY <2>4, <3>1 DEF Status, Last, BarrierInv
    <3>3. l \in Step \ {"wait"} /\ "loop" \in Step \ {"wait", "ended"}
      BY <3>1 DEF Step
    <3> QED
      BY <3>1, <3>2, <3>3, CallsKeep
  <2>5. CASE Barrier(t)
    <3>1. counter[t] = DeviceCount
      BY <2>5 DEF Barrier, BarrierInv
    <3>2. counter'[t] = DeviceCount - 1 /\ counter' \in [Thread -> Nat]
      BY <2>5, <3>1 DEF Barrier, BarrierInv
    <3>3. counter'[t] # 0
      BY <3>2
    <3>4. event = FALSE /\ event' = (event \/ counter'[t] = 0)
      BY <2>5 DEF Barrier, BarrierInv
    <3>5. event' = FALSE
      BY <3>3, <3>4, Zenon
    <3> QED
      BY <2>5, <3>2, <3>5 DEF Barrier, BarrierInv, Step, main, timers
  <2>6. CASE Measure(t)
    BY <2>6 DEF Measure, BarrierInv
  <2>7. CASE Frame(t)
    <3>1. frameCount[t] < FramesRequired - 1 /\ ~Last(t)
      BY <2>7 DEF Frame, BarrierInv, Last
    <3>2. timerStop[t] = FALSE
      BY DEF BarrierInv
    <3>3. (timerStop[t] \/ Last(t)) = FALSE
      BY <3>1, <3>2, Zenon
    <3>4. timerStop' = timerStop
      BY <2>7, <3>2, <3>3 DEF Frame, BarrierInv
    <3>5. pc' \in [Thread -> Step] /\ frameCount' \in [Thread -> 0 .. FramesRequired - 1]
      BY <2>7, <3>1 DEF Frame, BarrierInv, Step
    <3>6. counter' = counter /\ timerStart' = timerStart /\ event' = event
      BY <2>7 DEF Frame
    <3>7. pc'[t] \in {"loop", "ended"} /\ \A s \in Thread \ {t} : pc'[s] = pc[s] /\ frameCount'[s] = frameCount[s]
      BY <2>7 DEF Frame, BarrierInv
    <3> QED
      BY <2>7, <3>4, <3>5, <3>6, <3>7 DEF Frame, BarrierInv
  <2>8. CASE Leave(t)
    BY <2>8, CallsKeep DEF Leave, Step
  <2> QED
    BY <1>1, <2>1, <2>2, <2>3, <2>4, <2>5, <2>6, <2>7, <2>8 DEF ThreadStep
<1>2. CASE Start
  BY <1>2 DEF Start, BarrierInv, timers
<1>3. CASE Join
  BY <1>3 DEF Join, BarrierInv, timers
<1>4. CASE Report
  BY <1>4 DEF Report, BarrierInv, timers
<1>5. CASE UNCHANGED vars
  BY <1>5 DEF vars, BarrierInv, timers
<1> QED
  BY <1>1, <1>2, <1>3, <1>4, <1>5 DEF Next

\* main.py:94: the count is a copy, so with two devices or more no thread ever
\* leaves the barrier, however many devices and frames there are and however the
\* threads interleave or fail.
THEOREM NobodyEverMeasures ==
  ASSUME DeviceCount \in Nat, FramesRequired \in Nat \ {0}
  PROVE  Spec => []NobodyMeasures
<1>1. BarrierInv => NobodyMeasures
  BY DEF BarrierInv, NobodyMeasures
<1>2. CASE DeviceCount > 1
  <2>1. Init => BarrierInv
    BY BarrierInit
  <2>2. BarrierInv /\ [Next]_vars => BarrierInv'
    BY <1>2, BarrierStep
  <2> QED
    BY <1>1, <2>1, <2>2, PTL DEF Spec
<1>3. CASE ~(DeviceCount > 1)
  <2>1. NobodyMeasures
    BY <1>3 DEF NobodyMeasures
  <2> QED
    BY <2>1, PTL
<1> QED
  BY <1>2, <1>3
=============================================================================
