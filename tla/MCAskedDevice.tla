--------------------------- MODULE MCAskedDevice ---------------------------
(***************************************************************************)
(* DeviceContext with a history variable: the serial number the caller     *)
(* gave to the connect call that last succeeded.                           *)
(***************************************************************************)
EXTENDS DeviceContext

VARIABLE asked

MCFormat == {3}

AskedInit == Init /\ asked = NULL

AskedNext ==
  \/ \E s \in Device \cup {NULL} :
       Connect(s) /\ asked' = IF ret' = "OK" THEN s ELSE NULL
  \/ disconnectDeviceContext /\ asked' = NULL
  \/ /\ \/ Refused \/ Step
        \/ \E o \in PlainOp : BeginPlain(o)
        \/ \E o \in LoopOp : BeginLoop(o)
        \/ \E d \in Device : Unplug(d) \/ Plug(d)
     /\ UNCHANGED asked

AskedSpec == AskedInit /\ [][AskedNext]_<<vars, asked>>

\* libspectrometer.h:67, "Finds the requested device by the provided serial
\* number and connects to it": the calls that follow run on that device, also
\* after the device was lost and _reconnect has connected again.
AskedDevice ==
  asked # NULL /\ ctx # NULL /\ heap[ctx].handle # NULL =>
    hid[heap[ctx].handle].dev = asked
=============================================================================
