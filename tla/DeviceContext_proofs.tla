------------------------ MODULE DeviceContext_proofs ------------------------
(***************************************************************************)
(* Proofs about DeviceContext, for every allocator: the types, and that a  *)
(* call comes to its end; and, until a context is exposed, that no pointer *)
(* is stale, that a handle is open and the one of the saved serial number, *)
(* and that a getFrame copies a whole frame.                               *)
(***************************************************************************)
EXTENDS ExposedContext, TLAPS

\* Which functions are on the stack, and that they have taken their pointers.
StackOK ==
  /\ pc # "idle" => ctx # NULL /\ op # "none"
  /\ op \in LoopOp => dc.api # NULL
  /\ op \notin LoopOp => cmd = op
  /\ pc = "idle" => op = "none"
  /\ pc \in {"size", "request", "packet"} => op = "getFrame"
  /\ pc \in {"flashWrite", "flashRead"} => op = "flash"
  /\ pc \in {"write", "rewrite", "reopen", "read"} => cmd # "none"
  /\ pc = "read" => cmd \in ReplyCmd
  /\ pc = "packet" => cmd = "getFrame"
  /\ cmd = "getFrame" => op = "getFrame"

\* Where the pointers of the functions on the stack point: without a dangling
\* context to start with, at the caller's context.
PointersOK ==
  /\ ctx # NULL => heap[ctx].live
  /\ op \in LoopOp => dc.api = ctx
  /\ cmd \in FormatCmd => dc.format = ctx
  /\ pc \in {"reopen", "rewrite"} => dc.write = ctx

\* The handle in the context.
ContextOK ==
  /\ pc \notin {"idle", "open"} => heap[ctx].handle # NULL
  /\ ctx # NULL /\ heap[ctx].handle # NULL => hid[heap[ctx].handle].dev # NULL
  /\ SerialNamesDevice

TypeInv   == TypeOK /\ StackOK
MemoryInv == TypeInv /\ PointersOK /\ ContextOK
-----------------------------------------------------------------------------
(* Types. *)

\* A context a connect function fills in is a live block with no frame size.
LEMMA ContextType ==
  ASSUME NEW h \in Handle \cup {NULL}, NEW s \in Device \cup {NULL}
  PROVE  /\ Context(h, s) \in Block
         /\ Context(h, s).live /\ Context(h, s).handle = h
         /\ Context(h, s).pixels = 0 /\ Context(h, s).serial = s
  BY DEF Context, Block

\* A block that is not allocated is a block, and not live.
LEMMA FreeBlockType == FreeBlock \in Block /\ ~FreeBlock.live
  BY ContextType DEF FreeBlock, NULL_DEVICE_CONTEXT, Context, Block

\* The heap after free(deviceContext) is a heap.
LEMMA FreedType ==
  ASSUME TypeOK
  PROVE  Freed \in [Addr -> Block]
  BY FreeBlockType DEF Freed, TypeOK

\* malloc returns a block, whatever the allocator.
LEMMA MallocableType ==
  ASSUME TypeOK
  PROVE  Mallocable \subseteq Addr
  BY DEF Mallocable, TypeOK

\* What a successful connection leaves: a fresh context around a fresh handle.
LEMMA ConnectedType ==
  ASSUME TypeOK, NEW serial \in Device \cup {NULL}, NEW d \in Device,
         Connected(serial, d)
  PROVE  /\ heap' \in [Addr -> Block]
         /\ hid' \in [Handle -> [dev : Device \cup {NULL}, ok : BOOLEAN]]
         /\ ctx' \in Addr
<1>1. PICK a \in Mallocable, h \in Handle :
        /\ heap' = [Freed EXCEPT ![a] = Context(h, serial)]
        /\ hid' = [hid EXCEPT ![h] = [dev |-> d, ok |-> TRUE]]
        /\ ctx' = a
  BY DEF Connected
<1>2. Context(h, serial) \in Block
  BY ContextType
<1>3. QED
  BY <1>1, <1>2, FreedType, MallocableType DEF TypeOK

\* What a failed one leaves.
LEMMA NotConnectedType ==
  ASSUME TypeOK, NotConnected
  PROVE  /\ heap' \in [Addr -> Block]
         /\ hid' \in [Handle -> [dev : Device \cup {NULL}, ok : BOOLEAN]]
<1>1. PICK a \in Mallocable : heap' = [Freed EXCEPT ![a] = NULL_DEVICE_CONTEXT]
  BY DEF NotConnected
<1>2. NULL_DEVICE_CONTEXT \in Block
  BY ContextType DEF NULL_DEVICE_CONTEXT
<1>3. hid' = hid
  BY DEF NotConnected
<1>4. QED
  BY <1>1, <1>2, <1>3, FreedType, MallocableType DEF TypeOK

\* A call that returns leaves its locals empty.
LEMMA ReturnType ==
  ASSUME NEW code \in {"OK", "failed"}, Return(code)
  PROVE  /\ pc' = "idle" /\ op' = "none" /\ cmd' = "none"
         /\ dc' \in [api : Addr \cup {NULL}, format : Addr \cup {NULL},
                     write : Addr \cup {NULL}]
         /\ want' \in Nat /\ received' \in Nat /\ copied' \in Nat
         /\ ret' \in {"OK", "failed", "none"}
  BY DEF Return, NoPointers

\* The handle table after a device was lost is a handle table.
LEMMA LostType ==
  ASSUME TypeOK, NEW d
  PROVE  Lost(d) \in [Handle -> [dev : Device \cup {NULL}, ok : BOOLEAN]]
  BY DEF Lost, TypeOK

\* The number of packets of a frame is a number.
LEMMA NumOfPacketsType ==
  ASSUME NEW n \in Nat
  PROVE  NumOfPackets(n) \in Nat
  BY SizeAssumption DEF NumOfPackets

\* The caller's zeroed variable and the empty heap have their types.
LEMMA InitType == Init => TypeInv
  BY FreeBlockType DEF Init, TypeInv, TypeOK, StackOK, Closed, NoPointers, LoopOp, FormatCmd

\* A step keeps the types; a call's pointers are those of allocated blocks.
LEMMA TypeStep ==
  ASSUME TypeInv, [Next]_vars
  PROVE  TypeOK'
<1> USE DEF TypeInv
<1>1. ASSUME NEW s \in Device \cup {NULL}, Connect(s)
      PROVE  TypeOK'
  <2>1. CASE \E d \in attached : Connected(s, d) /\ ret' = "OK"
    BY <1>1, <2>1, ConnectedType DEF Connect, TypeOK, frame
  <2>2. CASE NotConnected /\ ctx' \in {ctx, NULL} /\ ret' = "failed"
    BY <1>1, <2>2, NotConnectedType DEF Connect, TypeOK, frame
  <2>3. QED
    <3>1. CASE connectToDeviceBySerial(s)
      BY <3>1, <2>1, <2>2 DEF connectToDeviceBySerial, ConnectedBySerial
    <3>2. CASE s # NULL /\ connectToDeviceByIndex(s)
      <4>1. Connected(s, s) => s \in attached
        BY DEF Connected
      <4>2. QED
        BY <3>2, <4>1, <2>1, <2>2 DEF connectToDeviceByIndex
    <3>3. QED
      BY <1>1, <3>1, <3>2 DEF Connect
<1>2. CASE disconnectDeviceContext
  BY <1>2 DEF disconnectDeviceContext, TypeOK, frame, Freed, FreeBlock,
          NULL_DEVICE_CONTEXT, Context, Block, Closed
<1>3. CASE Refused
  BY <1>3 DEF Refused, TypeOK, frame, memory
<1>4. ASSUME NEW o \in PlainOp, BeginPlain(o)
      PROVE  TypeOK'
  BY <1>4 DEF BeginPlain, TypeOK, frame, memory, NoPointers
<1>5. ASSUME NEW o \in LoopOp, BeginLoop(o)
      PROVE  TypeOK'
  <2>1. want' \in Nat
    BY <1>5, SizeAssumption DEF BeginLoop
  <2>2. QED
    BY <1>5, <2>1 DEF BeginLoop, TypeOK, frame, memory, NoPointers, Opened, LoopOp
<1>6. CASE reconnect
  <2>1. CASE NotConnected /\ UNCHANGED ctx /\ Return("failed")
    BY <1>6, <2>1, NotConnectedType, ReturnType DEF reconnect, TypeOK
  <2>2. CASE /\ ConnectedBySerial(heap[ctx].serial)
             /\ pc' = IF pc = "open" THEN Opened(op, cmd) ELSE "rewrite"
             /\ UNCHANGED <<op, cmd, dc, frame, ret>>
    <3>1. /\ heap' \in [Addr -> Block]
          /\ hid' \in [Handle -> [dev : Device \cup {NULL}, ok : BOOLEAN]]
          /\ ctx' \in Addr
      <4>1. PICK d \in Device : Connected(heap[ctx].serial, d)
        BY <2>2 DEF ConnectedBySerial, TypeOK
      <4>2. ctx \in Addr => heap[ctx].serial \in Device \cup {NULL}
        BY DEF TypeOK, Block
      <4>9. ctx \in Addr
        BY <1>6 DEF reconnect, TypeOK, StackOK
      <4>3. QED
        BY <4>1, <4>2, <4>9, ConnectedType
    <3>2. QED
      BY <1>6, <2>2, <3>1 DEF reconnect, TypeOK, Opened, frame
  <2>3. QED
    BY <1>6, <2>1, <2>2 DEF reconnect
<1>7. CASE tryWrite
  <2>1. PICK h : (Works(h) /\ Receive(hid[h].dev)) \/ UNCHANGED <<attached, hid>>
    BY <1>7 DEF tryWrite
  <2>2. attached' \in SUBSET Device
    BY <2>1 DEF Receive, TypeOK
  <2>3. hid' \in [Handle -> [dev : Device \cup {NULL}, ok : BOOLEAN]]
    BY <2>1, LostType DEF Receive, TypeOK
  <2>4. CASE \E code \in {"OK", "failed"} : Return(code)
    BY <1>7, <2>2, <2>3, <2>4, ReturnType DEF tryWrite, memory, TypeOK
  <2>5. CASE ~ \E code \in {"OK", "failed"} : Return(code)
    BY <1>7, <2>2, <2>3, <2>5 DEF tryWrite, memory, frame, TypeOK
  <2>6. QED
    BY <2>4, <2>5
<1>8. CASE tryRead
  <2>1. heap' \in [Addr -> Block]
    BY <1>8, SizeAssumption DEF tryRead, TypeOK, Block
  <2>2. CASE \E code \in {"OK", "failed"} : Return(code)
    BY <1>8, <2>1, <2>2, ReturnType DEF tryRead, TypeOK
  <2>3. CASE ~ \E code \in {"OK", "failed"} : Return(code)
    BY <1>8, <2>1, <2>3 DEF tryRead, frame, TypeOK
  <2>4. QED
    BY <2>2, <2>3
<1>9. CASE getFrameSize
  <2>1. CASE Return("failed")
    BY <1>9, <2>1, ReturnType DEF getFrameSize, memory, TypeOK
  <2>2. CASE ~Return("failed")
    BY <1>9, <2>2 DEF getFrameSize, memory, frame, TypeOK, PlainOp, ReplyCmd, FormatCmd
  <2>3. QED
    BY <2>1, <2>2
<1>10. CASE getFrameRequest
  <2>1. CASE Return("failed")
    BY <1>10, <2>1, ReturnType DEF getFrameRequest, memory, TypeOK
  <2>2. CASE ~Return("failed")
    <3>1. want' \in Nat
      <4>1. heap[dc.api].pixels \in Nat
        BY <1>10 DEF getFrameRequest, TypeOK, StackOK, LoopOp, Block
      <4>2. QED
        BY <1>10, <2>2, <4>1, NumOfPacketsType DEF getFrameRequest
    <3>2. QED
      BY <1>10, <2>2, <3>1 DEF getFrameRequest, memory, TypeOK
  <2>3. QED
    BY <2>1, <2>2
<1>11. CASE getFramePacket
  <2>1. CASE Return("failed")
    BY <1>11, <2>1, ReturnType DEF getFramePacket, memory, TypeOK
  <2>2. CASE ~Return("failed")
    <3>1. copied' \in Nat
      <4>1. heap[dc.api].pixels \in Nat
        BY <1>11 DEF getFramePacket, TypeOK, StackOK, LoopOp, Block
      <4>2. QED
        BY <1>11, <2>2, <4>1, SizeAssumption DEF getFramePacket, TypeOK
    <3>2. QED
      BY <1>11, <2>2, <3>1 DEF getFramePacket, memory, TypeOK
  <2>3. QED
    BY <2>1, <2>2
<1>12. CASE getFrameDone
  BY <1>12, ReturnType DEF getFrameDone, memory, TypeOK
<1>13. CASE flashWrite
  <2>1. CASE Return("OK") \/ Return("failed")
    BY <1>13, <2>1, ReturnType DEF flashWrite, memory, TypeOK
  <2>2. CASE ~(Return("OK") \/ Return("failed"))
    BY <1>13, <2>2 DEF flashWrite, memory, frame, TypeOK
  <2>3. QED
    BY <2>1, <2>2
<1>14. CASE flashRead
  <2>1. CASE Return("OK") \/ Return("failed")
    BY <1>14, <2>1, ReturnType DEF flashRead, memory, TypeOK
  <2>2. CASE ~(Return("OK") \/ Return("failed"))
    BY <1>14, <2>2 DEF flashRead, memory, frame, TypeOK
  <2>3. QED
    BY <2>1, <2>2
<1>15. ASSUME NEW d \in Device, Unplug(d) \/ Plug(d)
       PROVE  TypeOK'
  BY <1>15, LostType DEF Unplug, Plug, TypeOK, memory, call, frame
<1>16. CASE UNCHANGED vars
  BY <1>16 DEF vars, memory, call, frame, TypeOK
<1>17. QED
  BY <1>1, <1>2, <1>3, <1>4, <1>5, <1>6, <1>7, <1>8, <1>9, <1>10, <1>11,
     <1>12, <1>13, <1>14, <1>15, <1>16 DEF Next, Step

\* A step keeps the functions on the stack consistent with where the call is.
LEMMA StackStep ==
  ASSUME TypeInv, [Next]_vars
  PROVE  StackOK'
<1> USE DEF TypeInv, TypeOK, StackOK, LoopOp, FormatCmd, ReplyCmd, SendCmd, PlainOp
<1>1. ASSUME NEW code, Return(code)
      PROVE  StackOK'
  BY <1>1 DEF Return
<1>2. ASSUME NEW s \in Device \cup {NULL}, Connect(s)
      PROVE  StackOK'
  BY <1>2 DEF Connect
<1>3. CASE disconnectDeviceContext \/ Refused
  BY <1>3 DEF disconnectDeviceContext, Refused, memory
<1>4. ASSUME NEW o \in PlainOp, BeginPlain(o)
      PROVE  StackOK'
  BY <1>4 DEF BeginPlain, memory
<1>5. ASSUME NEW o \in LoopOp, BeginLoop(o)
      PROVE  StackOK'
  <2>1. /\ ctx' = ctx /\ ctx # NULL /\ cmd' = cmd /\ op' = o /\ dc'.api = ctx
        /\ pc' \in {"open", IF o = "flash" THEN "flashWrite" ELSE "size"}
        /\ cmd = "none"
    BY <1>5 DEF BeginLoop, memory, Opened, NoPointers
  <2>2. QED
    BY <2>1
<1>6. CASE reconnect
  <2>1. CASE /\ ConnectedBySerial(heap[ctx].serial)
             /\ pc' = IF pc = "open" THEN Opened(op, cmd) ELSE "rewrite"
             /\ UNCHANGED <<op, cmd, dc, frame, ret>>
    <3>1. ctx' # NULL
      BY <2>1, MallocableType, NullAssumption DEF ConnectedBySerial, Connected
    <3>2. QED
      BY <1>6, <2>1, <3>1 DEF reconnect, Opened
  <2>2. QED
    BY <1>1, <1>6, <2>1 DEF reconnect
<1>7. CASE tryWrite
  BY <1>1, <1>7 DEF tryWrite, memory
<1>8. CASE tryRead
  <2>1. CASE op = "getFrame" /\ cmd \in FormatCmd /\ pc' = "request"
    <3>1. dc'.api # NULL /\ cmd' = "none" /\ ctx' = ctx /\ op' = op
      BY <1>8, <2>1 DEF tryRead, Return
    <3>2. QED
      BY <2>1, <3>1
  <2>2. QED
    BY <1>1, <1>8, <2>1 DEF tryRead
<1>9. CASE getFrameSize \/ getFrameRequest
  <2>1. CASE cmd' = "getFormat" /\ pc' \in {"open", "write"} /\ ~Return("failed")
    <3>1. dc'.api # NULL /\ ctx' = ctx /\ op' = op /\ op = "getFrame"
      BY <1>9, <2>1 DEF getFrameSize, getFrameRequest, memory
    <3>2. QED
      BY <2>1, <3>1
  <2>2. QED
    BY <1>1, <1>9, <2>1 DEF getFrameSize, getFrameRequest, memory
<1>10. CASE getFramePacket \/ getFrameDone
  BY <1>1, <1>10 DEF getFramePacket, getFrameDone, memory
<1>11. CASE flashWrite \/ flashRead
  BY <1>1, <1>11 DEF flashWrite, flashRead, memory
<1>12. ASSUME NEW d \in Device, Unplug(d) \/ Plug(d)
       PROVE  StackOK'
  BY <1>12 DEF Unplug, Plug, memory, call
<1>13. CASE UNCHANGED vars
  BY <1>13 DEF vars, memory, call
<1>14. QED
  BY <1>2, <1>3, <1>4, <1>5, <1>6, <1>7, <1>8, <1>9, <1>10, <1>11, <1>12, <1>13
     DEF Next, Step

\* Every variable keeps its type through every step, whatever malloc returns.
THEOREM TypeCorrect == Spec => []TypeOK
<1>1. TypeInv /\ [Next]_vars => TypeInv'
  BY TypeStep, StackStep DEF TypeInv
<1>2. TypeInv => TypeOK
  BY DEF TypeInv
<1>3. QED
  BY InitType, <1>1, <1>2, PTL DEF Spec
-----------------------------------------------------------------------------
(* Memory, for every allocator, while no context is exposed. *)

\* A connection leaves a live context whose handle is open on the device of its
\* serial number, wherever it is allocated.
LEMMA ConnectedAnew ==
  ASSUME TypeOK, NEW serial \in Device \cup {NULL},
         NEW d \in Device, serial \in {NULL, d}, Connected(serial, d)
  PROVE  /\ ctx' \in Addr /\ heap'[ctx'].live
         /\ heap'[ctx'].handle # NULL /\ heap'[ctx'].serial = serial
         /\ hid'[heap'[ctx'].handle].dev = d
<1>1. PICK a \in Mallocable, h \in Handle :
        /\ heap' = [Freed EXCEPT ![a] = Context(h, serial)]
        /\ hid' = [hid EXCEPT ![h] = [dev |-> d, ok |-> TRUE]]
        /\ ctx' = a
  BY DEF Connected
<1>2. heap'[a] = Context(h, serial) /\ a \in Addr
  BY <1>1, FreedType, MallocableType
<1>3. hid'[h].dev = d
  BY <1>1 DEF TypeOK
<1>4. QED
  BY <1>1, <1>2, <1>3, ContextType, NullAssumption

\* malloc returns the block that was freed, or another that was not in use.
LEMMA MallocableIs ==
  ASSUME TypeOK, NEW a \in Mallocable
  PROVE  a \in Addr /\ (a = ctx \/ ~heap[a].live)
  BY FreedType DEF Mallocable, Freed, TypeOK

\* A reconnection that succeeds leaves the context in its place if the call holds
\* a local copy of its address.
LEMMA ConnectedInPlace ==
  ASSUME TypeOK, ~Exposing, ctx # NULL, dc # NoPointers, NEW serial \in Device \cup {NULL},
         NEW d \in Device, Connected(serial, d)
  PROVE  ctx' = ctx
<1>1. PICK a \in Mallocable, h \in Handle :
        heap' = [Freed EXCEPT ![a] = Context(h, serial)] /\ ctx' = a
  BY DEF Connected
<1>2. heap'[a].live /\ a \in Addr
  BY <1>1, FreedType, MallocableType, ContextType
<1>3. QED
  BY <1>1, <1>2, MallocableIs DEF Exposing

\* A failed connection through a live context leaves an empty live context at
\* the same address.
LEMMA NotConnectedInPlace ==
  ASSUME TypeOK, ~Exposing, ctx # NULL, ctx' = ctx, NotConnected
  PROVE  /\ heap'[ctx] = NULL_DEVICE_CONTEXT
         /\ heap'[ctx].live /\ heap'[ctx].handle = NULL /\ heap'[ctx].serial = NULL
<1>1. heap' = [Freed EXCEPT ![ctx] = NULL_DEVICE_CONTEXT]
  <2>1. PICK a \in Mallocable : heap' = [Freed EXCEPT ![a] = NULL_DEVICE_CONTEXT]
    BY DEF NotConnected
  <2>2. a \in Addr /\ heap'[a].live
    BY <2>1, FreedType, MallocableType, ContextType DEF NULL_DEVICE_CONTEXT
  <2>3. QED
    BY <2>1, <2>2, MallocableIs DEF Exposing
<1>2. heap'[ctx] = NULL_DEVICE_CONTEXT
  BY <1>1, FreedType DEF TypeOK
<1>3. QED
  BY <1>2, ContextType DEF NULL_DEVICE_CONTEXT

\* A handle that fails is still open on the device it was opened on.
LEMMA LostDevice ==
  ASSUME TypeOK, NEW d
  PROVE  \A h \in Handle : Lost(d)[h].dev = hid[h].dev
  BY DEF Lost, TypeOK

\* Before the first connect there is nothing to dereference.
LEMMA InitMemory == Init => MemoryInv
  BY InitType DEF Init, MemoryInv, PointersOK, ContextOK, SerialNamesDevice,
                  NoPointers, LoopOp, FormatCmd

\* A step of a call, a connection or a change on the bus leaves the pointers on
\* the stack equal to ctx, and ctx at a live block whose handle is open when the
\* call is past its handle test.
LEMMA MemoryStep ==
  ASSUME MemoryInv, ~Exposing, [Next]_vars
  PROVE  PointersOK' /\ ContextOK'
<1> USE DEF MemoryInv, TypeInv
<1>1. ASSUME NEW code, Return(code), heap' = heap, ctx' = ctx,
             \A h \in Handle : hid'[h].dev = hid[h].dev
      PROVE  PointersOK' /\ ContextOK'
  BY <1>1 DEF Return, PointersOK, ContextOK, SerialNamesDevice, LoopOp, FormatCmd, TypeOK, Block
<1>2. ASSUME NEW s \in Device \cup {NULL}, Connect(s)
      PROVE  PointersOK' /\ ContextOK'
  <2>1. pc = "idle" /\ op = "none" /\ cmd = "none"
    BY <1>2 DEF Connect, StackOK, LoopOp
  <2>2. pc' = "idle" /\ op' = "none" /\ cmd' = "none"
    BY <1>2, <2>1 DEF Connect
  <2>3. SUFFICES /\ ctx' # NULL => heap'[ctx'].live
                 /\ ctx' # NULL /\ heap'[ctx'].handle # NULL
                      => hid'[heap'[ctx'].handle].dev # NULL
                 /\ SerialNamesDevice'
    BY <2>2 DEF PointersOK, ContextOK, LoopOp, FormatCmd
  <2>4. ASSUME NEW d \in Device, s \in {NULL, d}, Connected(s, d)
        PROVE  /\ ctx' # NULL => heap'[ctx'].live
               /\ ctx' # NULL /\ heap'[ctx'].handle # NULL
                    => hid'[heap'[ctx'].handle].dev # NULL
               /\ SerialNamesDevice'
    BY <2>4, ConnectedAnew, NullAssumption DEF SerialNamesDevice
  <2>5. CASE NotConnected /\ ctx' = NULL
    BY <2>5 DEF SerialNamesDevice
  <2>6. CASE NotConnected /\ ctx' = ctx /\ ctx # NULL
    BY <2>6, NotConnectedInPlace DEF SerialNamesDevice
  <2>7. CASE connectToDeviceBySerial(s)
    BY <2>4, <2>5, <2>6, <2>7 DEF connectToDeviceBySerial, ConnectedBySerial, TypeOK
  <2>8. CASE s # NULL /\ connectToDeviceByIndex(s)
    BY <2>4, <2>5, <2>8 DEF connectToDeviceByIndex
  <2>9. QED
    BY <1>2, <2>7, <2>8 DEF Connect
<1>3. CASE disconnectDeviceContext
  BY <1>3 DEF disconnectDeviceContext, PointersOK, ContextOK, SerialNamesDevice,
              StackOK, LoopOp, FormatCmd
<1>4. CASE Refused
  BY <1>4 DEF Refused, memory, PointersOK, ContextOK, SerialNamesDevice
<1>5. ASSUME NEW o \in PlainOp, BeginPlain(o)
      PROVE  PointersOK' /\ ContextOK'
  BY <1>5 DEF BeginPlain, memory, PointersOK, ContextOK, SerialNamesDevice,
              PlainOp, LoopOp, ReplyCmd, SendCmd, FormatCmd, NoPointers
<1>6. ASSUME NEW o \in LoopOp, BeginLoop(o)
      PROVE  PointersOK' /\ ContextOK'
  <2>1. /\ heap' = heap /\ ctx' = ctx /\ hid' = hid /\ ctx # NULL
        /\ dc'.api = ctx /\ cmd' = "none"
        /\ pc' \notin {"reopen", "rewrite"}
        /\ pc' # "open" => heap[ctx].handle # NULL
    BY <1>6 DEF BeginLoop, memory, Opened, NoPointers, StackOK, LoopOp
  <2>2. QED
    BY <2>1 DEF PointersOK, ContextOK, SerialNamesDevice, FormatCmd
<1>7. CASE reconnect
  <2>1. ctx # NULL /\ ctx \in Addr
    BY <1>7 DEF reconnect, StackOK, TypeOK
  <2>2. ASSUME NEW d \in Device, heap[ctx].serial \in {NULL, d},
               Connected(heap[ctx].serial, d),
               pc' = IF pc = "open" THEN Opened(op, cmd) ELSE "rewrite",
               UNCHANGED <<op, cmd, dc, frame, ret>>
        PROVE  PointersOK' /\ ContextOK'
    <3>1. heap[ctx].serial \in Device \cup {NULL}
      BY <2>1 DEF TypeOK, Block
    <3>2. /\ ctx' \in Addr /\ heap'[ctx'].live /\ heap'[ctx'].handle # NULL
          /\ heap'[ctx'].serial = heap[ctx].serial
          /\ hid'[heap'[ctx'].handle].dev = d
      BY <2>1, <2>2, <3>1, ConnectedAnew
    <3>3. pc' = "rewrite" => pc = "reopen"
      BY <1>7, <2>2 DEF reconnect, Opened
    <3>4. pc' # "reopen" /\ UNCHANGED <<op, cmd, dc>>
      BY <2>2 DEF Opened
    <3>5. ContextOK'
      BY <3>2, <2>2, NullAssumption DEF ContextOK, SerialNamesDevice
    <3>6. CASE dc = NoPointers
      <4>1. op \notin LoopOp /\ cmd \notin FormatCmd /\ pc # "reopen"
        BY <2>1, <3>6 DEF PointersOK, NoPointers
      <4>2. QED
        BY <3>2, <3>3, <3>4, <3>5, <4>1 DEF PointersOK
    <3>7. CASE dc # NoPointers
      <4>1. ctx' = ctx
        BY <2>1, <2>2, <3>1, <3>7, ConnectedInPlace
      <4>2. QED
        BY <3>2, <3>3, <3>4, <3>5, <4>1 DEF PointersOK
    <3>8. QED
      BY <3>6, <3>7
  <2>3. CASE NotConnected /\ UNCHANGED ctx /\ Return("failed")
    BY <2>1, <2>3, NotConnectedInPlace
       DEF Return, PointersOK, ContextOK, SerialNamesDevice, LoopOp, FormatCmd
  <2>4. QED
    BY <1>7, <2>2, <2>3 DEF reconnect, ConnectedBySerial, TypeOK
<1>8. CASE tryWrite
  <2>1. heap' = heap /\ ctx' = ctx /\ \A h \in Handle : hid'[h].dev = hid[h].dev
    BY <1>8, LostDevice DEF tryWrite, memory, Receive
  <2>2. ctx \in Addr /\ heap[ctx].handle \in Handle
    BY <1>8 DEF tryWrite, StackOK, ContextOK, TypeOK, Block
  <2>3. CASE \E code : Return(code)
    BY <1>1, <2>1, <2>3
  <2>4. CASE ~ \E code : Return(code)
    <3>1. /\ op' = op /\ cmd' = cmd
          /\ dc'.api = dc.api /\ dc'.format = dc.format
          /\ pc' = "reopen" => dc'.write = ctx
          /\ pc' \in {"reopen", "packet", "read"}
      BY <1>8, <2>4 DEF tryWrite, TypeOK
    <3>2. QED
      BY <1>8, <2>1, <2>2, <3>1
         DEF tryWrite, PointersOK, ContextOK, SerialNamesDevice, TypeOK
  <2>5. QED
    BY <2>3, <2>4
<1>9. CASE tryRead
  <2>1. hid' = hid /\ ctx' = ctx /\ ctx \in Addr
    BY <1>9 DEF tryRead, StackOK, TypeOK
  <2>2. /\ heap'[ctx].live = heap[ctx].live
        /\ heap'[ctx].handle = heap[ctx].handle
        /\ heap'[ctx].serial = heap[ctx].serial
    <3>1. heap' = heap \/ \E n : heap' = [heap EXCEPT ![dc.format].pixels = n]
      BY <1>9 DEF tryRead
    <3>2. QED
      BY <2>1, <3>1 DEF TypeOK, Block
  <2>3. heap[ctx].handle # NULL
    BY <1>9 DEF tryRead, ContextOK
  <2>4. CASE \E code : Return(code)
    BY <2>1, <2>2, <2>3, <2>4
       DEF Return, PointersOK, ContextOK, SerialNamesDevice, LoopOp, FormatCmd
  <2>5. CASE ~ \E code : Return(code)
    <3>1. /\ op' = op /\ cmd' = "none" /\ pc' = "request" /\ dc'.api = dc.api
      BY <1>9, <2>5 DEF tryRead, TypeOK
    <3>2. QED
      BY <2>1, <2>2, <2>3, <3>1 DEF PointersOK, ContextOK, SerialNamesDevice, FormatCmd
  <2>6. QED
    BY <2>4, <2>5
<1>10. CASE getFrameSize
  <2>1. CASE \E code : Return(code)
    BY <1>1, <1>10, <2>1 DEF getFrameSize, memory
  <2>2. CASE ~ \E code : Return(code)
    <3>1. heap[ctx].handle # NULL
      BY <1>10 DEF getFrameSize, ContextOK
    <3>2. /\ heap' = heap /\ ctx' = ctx /\ hid' = hid /\ op' = op
          /\ dc'.api = dc.api /\ pc' \in {"request", "write"}
          /\ cmd' \in FormatCmd => (cmd' = cmd /\ dc' = dc) \/ dc'.format = ctx
      BY <1>10, <2>2, <3>1 DEF getFrameSize, memory, TypeOK
    <3>3. QED
      BY <3>1, <3>2 DEF PointersOK, ContextOK, SerialNamesDevice
  <2>3. QED
    BY <2>1, <2>2
<1>11. CASE getFrameRequest
  <2>1. CASE \E code : Return(code)
    BY <1>1, <1>11, <2>1 DEF getFrameRequest, memory
  <2>2. CASE ~ \E code : Return(code)
    BY <1>11, <2>2 DEF getFrameRequest, memory, PointersOK, ContextOK,
                       SerialNamesDevice, FormatCmd
  <2>3. QED
    BY <2>1, <2>2
<1>12. CASE getFramePacket \/ getFrameDone
  <2>1. CASE \E code : Return(code)
    BY <1>1, <1>12, <2>1 DEF getFramePacket, getFrameDone, memory
  <2>2. CASE ~ \E code : Return(code)
    BY <1>12, <2>2 DEF getFramePacket, getFrameDone, memory, PointersOK, ContextOK,
                       SerialNamesDevice
  <2>3. QED
    BY <2>1, <2>2
<1>13. CASE flashWrite \/ flashRead
  <2>1. CASE \E code : Return(code)
    BY <1>1, <1>13, <2>1 DEF flashWrite, flashRead, memory
  <2>2. CASE ~ \E code : Return(code)
    BY <1>13, <2>2 DEF flashWrite, flashRead, memory, frame, PointersOK, ContextOK,
                       SerialNamesDevice
  <2>3. QED
    BY <2>1, <2>2
<1>14. ASSUME NEW d \in Device, Unplug(d) \/ Plug(d)
       PROVE  PointersOK' /\ ContextOK'
  <2>1. \A h \in Handle : hid'[h].dev = hid[h].dev
    BY <1>14, LostDevice DEF Unplug, Plug
  <2>2. ctx # NULL /\ heap[ctx].handle # NULL => heap[ctx].handle \in Handle
    BY DEF TypeOK, Block
  <2>3. QED
    BY <1>14, <2>1, <2>2 DEF Unplug, Plug, memory, call, PointersOK, ContextOK,
                             SerialNamesDevice
<1>15. CASE UNCHANGED vars
  BY <1>15 DEF vars, memory, call, PointersOK, ContextOK, SerialNamesDevice
<1>16. QED
  BY <1>2, <1>3, <1>4, <1>5, <1>6, <1>7, <1>8, <1>9, <1>10, <1>11, <1>12, <1>13,
     <1>14, <1>15 DEF Next, Step

\* The three memory properties follow from the invariant.
LEMMA MemoryInvSafe == MemoryInv => NoUseAfterFree /\ HandleOpen /\ SerialNamesDevice
<1> SUFFICES ASSUME MemoryInv
             PROVE  NoUseAfterFree /\ HandleOpen /\ SerialNamesDevice
  OBVIOUS
<1> USE DEF MemoryInv, TypeInv
<1>1. Dereferenced \subseteq {ctx} \ {NULL}
  BY DEF Dereferenced, PointersOK, StackOK, TypeOK, LoopOp
<1>2. NoUseAfterFree
  BY <1>1 DEF NoUseAfterFree, PointersOK, TypeOK
<1>3. HandleOpen
  BY DEF HandleOpen, PointersOK, StackOK, ContextOK, LoopOp
<1>4. QED
  BY <1>2, <1>3 DEF ContextOK

-----------------------------------------------------------------------------
(* A getFrame copies a whole frame: the count of its packets, rounded up and *)
(* kept in 8 bits, covers every frame size a device reports, and a           *)
(* reconnection never has it copy more.                                      *)

\* A context has no frame size, or one a device has reported.
PixelsOK == \A a \in Addr : heap[a].pixels \in Format \cup {0}

\* The counters of a getFrame: it asks for the packets of its frame, unless a
\* reconnection has cleared the frame size since, and copies whole packets
\* until the frame is full.
CountOK ==
  /\ pc = "idle" \/ (op = "getFrame" /\ pc # "packet") => received = 0 /\ copied = 0
  /\ cmd = "getFrame" => heap[ctx].pixels = 0 \/ want = NumOfPackets(heap[ctx].pixels)
  /\ pc = "packet" =>
       copied = IF heap[ctx].pixels <= received * PixelsPerPacket
                THEN heap[ctx].pixels ELSE received * PixelsPerPacket

FrameInv == MemoryInv /\ PixelsOK /\ CountOK
-----------------------------------------------------------------------------
\* The packets of a frame hold all its pixels.
LEMMA PacketsCover ==
  ASSUME NEW n \in Format
  PROVE  NumOfPackets(n) * PixelsPerPacket >= n
<1> DEFINE P == PixelsPerPacket
           q == n \div P
           r == n % P
<1>1. P \in Nat \ {0} /\ n \in Nat /\ n <= 255 * P
  BY SizeAssumption
<1> HIDE DEF P
<1>2. q \in Nat /\ r \in Nat /\ r < P /\ n = q * P + r
  BY <1>1, SMTT(30)
<1> HIDE DEF q, r
<1>3. CASE r = 0
  <2>1. q <= 255
    BY <1>1, <1>2, <1>3, SMTT(30)
  <2>2. NumOfPackets(n) = q
    BY <2>1, <1>2, <1>3 DEF NumOfPackets, P, q, r
  <2>3. QED
    BY <2>2, <1>2, <1>1, <1>3 DEF P
<1>4. CASE r # 0
  <2>1. q + 1 <= 255
    BY <1>1, <1>2, <1>4, SMTT(30)
  <2>2. NumOfPackets(n) = q + 1
    BY <2>1, <1>2, <1>4 DEF NumOfPackets, P, q, r
  <2>3. (q + 1) * P >= n
    BY <1>1, <1>2, SMTT(30)
  <2>4. QED
    BY <2>2, <2>3 DEF P
<1>5. QED
  BY <1>3, <1>4

\* Frame sizes come from the device; connecting clears them.
LEMMA PixelsStep ==
  ASSUME TypeInv, PixelsOK, [Next]_vars
  PROVE  PixelsOK'
<1> USE DEF TypeInv
<1>1. ASSUME heap' = heap PROVE PixelsOK'
  BY <1>1 DEF PixelsOK
<1>2. FreeBlock.pixels = 0 /\ NULL_DEVICE_CONTEXT.pixels = 0
  BY ContextType DEF FreeBlock, NULL_DEVICE_CONTEXT, Context
<1>3. \A a \in Addr : Freed[a].pixels \in Format \cup {0}
  BY <1>2 DEF Freed, PixelsOK, TypeOK
<1>4. ASSUME NEW s \in Device \cup {NULL}, NEW d \in Device, Connected(s, d)
      PROVE  PixelsOK'
  BY <1>3, <1>4, ContextType, FreedType DEF Connected, PixelsOK
<1>5. ASSUME NotConnected PROVE PixelsOK'
  BY <1>2, <1>3, <1>5, FreedType DEF NotConnected, PixelsOK
<1>6. ASSUME NEW s \in Device \cup {NULL}, ConnectedBySerial(s)
      PROVE  PixelsOK'
  BY <1>4, <1>6 DEF ConnectedBySerial, TypeOK
<1>7. ASSUME NEW s \in Device \cup {NULL}, Connect(s) PROVE PixelsOK'
  <2>1. CASE connectToDeviceBySerial(s)
    BY <1>5, <1>6, <2>1 DEF connectToDeviceBySerial
  <2>2. CASE s # NULL /\ connectToDeviceByIndex(s)
    BY <1>4, <1>5, <2>2 DEF connectToDeviceByIndex
  <2>3. QED
    BY <1>7, <2>1, <2>2 DEF Connect
<1>8. CASE disconnectDeviceContext
  BY <1>3, <1>8 DEF disconnectDeviceContext, PixelsOK
<1>9. CASE reconnect
  <2>1. heap[ctx].serial \in Device \cup {NULL}
    BY <1>9 DEF reconnect, StackOK, TypeOK, Block
  <2>2. QED
    BY <1>5, <1>6, <1>9, <2>1 DEF reconnect
<1>10. CASE tryRead
  <2>1. ASSUME NEW n \in Format, heap' = [heap EXCEPT ![dc.format].pixels = n]
        PROVE  PixelsOK'
    <3>1. \A a \in Addr : heap'[a].pixels \in {heap[a].pixels, n}
      BY <2>1 DEF TypeOK, Block
    <3>2. QED
      BY <3>1 DEF PixelsOK
  <2>2. QED
    BY <1>1, <1>10, <2>1 DEF tryRead
<1>11. QED
  BY <1>1, <1>7, <1>8, <1>9, <1>10
     DEF Next, Step, Refused, BeginPlain, BeginLoop, tryWrite, getFrameSize, getFrameRequest,
         getFramePacket, getFrameDone, flashWrite, flashRead, Unplug, Plug, memory, vars

\* A reconnection leaves a context without a frame size.
LEMMA ReconnectCount ==
  ASSUME MemoryInv, CountOK, reconnect
  PROVE  CountOK'
<1> USE DEF MemoryInv, TypeInv
<1>1. CASE Return("failed")
  BY <1>1 DEF Return, CountOK
<1>2. CASE ConnectedBySerial(heap[ctx].serial) /\ UNCHANGED <<op, cmd, dc, frame, ret>>
  <2>1. PICK d \in attached : Connected(heap[ctx].serial, d) /\ heap[ctx].serial \in {NULL, d}
    BY <1>2 DEF ConnectedBySerial
  <2>2. ctx # NULL /\ heap[ctx].live /\ d \in Device /\ heap[ctx].serial \in Device \cup {NULL}
    BY <1>2 DEF reconnect, StackOK, PointersOK, TypeOK, Block
  <2>3. PICK a \in Mallocable, h \in Handle :
          heap' = [Freed EXCEPT ![a] = Context(h, heap[ctx].serial)] /\ ctx' = a
    BY <2>1 DEF Connected
  <2>4. heap'[ctx'].pixels = 0
    BY <2>2, <2>3, FreedType, MallocableType, ContextType
  <2>5. pc \in {"open", "reopen"} /\ pc' \notin {"packet", "idle"}
    <3>1. pc \in {"open", "reopen"} /\ op # "none"
      BY DEF reconnect, StackOK
    <3>2. pc' \in {"write", "flashWrite", "size", "rewrite"} \/ Return("failed")
      BY DEF reconnect, Opened
    <3>3. QED
      BY <1>2, <3>1, <3>2 DEF Return
  <2>6. QED
    BY <1>2, <2>4, <2>5 DEF CountOK, frame
<1>3. QED
  BY <1>1, <1>2 DEF reconnect

\* A packet that arrives fills the buffer by a packet, or to the end.
LEMMA PacketCount ==
  ASSUME MemoryInv, PixelsOK, CountOK, getFramePacket
  PROVE  CountOK'
<1> USE DEF MemoryInv, TypeInv
<1>1. CASE Return("failed")
  BY <1>1 DEF Return, CountOK
<1>2. CASE ~Return("failed")
  <2> DEFINE n == heap[ctx].pixels
             P == PixelsPerPacket
  <2>1. /\ pc = "packet" /\ pc' = pc /\ op' = op /\ cmd' = cmd /\ want' = want
        /\ heap' = heap /\ ctx' = ctx /\ dc.api = ctx
        /\ received' = received + 1
        /\ copied' = IF n <= copied THEN copied
                     ELSE IF n < copied + P THEN n ELSE copied + P
    BY <1>2 DEF getFramePacket, memory, StackOK, PointersOK, LoopOp
  <2>2. n \in Nat /\ P \in Nat \ {0} /\ received \in Nat
    BY <2>1, SizeAssumption DEF StackOK, TypeOK, Block
  <2>3. copied = IF n <= received * P THEN n ELSE received * P
    BY <2>1 DEF CountOK
  <2>4. copied' = IF n <= (received + 1) * P THEN n ELSE (received + 1) * P
    <3> HIDE DEF n, P
    <3>1. (received + 1) * P = received * P + P /\ received * P \in Nat
      BY <2>2, SMTT(30)
    <3>2. QED
      BY <2>1, <2>2, <2>3, <3>1, SMTT(30)
  <2>5. QED
    BY <2>1, <2>4 DEF CountOK
<1>3. QED
  BY <1>1, <1>2

\* A step of a call keeps its counters; the others find no call under way.
LEMMA CountStep ==
  ASSUME MemoryInv, PixelsOK, CountOK, [Next]_vars
  PROVE  CountOK'
<1> USE DEF MemoryInv, TypeInv
<1>1. ASSUME pc' = pc, op' = op, cmd' = cmd, UNCHANGED frame, UNCHANGED memory
      PROVE  CountOK'
  BY <1>1 DEF CountOK, frame, memory
<1>2. ASSUME NEW code, Return(code) PROVE CountOK'
  BY <1>2 DEF Return, CountOK
<1>3. ASSUME pc = "idle", UNCHANGED <<pc, op, cmd, frame>> PROVE CountOK'
  BY <1>3 DEF StackOK, LoopOp, CountOK, frame
<1>4. ASSUME NEW o \in PlainOp, BeginPlain(o) PROVE CountOK'
  BY <1>4 DEF BeginPlain, CountOK, PlainOp, ReplyCmd, SendCmd, FormatCmd
<1>5. ASSUME NEW o \in LoopOp, BeginLoop(o) PROVE CountOK'
  <2>1. received = 0 /\ copied = 0 /\ cmd # "getFrame"
    BY <1>5 DEF BeginLoop, CountOK, StackOK
  <2>2. pc' # "idle" /\ pc' # "packet" /\ UNCHANGED <<cmd, received, copied>>
    BY <1>5 DEF BeginLoop, Opened
  <2>3. QED
    BY <2>1, <2>2 DEF CountOK
<1>6. CASE tryWrite
  <2>1. CASE cmd = "getFrame" /\ pc' = "packet" /\ op' = op /\ cmd' = cmd
    <3>1. /\ pc # "packet" /\ op = "getFrame"
          /\ UNCHANGED frame /\ UNCHANGED memory
      BY <1>6, <2>1 DEF tryWrite, StackOK, Return
    <3>2. received = 0 /\ copied = 0 /\ heap[ctx].pixels \in Nat
      BY <3>1 DEF CountOK, StackOK, TypeOK, Block, LoopOp
    <3>3. 0 * PixelsPerPacket = 0
      BY SizeAssumption
    <3>4. QED
      BY <2>1, <3>1, <3>2, <3>3 DEF CountOK, frame, memory
  <2>2. CASE pc' # "packet" /\ pc' # "idle" /\ op' = op /\ cmd' = cmd /\ UNCHANGED frame
    BY <1>6, <2>2 DEF tryWrite, CountOK, frame, memory
  <2>3. QED
    BY <1>2, <1>6, <2>1, <2>2 DEF tryWrite
<1>7. CASE tryRead
  <2>1. cmd # "getFrame" /\ pc = "read"
    BY <1>7 DEF tryRead, StackOK, ReplyCmd, FormatCmd
  <2>2. CASE pc' = "request" /\ op' = op /\ cmd' = "none" /\ UNCHANGED frame
    BY <2>1, <2>2 DEF CountOK, frame
  <2>3. QED
    BY <1>2, <1>7, <2>2 DEF tryRead
<1>8. CASE getFrameSize
  <2>1. op = "getFrame" /\ pc = "size"
    BY <1>8 DEF getFrameSize, StackOK
  <2>2. CASE /\ pc' \in {"request", "open", "write"} /\ cmd' \in {cmd, "getFormat"}
             /\ UNCHANGED <<op, frame>>
    BY <1>8, <2>1, <2>2 DEF getFrameSize, CountOK, frame, memory
  <2>3. QED
    BY <1>2, <1>8, <2>2 DEF getFrameSize
<1>9. CASE getFrameRequest
  <2>1. op = "getFrame" /\ pc = "request" /\ dc.api = ctx
    BY <1>9 DEF getFrameRequest, StackOK, PointersOK, LoopOp
  <2>2. QED
    BY <1>2, <1>9, <2>1 DEF getFrameRequest, CountOK, memory
<1>10. CASE flashWrite \/ flashRead
  <2>1. op = "flash" /\ cmd # "getFrame"
    BY <1>10 DEF flashWrite, flashRead, StackOK
  <2>2. CASE pc' \in {"flashRead", "flashWrite"} /\ op' = op /\ cmd' = cmd
    BY <2>1, <2>2 DEF CountOK
  <2>3. QED
    BY <1>2, <1>10, <2>2 DEF flashWrite, flashRead
<1>11. QED
  BY <1>1, <1>2, <1>3, <1>4, <1>5, <1>6, <1>7, <1>8, <1>9, <1>10, ReconnectCount, PacketCount
     DEF Next, Step, Connect, disconnectDeviceContext, Refused, getFrameDone, Unplug, Plug,
         vars, memory, call, frame

\* No context has a frame size at first, and no packet was counted.
LEMMA FrameInit == Init => FrameInv
  BY InitMemory, FreeBlockType, ContextType
     DEF Init, FrameInv, PixelsOK, CountOK, FreeBlock, NULL_DEVICE_CONTEXT, Context

\* A getFrame that leaves its loop has copied the frame its context describes.
LEMMA FrameInvCopied == FrameInv => FrameCopied
<1> SUFFICES ASSUME FrameInv, pc = "packet", received = want
             PROVE  copied = heap[ctx].pixels
  BY DEF FrameCopied
<1>1. /\ heap[ctx].pixels \in Format \cup {0} /\ received \in Nat
      /\ cmd = "getFrame"
  BY DEF FrameInv, MemoryInv, TypeInv, StackOK, TypeOK, PixelsOK
<1>2. CASE heap[ctx].pixels = 0
  BY <1>1, <1>2, SizeAssumption DEF FrameInv, CountOK
<1>3. CASE heap[ctx].pixels # 0
  BY <1>1, <1>3, PacketsCover DEF FrameInv, CountOK
<1>4. QED
  BY <1>2, <1>3

\* The types need no allocator, the rest a context that is not exposed.
ExposedInv == TypeInv /\ (~exposed => FrameInv)

\* libspectrometer.c:70 to 103 and internal.c:41 to 54: whatever block malloc
\* returns, and whatever the bus does during a call, until a connection that moves
\* the context fails or is made by a call that holds its address, no call uses a
\* freed block or a handle that is not open, a saved serial number is that of the
\* open device, and a getFrame copies every pixel of its frame and no more.
THEOREM ContextSound ==
  ExposedSpec => [](MemorySound /\ HandleSound /\ SerialSound /\ FrameSound)
<1>1. ExposedInit => ExposedInv
  BY FrameInit, InitType DEF ExposedInit, ExposedInv
<1>2. ExposedInv /\ [ExposedNext]_exposedVars => ExposedInv'
  <2> SUFFICES ASSUME ExposedInv, [ExposedNext]_exposedVars PROVE ExposedInv'
    OBVIOUS
  <2>1. [Next]_vars
    BY DEF ExposedNext, exposedVars
  <2>2. TypeInv'
    BY <2>1, TypeStep, StackStep DEF ExposedInv, TypeInv
  <2>3. ASSUME ~exposed' PROVE FrameInv'
    <3>1. CASE UNCHANGED exposedVars
      <4>1. UNCHANGED vars /\ ~exposed
        BY <2>3, <3>1 DEF exposedVars
      <4>2. UNCHANGED <<heap, ctx>> /\ ~Exposing
        BY <4>1 DEF vars, memory, Exposing
      <4>3. QED
        BY <2>1, <2>2, <4>1, <4>2, MemoryStep, PixelsStep, CountStep
           DEF ExposedInv, FrameInv, MemoryInv
    <3>2. CASE ExposedNext
      <4>1. ~exposed /\ ~Exposing
        BY <2>3, <3>2 DEF ExposedNext
      <4>2. QED
        BY <2>1, <2>2, <4>1, MemoryStep, PixelsStep, CountStep
           DEF ExposedInv, FrameInv, MemoryInv
    <3>3. QED
      BY <3>1, <3>2
  <2>4. QED
    BY <2>2, <2>3 DEF ExposedInv
<1>3. ExposedInv => MemorySound /\ HandleSound /\ SerialSound /\ FrameSound
  BY MemoryInvSafe, FrameInvCopied
     DEF ExposedInv, FrameInv, MemorySound, HandleSound, SerialSound, FrameSound
<1>4. QED
  BY <1>1, <1>2, <1>3, PTL DEF ExposedSpec
-----------------------------------------------------------------------------
(* A call comes to its end, whatever the allocator: this part rests on the   *)
(* types alone.                                                              *)

\* The replies of a loop are counted up to the number asked for, in a loop only.
LoopOK ==
  /\ pc \notin {"packet", "flashWrite", "flashRead"} => received = 0
  /\ pc = "packet" => received <= want
  /\ pc = "flashWrite" => received < want \/ (want = 0 /\ received = 0)
  /\ pc = "flashRead" => received < want

CallInv == TypeInv /\ LoopOK

\* A call that returns has nothing left to do.
LEMMA ReturnShrinks ==
  ASSUME NEW code, Return(code), StepsToCome \in Int, StepsToCome > 0
  PROVE  StepsToCome' < StepsToCome
<1>1. StepsToCome' = 0
  BY DEF Return, StepsToCome
<1>2. QED
  BY <1>1

\* A call under way has steps to come.
LEMMA StepsLeft ==
  ASSUME CallInv, pc # "idle"
  PROVE  StepsToCome \in Int /\ StepsToCome > 0
<1>1. /\ want \in Nat /\ received \in Nat /\ MaxPackets \in Nat
      /\ pc \in {"open", "write", "reopen", "rewrite", "read", "size",
                 "request", "packet", "flashWrite", "flashRead"}
  BY SizeAssumption DEF CallInv, TypeInv, TypeOK
<1>2. AfterExchange \in Nat
  BY <1>1 DEF AfterExchange
<1>3. CASE pc = "packet"
  BY <1>1, <1>3 DEF CallInv, LoopOK, StepsToCome
<1>4. CASE pc = "flashWrite"
  BY <1>1, <1>4 DEF CallInv, LoopOK, StepsToCome
<1>5. CASE pc = "flashRead"
  BY <1>1, <1>5 DEF CallInv, LoopOK, StepsToCome
<1>6. CASE pc = "size"
  BY <1>1, <1>6 DEF StepsToCome
<1>7. CASE pc = "request"
  BY <1>1, <1>7 DEF StepsToCome
<1>8. CASE pc = "open"
  BY <1>1, <1>2, <1>8 DEF StepsToCome
<1>9. CASE pc = "write"
  BY <1>1, <1>2, <1>9 DEF StepsToCome
<1>10. CASE pc = "reopen"
  BY <1>1, <1>2, <1>10 DEF StepsToCome
<1>11. CASE pc = "rewrite"
  BY <1>1, <1>2, <1>11 DEF StepsToCome
<1>12. CASE pc = "read"
  BY <1>1, <1>2, <1>12 DEF StepsToCome
<1>13. QED
  BY <1>1, <1>3, <1>4, <1>5, <1>6, <1>7, <1>8, <1>9, <1>10, <1>11, <1>12

\* The counters stay in their bounds.
LEMMA LoopStep ==
  ASSUME CallInv, [Next]_vars
  PROVE  LoopOK'
<1> USE DEF CallInv, TypeInv
<1>1. ASSUME NEW code, Return(code) PROVE LoopOK'
  BY <1>1 DEF Return, LoopOK
<1>2. ASSUME UNCHANGED <<pc, want, received>> PROVE LoopOK'
  BY <1>2 DEF LoopOK
<1>3. ASSUME NEW o \in PlainOp, BeginPlain(o) PROVE LoopOK'
  BY <1>3 DEF BeginPlain, LoopOK, frame
<1>4. ASSUME NEW o \in LoopOp, BeginLoop(o) PROVE LoopOK'
  <2>1. /\ received' = 0 /\ want' \in Nat
        /\ pc' \in {"open", "flashWrite", "size"}
    BY <1>4, SizeAssumption DEF BeginLoop, Opened, LoopOK
  <2>2. QED
    BY <2>1 DEF LoopOK
<1>5. CASE reconnect
  <2>1. CASE /\ pc' = IF pc = "open" THEN Opened(op, cmd) ELSE "rewrite"
             /\ UNCHANGED <<op, cmd, dc, frame, ret>>
    <3>1. /\ received' = 0 /\ want' \in Nat
          /\ pc' \in {"write", "flashWrite", "size", "rewrite"}
      BY <1>5, <2>1 DEF reconnect, Opened, LoopOK, frame, TypeOK
    <3>2. QED
      BY <3>1 DEF LoopOK
  <2>2. QED
    BY <1>1, <1>5, <2>1 DEF reconnect
<1>6. CASE tryWrite
  <2>1. CASE pc' \in {"packet", "read", "reopen"} /\ UNCHANGED frame
    BY <1>6, <2>1 DEF tryWrite, LoopOK, frame, TypeOK
  <2>2. QED
    BY <1>1, <1>6, <2>1 DEF tryWrite
<1>7. CASE tryRead
  <2>1. CASE pc' = "request" /\ UNCHANGED frame
    BY <1>7, <2>1 DEF tryRead, LoopOK, frame
  <2>2. QED
    BY <1>1, <1>7, <2>1 DEF tryRead
<1>8. CASE getFrameSize
  <2>1. CASE pc' \in {"request", "open", "write"} /\ UNCHANGED frame
    BY <1>8, <2>1 DEF getFrameSize, LoopOK, frame
  <2>2. QED
    BY <1>1, <1>8, <2>1 DEF getFrameSize
<1>9. CASE getFrameRequest
  <2>1. CASE pc' = "write" /\ received' = received
    BY <1>9, <2>1 DEF getFrameRequest, LoopOK
  <2>2. QED
    BY <1>1, <1>9, <2>1 DEF getFrameRequest
<1>10. CASE getFramePacket
  <2>1. CASE pc' = pc /\ want' = want /\ received' = received + 1
    BY <1>10, <2>1 DEF getFramePacket, LoopOK, TypeOK
  <2>2. QED
    BY <1>1, <1>10, <2>1 DEF getFramePacket
<1>11. CASE flashWrite
  <2>1. CASE want # 0 /\ pc' = "flashRead" /\ UNCHANGED frame
    BY <1>11, <2>1 DEF flashWrite, LoopOK, frame
  <2>2. QED
    BY <1>1, <1>11, <2>1 DEF flashWrite
<1>12. CASE flashRead
  <2>1. CASE /\ received + 1 # want /\ pc' \in {"flashRead", "flashWrite"}
             /\ received' = received + 1 /\ want' = want
    BY <1>12, <2>1 DEF flashRead, LoopOK, TypeOK
  <2>2. QED
    BY <1>1, <1>12, <2>1 DEF flashRead
<1>13. QED
  BY <1>1, <1>2, <1>3, <1>4, <1>5, <1>6, <1>7, <1>8, <1>9, <1>10, <1>11, <1>12
     DEF Next, Step, Connect, disconnectDeviceContext, Refused, getFrameDone, Unplug, Plug,
         vars, memory, call, frame

\* A write, its reconnection and its retry: each is one of a kind.
LEMMA ExchangeShrinks ==
  ASSUME CallInv, CallInv', reconnect \/ tryWrite \/ tryRead
  PROVE  StepsToCome' < StepsToCome
<1> USE DEF CallInv, TypeInv
<1>1. want \in Nat /\ received \in Nat /\ MaxPackets \in Nat /\ pc # "idle"
  BY SizeAssumption DEF TypeOK, reconnect, tryWrite, tryRead
<1>2. ASSUME NEW code, Return(code) PROVE StepsToCome' < StepsToCome
  BY <1>1, <1>2, ReturnShrinks, StepsLeft
<1>3. CASE reconnect
  <2>1. CASE /\ pc' = IF pc = "open" THEN Opened(op, cmd) ELSE "rewrite"
             /\ UNCHANGED <<op, cmd, dc, frame, ret>>
    <3>1. CASE pc = "open"
      <4>1. received = 0
        BY <3>1 DEF LoopOK
      <4>2. QED
        BY <1>1, <2>1, <3>1, <4>1 DEF Opened, StepsToCome, AfterExchange, frame
    <3>2. CASE pc = "reopen"
      BY <1>1, <2>1, <3>2 DEF StepsToCome, AfterExchange, frame
    <3>3. QED
      BY <1>3, <3>1, <3>2 DEF reconnect
  <2>2. QED
    BY <1>2, <1>3, <2>1 DEF reconnect
<1>4. CASE tryWrite
  <2>1. CASE /\ pc' = IF cmd = "getFrame" THEN "packet" ELSE "read"
             /\ UNCHANGED <<op, cmd, frame, ret>>
    BY <1>1, <1>4, <2>1 DEF tryWrite, StepsToCome, AfterExchange, frame
  <2>2. CASE pc = "write" /\ pc' = "reopen" /\ UNCHANGED <<op, cmd, frame, ret>>
    BY <1>1, <2>2 DEF StepsToCome, AfterExchange, frame
  <2>3. QED
    BY <1>2, <1>4, <2>1, <2>2 DEF tryWrite
<1>5. CASE tryRead
  <2>1. CASE /\ op = "getFrame" /\ cmd \in FormatCmd /\ pc' = "request"
    BY <1>1, <1>5, <2>1 DEF tryRead, StepsToCome, AfterExchange, FormatCmd
  <2>2. QED
    BY <1>2, <1>5, <2>1 DEF tryRead
<1>6. QED
  BY <1>3, <1>4, <1>5

\* However often the device comes and goes and wherever malloc puts the context,
\* every step of a call brings it closer to its end.
THEOREM CallsShrink == Spec => CallShrinks
<1>1. Init => CallInv
  BY InitType DEF Init, CallInv, LoopOK
<1>2. CallInv /\ [Next]_vars => CallInv'
  BY TypeStep, StackStep, LoopStep DEF CallInv, TypeInv
<1>3. CallInv /\ CallInv' /\ [Next]_vars =>
        [pc # "idle" => StepsToCome' < StepsToCome \/ UNCHANGED call]_vars
  <2> SUFFICES ASSUME CallInv, CallInv', Next, pc # "idle"
               PROVE  StepsToCome' < StepsToCome \/ UNCHANGED call
    OBVIOUS
  <2>1. /\ want \in Nat /\ received \in Nat /\ MaxPackets \in Nat
        /\ want' \in Nat /\ received' \in Nat
    BY SizeAssumption DEF CallInv, TypeInv, TypeOK
  <2>2. ASSUME NEW code, Return(code) PROVE StepsToCome' < StepsToCome
    BY <2>2, ReturnShrinks, StepsLeft
  <2>3. CASE reconnect \/ tryWrite \/ tryRead
    BY <2>3, ExchangeShrinks
  <2>4. CASE getFrameSize
    <3>1. pc = "size" /\ op = "getFrame"
      BY <2>4 DEF getFrameSize, CallInv, TypeInv, StackOK
    <3>2. CASE pc' = "request"
      BY <2>1, <3>1, <3>2 DEF StepsToCome, AfterExchange
    <3>3. CASE pc' \in {"open", "write"} /\ cmd' = "getFormat" /\ op' = op
      BY <2>1, <3>1, <3>3 DEF StepsToCome, AfterExchange
    <3>4. QED
      BY <2>2, <2>4, <3>2, <3>3 DEF getFrameSize
  <2>5. CASE getFrameRequest
    <3>1. CASE pc' = "write" /\ cmd' = "getFrame" /\ want' <= MaxPackets
      BY <2>1, <2>5, <3>1 DEF getFrameRequest, StepsToCome, AfterExchange
    <3>2. CASE want' = NumOfPackets(heap[dc.api].pixels) /\ ~(want' > MaxPackets)
               /\ pc' = "write" /\ cmd' = "getFrame"
      BY <2>1, <3>1, <3>2
    <3>3. QED
      BY <2>2, <2>5, <3>2 DEF getFrameRequest
  <2>6. CASE getFramePacket
    <3>1. CASE pc' = pc /\ want' = want /\ received' = received + 1
      BY <2>1, <2>6, <3>1 DEF getFramePacket, StepsToCome
    <3>2. QED
      BY <2>2, <2>6, <3>1 DEF getFramePacket
  <2>7. CASE getFrameDone
    BY <2>2, <2>7 DEF getFrameDone
  <2>8. CASE flashWrite
    <3>1. CASE pc' = "flashRead" /\ UNCHANGED frame
      BY <2>1, <2>8, <3>1 DEF flashWrite, StepsToCome, AfterExchange, frame
    <3>2. QED
      BY <2>2, <2>8, <3>1 DEF flashWrite
  <2>9. CASE flashRead
    <3>1. CASE /\ pc' \in {"flashRead", "flashWrite"}
               /\ received' = received + 1 /\ want' = want
      BY <2>1, <2>9, <3>1 DEF flashRead, StepsToCome
    <3>2. QED
      BY <2>2, <2>9, <3>1 DEF flashRead
  <2>10. QED
    BY <2>3, <2>4, <2>5, <2>6, <2>7, <2>8, <2>9
       DEF Next, Step, Connect, disconnectDeviceContext, Refused, BeginPlain, BeginLoop,
           Unplug, Plug
<1>4. QED
  BY <1>1, <1>2, <1>3, PTL DEF Spec, CallShrinks
=============================================================================
