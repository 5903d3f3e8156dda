--------------------------- MODULE ExposedContext ---------------------------
(***************************************************************************)
(* DeviceContext with the history of the one hazard its memory has: an     *)
(* allocator that does not hand out the block that was freed just before.  *)
(* Whatever it hands out, the calls are sound until that has happened in   *)
(* one of the two places where the freed block's address is still in use.  *)
(***************************************************************************)
EXTENDS DeviceContext

VARIABLE exposed  \* history: Exposing has happened

exposedVars == <<vars, exposed>>

\* A connection frees the caller's block and malloc returns another one, while
\* - the connection fails, and the caller keeps the address of the freed block, or
\* - the functions of a call that reconnects hold local copies of it.
Exposing ==
  /\ ctx # NULL
  /\ \E a \in Addr \ {ctx} : ~heap[a].live /\ heap'[a].live
  /\ ctx' = ctx \/ dc # NoPointers

ExposedInit == Init /\ exposed = FALSE
ExposedNext == Next /\ exposed' = (exposed \/ Exposing)
ExposedSpec == ExposedInit /\ [][ExposedNext]_exposedVars /\ WF_vars(Step)
-----------------------------------------------------------------------------
(* With any allocator, what the calls promise holds until a context is      *)
(* exposed.  A successful connect, a connect by index that fails (it zeroes *)
(* the caller's variable first) and the reconnection of a call that has     *)
(* taken no pointer yet may all move the context.                           *)

\* No call reads or writes a context block that was freed: each takes the block's
\* address where nothing can have moved it since.
MemorySound == ~exposed => NoUseAfterFree

\* Every handle given to hid_write or hid_read_timeout is open, also after a
\* reconnection in the middle of the call, which may have failed.
HandleSound == ~exposed => HandleOpen

\* A saved serial number names the device the context's handle is open on, whatever
\* reconnections, failures and replugged devices came before.
SerialSound == ~exposed => SerialNamesDevice

\* A getFrame that leaves its loop with OK has copied as many pixels as its context
\* says a frame has, also if it was replaced between the count and the copy.
FrameSound == ~exposed => FrameCopied
=============================================================================
