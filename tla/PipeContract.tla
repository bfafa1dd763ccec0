---------------------------- MODULE PipeContract ----------------------------
(***************************************************************************)
(* What one websocket connection promises the session that owns it: the    *)
(* NotifyEvent_t a session may see and in which circumstances, and that    *)
(* text reaches the far end in the order it was handed over, each frame at *)
(* most once, and only while the connection is up.                         *)
(***************************************************************************)
EXTENDS Naturals

CONSTANT Pipes

VARIABLES
  phase,      \* "idle", "asked", "up", "stopping", or how it ended: "failed"
              \* (CONNECT_FAIL), "dropped" (CONNECTION_DROPPED), "closed"
              \* (CONNECTION_CLOSED_GRACEFULLY)
  handed,     \* text frames the session handed over
  delivered   \* text frames written to the socket

contractVars == <<phase, handed, delivered>>

Init ==
  /\ phase = [p \in Pipes |-> "idle"]
  /\ handed = [p \in Pipes |-> 0]
  /\ delivered = [p \in Pipes |-> 0]

Passes(p, from, to) ==
  /\ phase[p] = from
  /\ phase' = [phase EXCEPT ![p] = to]
  /\ UNCHANGED <<handed, delivered>>

Ask(p)   == Passes(p, "idle", "asked")          \* connect()
Fail(p)  == Passes(p, "asked", "failed")        \* CONNECT_FAIL
Succeed(p) == Passes(p, "asked", "up")          \* CONNECT_SUCCESS
Stop(p)  == Passes(p, "up", "stopping")         \* close()
Drop(p)  == Passes(p, "up", "dropped")          \* the far end closed
Finish(p) == Passes(p, "stopping", "closed")    \* closed after close()

Open(p) == phase[p] \in {"up", "stopping"}

\* bufferForSending
Hand(p) ==
  /\ Open(p)
  /\ handed' = [handed EXCEPT ![p] = @ + 1]
  /\ UNCHANGED <<phase, delivered>>

\* A text frame on the wire.
Deliver(p) ==
  /\ Open(p) /\ delivered[p] < handed[p]
  /\ delivered' = [delivered EXCEPT ![p] = @ + 1]
  /\ UNCHANGED <<phase, handed>>

Next == \E p \in Pipes : \/ Ask(p) \/ Fail(p) \/ Succeed(p) \/ Stop(p)
                         \/ Drop(p) \/ Finish(p) \/ Hand(p) \/ Deliver(p)

Spec == Init /\ [][Next]_contractVars
=============================================================================
