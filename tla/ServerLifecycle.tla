--------------------------- MODULE ServerLifecycle ---------------------------
(***************************************************************************)
(* What server.go promises to the program that runs a server: "when the    *)
(* context is cancelled, the server will be gracefully terminated (with a  *)
(* max timeout of 60 seconds), waiting for all requests to complete".      *)
(* GracefulServer implements this specification.                           *)
(***************************************************************************)
CONSTANT Conns

VARIABLES
    phase,   \* "up", "draining", "drained": nothing runs any more, "over"
    busy,    \* connections with a request in progress
    late     \* the time allowed for draining has passed

vars == <<phase, busy, late>>

Init == phase = "up" /\ busy = {} /\ late = FALSE

\* A drained server is the only one that serves nothing: one whose listener
\* failed, or that ran out of time, still has its connections.
Begin(c) ==
    /\ phase # "drained" /\ c \notin busy
    /\ busy' = busy \cup {c}
    /\ UNCHANGED <<phase, late>>

End(c) ==
    /\ c \in busy
    /\ busy' = busy \ {c}
    /\ UNCHANGED <<phase, late>>

StartDrain == phase = "up" /\ phase' = "draining" /\ UNCHANGED <<busy, late>>

Expire == phase = "draining" /\ ~late /\ late' = TRUE /\ UNCHANGED <<phase, busy>>

\* Draining ends with no request left, or after the time allowed.
EndDrain ==
    /\ phase = "draining"
    /\ \/ busy = {} /\ phase' = "drained"
       \/ late /\ phase' = "over"
    /\ UNCHANGED <<busy, late>>

Stop    == phase = "up" /\ phase' = "over" /\ UNCHANGED <<busy, late>>
Restart == phase = "over" /\ phase' = "up" /\ UNCHANGED <<busy, late>>

Next ==
    \/ StartDrain \/ Expire \/ EndDrain \/ Stop \/ Restart
    \/ \E c \in Conns : Begin(c) \/ End(c)

SafetySpec == Init /\ [][Next]_vars
Spec == SafetySpec /\ WF_vars(Expire) /\ WF_vars(EndDrain)
=============================================================================
