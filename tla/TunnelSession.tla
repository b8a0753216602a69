--------------------------- MODULE TunnelSession ---------------------------
(***************************************************************************)
(* What a KnxConnection promises the program that uses it, without the     *)
(* datagrams, the threads and the socket: a session comes up at most once; *)
(* while it is up, telegrams are handed to the application one at a time,  *)
(* each answered to the router before the next; its end is announced once, *)
(* with nothing left unanswered, and nothing is handed over afterwards.    *)
(***************************************************************************)
EXTENDS Naturals

VARIABLES
    phase,      \* "idle", "up", "failed" or "ended"
    delivered,  \* telegrams handed to the application
    acked       \* telegrams answered to the router

vars == <<phase, delivered, acked>>

Init == phase = "idle" /\ delivered = 0 /\ acked = 0

Open == phase = "idle" /\ phase' = "up"     /\ UNCHANGED <<delivered, acked>>

Fail == phase = "idle" /\ phase' = "failed" /\ UNCHANGED <<delivered, acked>>

Deliver ==
    /\ phase = "up"
    /\ delivered = acked
    /\ delivered' = delivered + 1
    /\ UNCHANGED <<phase, acked>>

Acknowledge ==
    /\ phase = "up"
    /\ acked < delivered
    /\ acked' = acked + 1
    /\ UNCHANGED <<phase, delivered>>

End ==
    /\ phase = "up"
    /\ acked = delivered
    /\ phase' = "ended"
    /\ UNCHANGED <<delivered, acked>>

Next == Open \/ Fail \/ Deliver \/ Acknowledge \/ End

(* A telegram that was handed over is answered.                            *)
Spec == Init /\ [][Next]_vars /\ WF_vars(Acknowledge)

SafeSpec == Init /\ [][Next]_vars
============================================================================
