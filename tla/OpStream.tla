------------------------------ MODULE OpStream ------------------------------
(***************************************************************************)
(* What the daemon promises a call that follows an operation: "its events  *)
(* so far, then the rest", in order and once each.  What it leaves out it  *)
(* says (a `lagged` item), but for two gaps: a job keeps only its first    *)
(* Replay events for a late follower, and a follower that finds more than  *)
(* Cap new events at the very end stops there.                             *)
(* Jobs implements this, once for every call.                              *)
(***************************************************************************)
EXTENDS Naturals

CONSTANTS Calls, Replay, Cap

VARIABLES total,  \* call -> events its operation reported so far
          at,     \* call -> how far it is in them
          said,   \* call -> how many it was told it missed
          phase   \* call -> "off", "on", then "whole" or "left"

Init ==
    /\ total = [c \in Calls |-> 0]
    /\ at = [c \in Calls |-> 0]
    /\ said = [c \in Calls |-> 0]
    /\ phase = [c \in Calls |-> "off"]

\* An operation reports something (or a call learns which one it is about).
Report ==
    /\ \A c \in Calls : total'[c] >= total[c]
    /\ UNCHANGED <<at, said, phase>>

Open(c) ==
    /\ phase[c] = "off"
    /\ phase' = [phase EXCEPT ![c] = "on"]
    /\ UNCHANGED <<total, at, said>>

Deliver(c) ==
    /\ phase[c] = "on" /\ at[c] < total[c]
    /\ at' = [at EXCEPT ![c] = @ + 1]
    /\ UNCHANGED <<total, said, phase>>

\* A slow follower is overrun, and told by how much.
Overrun(c) ==
    /\ phase[c] = "on"
    /\ \E n \in (at[c] + 1)..total[c] :
        /\ at' = [at EXCEPT ![c] = n]
        /\ said' = [said EXCEPT ![c] = @ + (n - at[c])]
    /\ UNCHANGED <<total, phase>>

\* A late follower goes from the end of the kept events to the present.
EndOfLog(c) ==
    /\ phase[c] = "on" /\ at[c] = Replay
    /\ \E n \in (at[c] + 1)..total[c] : at' = [at EXCEPT ![c] = n]
    /\ UNCHANGED <<total, said, phase>>

\* The follower has the operation's result, after the events before it.
End(c) ==
    /\ phase[c] = "on"
    /\ at[c] = total[c] \/ total[c] - at[c] > Cap
    /\ phase' = [phase EXCEPT ![c] = "whole"]
    /\ UNCHANGED <<total, at, said>>

\* It stops early: it detached, or never found the operation.
Leave(c) ==
    /\ phase[c] \in {"off", "on"}
    /\ phase' = [phase EXCEPT ![c] = "left"]
    /\ UNCHANGED <<total, at, said>>

Next ==
    \/ Report
    \/ \E c \in Calls :
        Open(c) \/ Deliver(c) \/ Overrun(c) \/ EndOfLog(c) \/ End(c) \/ Leave(c)

Spec == Init /\ [][Next]_<<total, at, said, phase>>
=============================================================================
