--------------------------- MODULE ResumableScan ---------------------------
(***************************************************************************)
(* What a resumable scan of a list promises, whoever runs it and however   *)
(* often it is interrupted: the durable resume point never runs ahead of   *)
(* the work that is durably done, and a client announces the end only when *)
(* everything needed is done.  MarketSweep implements it as long as the    *)
(* market stands still and the server does not cut it short.               *)
(***************************************************************************)
EXTENDS Integers

CONSTANTS
    N,        \* length of the list
    Need,     \* the positions that must be done
    Clients   \* who scans

VARIABLES
    done,     \* positions durably done
    point,    \* the position a resumed scan starts behind
    finished  \* the clients whose last scan announced the end

vars == <<done, point, finished>>

Init == done = {} /\ point = 0 /\ finished = {}

\* Everything needed among the first n positions is done.
Prefix(n) == \A i \in Need : i <= n => i \in done

Record ==
    /\ done \subseteq done' /\ done' \subseteq 1..N
    /\ UNCHANGED <<point, finished>>

\* The resume point moves, forward or back, inside the finished prefix.
Rest ==
    /\ point' \in Nat /\ Prefix(point')
    /\ UNCHANGED <<done, finished>>

Announce(c) ==
    /\ Prefix(N)
    /\ finished' = finished \cup {c}
    /\ point' = 0
    /\ UNCHANGED done

ScanAgain(c) ==
    /\ finished' = finished \ {c}
    /\ UNCHANGED <<done, point>>

Next == Record \/ Rest \/ \E c \in Clients : Announce(c) \/ ScanAgain(c)

Spec == Init /\ [][Next]_vars

=============================================================================
