-------------------------------- MODULE Lease --------------------------------
(***************************************************************************)
(* What a lock that is held on lease promises: it is granted, and a lease  *)
(* is extended, when every other lease is over on every clock; no lease    *)
(* reaches further than LeaseSeconds beyond the fastest clock; and an      *)
(* extension never shortens one.  A lease that is made again after it was  *)
(* lost voids the first promise.                                           *)
(***************************************************************************)
EXTENDS ShimTime

CONSTANTS
    Clients,
    LeaseSeconds,
    MaxSkew         \* how far a clock may be ahead of the time, half seconds

VARIABLES
    time,           \* in half seconds
    until,          \* the second each client's lease ends, or NoLease
    recreated       \* a lost lease has been made again

vars == <<time, until, recreated>>

NoLease == -1

Init == time = 0 /\ until = [c \in Clients |-> NoLease] /\ recreated = FALSE

(* No clock is behind the time. *)
Over(t) == t <= Seconds(time)

Free(c) == \A d \in Clients \ {c} : Over(until[d])

Furthest == SecondsInFuture(time + MaxSkew, LeaseSeconds)

Grant(c) ==
    /\ until[c] = NoLease
    /\ recreated \/ Free(c)
    /\ \E t \in 0..Furthest : until' = [until EXCEPT ![c] = t]
    /\ UNCHANGED <<time, recreated>>

Extend(c) ==
    /\ until[c] # NoLease
    /\ recreated \/ Free(c)
    /\ \E t \in until[c]..Furthest : until' = [until EXCEPT ![c] = t]
    /\ UNCHANGED <<time, recreated>>

MakeAgain(c) ==
    /\ until[c] # NoLease
    /\ \E t \in until[c]..Furthest : until' = [until EXCEPT ![c] = t]
    /\ recreated' = TRUE
    /\ UNCHANGED time

End(c) ==
    /\ until' = [until EXCEPT ![c] = NoLease]
    /\ UNCHANGED <<time, recreated>>

Tick == time' = time + 1 /\ UNCHANGED <<until, recreated>>

Next == Tick \/ \E c \in Clients : Grant(c) \/ Extend(c) \/ MakeAgain(c) \/ End(c)

Spec == Init /\ [][Next]_vars
=============================================================================
