------------------------------- MODULE Lease -------------------------------
(***************************************************************************)
(* What the desk promises about leases: each item has at most one holder   *)
(* at a time, holds end, and every holder has a token that no other holder *)
(* of that item ever had.  There are no requests here: a lease is acquired *)
(* in one step, by whoever may have it at that instant.                    *)
(***************************************************************************)
EXTENDS Naturals

CONSTANTS
    Items,
    Clients,
    Nobody,     \* perhaps one of Clients: a lease nobody can be told from
    Never       \* until of an item that was released, or never leased

VARIABLES
    now,
    lease,      \* [Items -> [holder, token, until]]
    issued      \* tokens handed out: [item, holder, token]

vars == <<now, lease, issued>>

Init ==
    /\ now = 0
    /\ lease = [i \in Items |-> [holder |-> Nobody, token |-> 0, until |-> Never]]
    /\ issued = {}

MayAcquire(i, c) ==
    \/ lease[i].holder \in {Nobody, c}
    \/ lease[i].until # Never /\ lease[i].until <= now

Acquire(i, c) ==
    LET token == IF lease[i].holder = c THEN lease[i].token ELSE lease[i].token + 1 IN
    /\ MayAcquire(i, c)
    /\ lease' = [lease EXCEPT ![i] = [holder |-> c, token |-> token, until |-> lease'[i].until]]
    /\ lease'[i].until # Never /\ lease'[i].until > now
    /\ issued' = IF c = Nobody THEN issued
                 ELSE issued \cup {[item |-> i, holder |-> c, token |-> token]}
    /\ UNCHANGED now

Release(i) ==
    /\ lease' = [lease EXCEPT ![i] = [holder |-> Nobody, token |-> lease[i].token, until |-> Never]]
    /\ UNCHANGED <<now, issued>>

Tick == now' = now + 1 /\ UNCHANGED <<lease, issued>>

Next ==
    \/ Tick
    \/ \E i \in Items : Release(i) \/ \E c \in Clients : Acquire(i, c)

Spec == Init /\ [][Next]_vars

=============================================================================
