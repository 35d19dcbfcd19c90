------------------------- MODULE InvocationPromise -------------------------
(* What the server promises to those who call a client: a call waits only  *)
(* while the connection it was sent to owns that client; it is settled     *)
(* once, and in the very step in which the client changes hands at the     *)
(* latest.  ServerRuntime implements this.                                 *)
CONSTANTS Session, Client, Request, None

VARIABLES
    owner,      \* owner[c]: the connection that speaks for client c, or None
    waiting,    \* waiting[r]: the client that call r waits for, or None
    outcome     \* outcome[r]: how far call r has got

vars == <<owner, waiting, outcome>>

Init ==
    /\ owner = [c \in Client |-> None]
    /\ waiting = [r \in Request |-> None]
    /\ outcome = [r \in Request |-> "idle"]

(* Clients come, go and change hands: the calls that wait for them fail.   *)
Reassign ==
    \E next \in [Client -> Session \cup {None}] :
        LET Dropped(r) == \E c \in Client : waiting[r] = c /\ next[c] # owner[c]
        IN  /\ owner' = next
            /\ waiting' = [r \in Request |-> IF Dropped(r) THEN None ELSE waiting[r]]
            /\ outcome' = [r \in Request |-> IF Dropped(r) THEN "rejected"
                                                           ELSE outcome[r]]

Invoke(r, c) ==
    /\ outcome[r] = "idle"
    /\ owner[c] # None
    /\ waiting' = [waiting EXCEPT ![r] = c]
    /\ outcome' = [outcome EXCEPT ![r] = "waiting"]
    /\ UNCHANGED owner

Refuse(r) ==
    /\ outcome[r] = "idle"
    /\ outcome' = [outcome EXCEPT ![r] = "rejected"]
    /\ UNCHANGED <<owner, waiting>>

Settle(r) ==
    /\ outcome[r] = "waiting"
    /\ \E o \in {"result", "rejected"} : outcome' = [outcome EXCEPT ![r] = o]
    /\ waiting' = [waiting EXCEPT ![r] = None]
    /\ UNCHANGED owner

Next ==
    \/ Reassign
    \/ \E r \in Request : Refuse(r) \/ Settle(r) \/ \E c \in Client : Invoke(r, c)

Spec == Init /\ [][Next]_vars
=============================================================================
