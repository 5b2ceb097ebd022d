------------------------------ MODULE Delivery ------------------------------
(***************************************************************************)
(* What a live Client promises about its records, without its channel, its *)
(* worker or its sentinels (the doc comments of client.go:238-349).        *)
(*                                                                         *)
(* A record is refused after a shutdown, dropped and counted, or accepted; *)
(* accepted records are delivered one by one in the order of acceptance,   *)
(* until the client is sealed.  A barrier (a Flush or a Shutdown) promises *)
(* the delivery of everything accepted when it began: it keeps the promise *)
(* or it is void, and a void Flush says so with an error.                  *)
(***************************************************************************)
EXTENDS Integers

CONSTANTS Records, Flushes, Shutdowns

Barriers == Flushes \cup Shutdowns

VARIABLES
    status,     \* how far each record has come
    ticket,     \* the place of an accepted record in the order of acceptance
    accepted,   \* how many records have been accepted
    delivered,  \* how many have been delivered
    drops,      \* how many were dropped
    closed,     \* a Shutdown has begun: no record is admitted any more
    sealed,     \* nothing is delivered any more
    barrier,    \* the state of each Flush and Shutdown
    promised,   \* what "accepted" was when a barrier began
    reported,   \* the barriers that report an error
    returned    \* the barriers that have returned

recordVars == <<status, ticket, accepted, delivered, drops>>
barrierVars == <<barrier, promised, reported, returned>>
vars == <<recordVars, closed, sealed, barrierVars>>

Init ==
    /\ status = [r \in Records |-> "idle"]
    /\ ticket = [r \in Records |-> 0]
    /\ accepted = 0 /\ delivered = 0 /\ drops = 0
    /\ closed = FALSE /\ sealed = FALSE
    /\ barrier = [b \in Barriers |-> "new"]
    /\ promised = [b \in Barriers |-> 0]
    /\ reported = {} /\ returned = {}

(* The life of a record.                                                   *)

Move(r, from, to) == status[r] = from /\ status' = [status EXCEPT ![r] = to]

Admit(r) ==
    /\ Move(r, "idle", IF closed THEN "ignored" ELSE "checked")
    /\ UNCHANGED <<ticket, accepted, delivered, drops, closed, sealed, barrierVars>>

Accept(r) ==
    /\ Move(r, "checked", "sent")
    /\ accepted' = accepted + 1
    /\ ticket' = [ticket EXCEPT ![r] = accepted + 1]
    /\ UNCHANGED <<delivered, drops, closed, sealed, barrierVars>>

Drop(r) ==
    /\ Move(r, "checked", "dropped")
    /\ drops' = drops + 1
    /\ UNCHANGED <<ticket, accepted, delivered, closed, sealed, barrierVars>>

Deliver(r) ==
    /\ ~sealed
    /\ ticket[r] = delivered + 1
    /\ Move(r, "sent", "ran")
    /\ delivered' = delivered + 1
    /\ UNCHANGED <<ticket, accepted, drops, closed, sealed, barrierVars>>

(* The life of a barrier.                                                  *)

Begin(b) ==
    /\ barrier[b] = "new"
    /\ ~closed
    /\ barrier' = [barrier EXCEPT ![b] = "pending"]
    /\ promised' = [promised EXCEPT ![b] = accepted]
    /\ closed' = (b \in Shutdowns)
    /\ UNCHANGED <<recordVars, sealed, reported, returned>>

\* On a closed client a barrier is a no-op that returns nil.
Noop(b) ==
    /\ barrier[b] = "new"
    /\ closed
    /\ barrier' = [barrier EXCEPT ![b] = "void"]
    /\ returned' = returned \cup {b}
    /\ UNCHANGED <<recordVars, closed, sealed, promised, reported>>

Keep(b) ==
    /\ barrier[b] = "pending"
    /\ promised[b] <= delivered
    /\ barrier' = [barrier EXCEPT ![b] = "kept"]
    /\ UNCHANGED <<recordVars, closed, sealed, promised, reported, returned>>

\* The context ended first: a Flush returns the error, a Shutdown goes on.
GiveUp(b) ==
    /\ barrier[b] = "pending"
    /\ barrier' = [barrier EXCEPT ![b] = "void"]
    /\ IF b \in Flushes
         THEN reported' = reported \cup {b} /\ returned' = returned \cup {b}
         ELSE UNCHANGED <<reported, returned>>
    /\ UNCHANGED <<recordVars, closed, sealed, promised>>

Seal ==
    /\ closed
    /\ sealed' = TRUE
    /\ UNCHANGED <<recordVars, closed, barrierVars>>

\* A barrier whose promise is settled exports, may fail at it, and returns; a
\* Shutdown does so on a sealed client only.
Settle(b) ==
    /\ barrier[b] \in {"kept", "void"} /\ b \notin returned
    /\ b \in Shutdowns => sealed
    /\ \E failed \in {{}, {b}} : reported' = reported \cup failed
    /\ \E end \in {{}, {b}} : returned' = returned \cup end
    /\ UNCHANGED <<recordVars, closed, sealed, barrier, promised>>

Next ==
    \/ \E r \in Records : Admit(r) \/ Accept(r) \/ Drop(r) \/ Deliver(r)
    \/ \E b \in Barriers : Begin(b) \/ Noop(b) \/ Keep(b) \/ GiveUp(b) \/ Settle(b)
    \/ Seal

Spec == Init /\ [][Next]_vars
=============================================================================
