---------------------------- MODULE ReliableRelay ----------------------------
(***************************************************************************)
(* What the outbox promises to the rest of the system, with no table, no   *)
(* worker and no transaction: an at-least-once relay with a dead-letter    *)
(* queue.  An event is delivered only after it was accepted, it is settled *)
(* only after it was delivered, it is not delivered again once settled or  *)
(* parked, and only a parked event can be put back.                        *)
(***************************************************************************)
EXTENDS Naturals

CONSTANT Events

VARIABLES
    accepted,   \* events whose state change is committed
    settled,    \* events the relay is finished with
    parked,     \* events given up on until someone puts them back
    delivered   \* copies of each event handed to the subscribers

relayVars == <<accepted, settled, parked, delivered>>

Init ==
    /\ accepted = {} /\ settled = {} /\ parked = {}
    /\ delivered = [e \in Events |-> 0]

Active == accepted \ (settled \cup parked)

\* A transaction commits with the events E.
Accept(E) ==
    /\ E \cap accepted = {}
    /\ accepted' = accepted \cup E
    /\ UNCHANGED <<settled, parked, delivered>>

Deliver(e) ==
    /\ e \in Active
    /\ delivered' = [delivered EXCEPT ![e] = @ + 1]
    /\ UNCHANGED <<accepted, settled, parked>>

\* A round ends: the events S are settled, the events P are given up on.
Resolve(S, P) ==
    /\ S \subseteq Active /\ P \subseteq Active /\ S \cap P = {}
    /\ \A e \in S : delivered[e] > 0
    /\ settled' = settled \cup S
    /\ parked' = parked \cup P
    /\ UNCHANGED <<accepted, delivered>>

PutBack(E) ==
    /\ E \subseteq parked
    /\ parked' = parked \ E
    /\ UNCHANGED <<accepted, settled, delivered>>

Next ==
    \/ \E E \in SUBSET Events : Accept(E) \/ PutBack(E)
    \/ \E e \in Events : Deliver(e)
    \/ \E S, P \in SUBSET Events : Resolve(S, P)

Spec == Init /\ [][Next]_relayVars
=============================================================================
