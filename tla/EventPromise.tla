---------------------------- MODULE EventPromise ----------------------------
(***************************************************************************)
(* What the event service of the REST server promises its subscribers.     *)
(* An array of events that is published for a subscription is owed to it   *)
(* until it has been handed over, until the subscription ends, or until    *)
(* the server restarts.  The service ends a subscription only over an      *)
(* array it owes it, and what one subscription loses with its end no other *)
(* loses.                                                                  *)
(***************************************************************************)
EXTENDS Naturals

CONSTANTS
    Ids,    \* identifiers of subscriptions
    Posts   \* numbers of the published arrays

VARIABLES
    subscribed, \* the subscriptions there are
    owed,       \* the arrays each of them still has to get
    handed      \* the arrays each of them has got

vars == <<subscribed, owed, handed>>

-----------------------------------------------------------------------------
Init ==
    /\ subscribed = {}
    /\ owed = [i \in Ids |-> {}] /\ handed = [i \in Ids |-> {}]

\* What is owed and handed to a subscription is forgotten with it.
End(i) ==
    /\ subscribed' = subscribed \ {i}
    /\ owed' = [owed EXCEPT ![i] = {}]
    /\ handed' = [handed EXCEPT ![i] = {}]

Subscribe(i) ==
    /\ i \notin subscribed
    /\ subscribed' = subscribed \cup {i}
    /\ UNCHANGED <<owed, handed>>

Unsubscribe(i) == i \in subscribed /\ End(i)

Terminate(i) == owed[i] # {} /\ End(i)

\* An array is published once, for the subscriptions of a set S.
Publish(n, S) ==
    /\ S \subseteq subscribed
    /\ \A i \in Ids : n \notin owed[i] \cup handed[i]
    /\ owed' = [i \in Ids |-> IF i \in S THEN owed[i] \cup {n} ELSE owed[i]]
    /\ UNCHANGED <<subscribed, handed>>

\* It stays owed when the service does not learn that it arrived.
Deliver(i, n, known) ==
    /\ n \in owed[i]
    /\ handed' = [handed EXCEPT ![i] = @ \cup {n}]
    /\ owed' = IF known THEN [owed EXCEPT ![i] = @ \ {n}] ELSE owed
    /\ UNCHANGED subscribed

Restart ==
    /\ owed' = [i \in Ids |-> {}]
    /\ UNCHANGED <<subscribed, handed>>

Next ==
    \/ \E i \in Ids : Subscribe(i) \/ Unsubscribe(i) \/ Terminate(i)
    \/ \E n \in Posts, S \in SUBSET Ids : Publish(n, S)
    \/ \E i \in Ids, n \in Posts, known \in BOOLEAN : Deliver(i, n, known)
    \/ Restart

Spec == Init /\ [][Next]_vars
=============================================================================
