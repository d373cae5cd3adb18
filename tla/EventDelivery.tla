--------------------------- MODULE EventDelivery ---------------------------
(***************************************************************************)
(* Delivery of events to the subscribers of the REST server: the           *)
(* subscriptions (subscription_manager.cpp), the queue of event arrays     *)
(* (event_array_queue.hpp) and the thread of the event service that sends  *)
(* them (event_service.cpp).  Any thread of the server may post an array,  *)
(* clients add and delete subscriptions meanwhile, and the server may end  *)
(* at any moment and start again: subscriptions are in a database, the     *)
(* queue is not.                                                           *)
(***************************************************************************)
EXTENDS Naturals, Sequences

CONSTANTS
    Batches,    \* the vectors of events, records with an origin and a type,
                \* that are handed to notify
    Filters,    \* what subscriptions may ask for: records of types and origins
    Attempts,   \* m_delivery_retry_attempts
    MaxId,      \* bound: the greatest identifier of a subscription
    MaxPosts,   \* bound: arrays posted
    MaxRestarts \* bound: restarts of the server

ASSUME BoundsAssumption == {Attempts, MaxId, MaxPosts, MaxRestarts} \subseteq Nat
ASSUME BatchesAssumption == \A b \in Batches : b \in Seq({b[i] : i \in DOMAIN b})

Ids == 1..MaxId
Posts == 1..MaxPosts
Nobody == 0     \* the subscriber_id of an array that is not addressed yet

VARIABLES
    subscriptions,  \* keys of m_subscriptions, and of the records in the database
    filter,         \* the event types and origin resources of each subscription
    last_id,        \* SubscriptionManager::m_id
    ready,          \* the arrays of the queue whose time has come, in its order
    delayed,        \* the arrays of the queue behind them
    batch,          \* arrays the thread has taken and not done with
    current,        \* the array whose POST is under way, or NoArray
    restarts,       \* restarts so far
    published,      \* history: the batches handed to notify
    chosen,         \* history: arrays selected for each subscription
    handed,         \* history: arrays that have arrived at its destination
    begun,          \* history: the last array sent to it for the first time
    failed          \* history: failed POSTs of each array to it

vars == <<subscriptions, filter, last_id, ready, delayed, batch, current, restarts,
          published, chosen, handed, begun, failed>>
history == <<published, chosen, handed, begun, failed>>

-----------------------------------------------------------------------------
(***************************************************************************)
(* EventArray::remove_duplicates: of the events with the same origin and   *)
(* type the first is kept.  What is present is known from what was kept.   *)
(***************************************************************************)
SameOrigin(e, f) == e.origin = f.origin
Same(e, f) == e.origin = f.origin /\ e.type = f.type

IsPresent(kept, e) == \E i \in DOMAIN kept : Same(kept[i], e)

remove_duplicates(b) ==
    LET kept[n \in 0..Len(b)] ==
            IF n = 0 THEN <<>>
            ELSE IF IsPresent(kept[n - 1], b[n]) THEN kept[n - 1] ELSE Append(kept[n - 1], b[n])
    IN  kept[Len(b)]

(***************************************************************************)
(* Subscription::is_subscribed_for, and the events of a vector that it     *)
(* selects.                                                                *)
(***************************************************************************)
is_subscribed_for(f, e) ==
    e.type \in f.types /\ (f.origins = {} \/ e.origin \in f.origins)

Select(v, f) ==
    LET taken[n \in 0..Len(v)] ==
            IF n = 0 THEN <<>>
            ELSE IF is_subscribed_for(f, v[n]) THEN Append(taken[n - 1], v[n]) ELSE taken[n - 1]
    IN  taken[Len(v)]

Deduplicated == {remove_duplicates(b) : b \in Batches}
Vectors == Deduplicated \cup {Select(v, f) : v \in Deduplicated, f \in Filters}

-----------------------------------------------------------------------------
Arrays == [post : Posts, to : Ids \cup {Nobody}, tries : Nat, events : Vectors]
NoFilter == [types |-> {}, origins |-> {}]
NoArray == [post |-> 0, to |-> Nobody, tries |-> 0, events |-> <<>>]
Elements(s) == {s[i] : i \in DOMAIN s}

\* Arrays addressed to a subscriber and not done with.
Pending == batch \cup {a \in Elements(ready) \cup Elements(delayed) : a.to # Nobody}
PendingFor(i) == {a.post : a \in {b \in Pending : b.to = i}}

TypeOK ==
    /\ subscriptions \subseteq Ids
    /\ filter \in [Ids -> Filters \cup {NoFilter}]
    /\ last_id \in 0..MaxId
    /\ ready \in Seq(Arrays) /\ delayed \in Seq(Arrays)
    /\ batch \subseteq Arrays
    /\ current \in batch \cup {NoArray}
    /\ restarts \in 0..MaxRestarts
    /\ published \in Seq(Batches) /\ Len(published) \in 0..MaxPosts
    /\ chosen \in [Ids -> SUBSET Posts] /\ handed \in [Ids -> SUBSET Posts]
    /\ begun \in [Ids -> Nat] /\ failed \in [Ids -> [Posts -> Nat]]

Init ==
    /\ subscriptions = {} /\ last_id = 0
    /\ filter = [i \in Ids |-> NoFilter]
    /\ ready = <<>> /\ delayed = <<>>
    /\ batch = {} /\ current = NoArray
    /\ restarts = 0
    /\ published = <<>>
    /\ chosen = [i \in Ids |-> {}] /\ handed = [i \in Ids |-> {}]
    /\ begun = [i \in Ids |-> 0] /\ failed = [i \in Ids |-> [n \in Posts |-> 0]]

(***************************************************************************)
(* The queue is a multimap ordered by time.  An array posted without delay *)
(* goes behind those whose time has come.  All delays are the same         *)
(* (m_delivery_retry_interval), so a retry goes to the end.  The time of   *)
(* the first delayed array may come at any moment.                         *)
(***************************************************************************)
PushFirst(a) == ready' = <<a>> \o ready /\ UNCHANGED delayed
Push(a) == ready' = Append(ready, a) /\ UNCHANGED delayed

\* A map would keep one array for each time, a multimap keeps them all.
PushDelayedOnly(a) == delayed' = <<a>> /\ UNCHANGED ready
PushDelayed(a) == delayed' = Append(delayed, a) /\ UNCHANGED ready

TimePasses ==
    /\ delayed # <<>>
    /\ ready' = Append(ready, Head(delayed)) /\ delayed' = Tail(delayed)
    /\ UNCHANGED <<subscriptions, filter, last_id, batch, current, restarts, history>>

(***************************************************************************)
(* SubscriptionManager::notify with a vector of events.                    *)
(***************************************************************************)
notify(b) ==
    /\ b # <<>> /\ Len(published) < MaxPosts
    /\ Push([post |-> Len(published) + 1, to |-> Nobody, tries |-> 0,
             events |-> remove_duplicates(b)])
    /\ published' = Append(published, b)
    /\ UNCHANGED <<subscriptions, filter, last_id, batch, current, restarts,
                   chosen, handed, begun, failed>>

(***************************************************************************)
(* Clients add and delete subscriptions.  The database is written under    *)
(* the same lock: an interrupted add or del is one that has, or has not,   *)
(* happened when the server is back.                                       *)
(***************************************************************************)
FreeAfter(k) ==
    CHOOSE n \in (k + 1)..(MaxId + 1) :
        n \notin subscriptions /\ \A m \in (k + 1)..(n - 1) : m \in subscriptions

FirstFreeId == FreeAfter(0)
NextId == FreeAfter(last_id)

add(f) ==
    /\ NextId <= MaxId
    /\ last_id' = NextId
    /\ subscriptions' = subscriptions \cup {NextId}
    /\ filter' = [filter EXCEPT ![NextId] = f]
    /\ UNCHANGED <<ready, delayed, batch, current, restarts, history>>

\* The histories of a subscription end with it.
del(i) ==
    /\ subscriptions' = subscriptions \ {i}
    /\ filter' = [filter EXCEPT ![i] = NoFilter]
    /\ chosen' = [chosen EXCEPT ![i] = {}] /\ handed' = [handed EXCEPT ![i] = {}]
    /\ begun' = [begun EXCEPT ![i] = 0]
    /\ failed' = [failed EXCEPT ![i] = [n \in Posts |-> 0]]

Delete(i) ==
    /\ i \in subscriptions
    /\ del(i)
    /\ UNCHANGED <<last_id, ready, delayed, batch, current, restarts, published>>

(***************************************************************************)
(* The thread of the event service, m_handle_events.  It takes the first   *)
(* array whose time has come.  An array that is not addressed yet becomes  *)
(* one array for each subscription with the events the subscription asks   *)
(* for; a retried one is sent as it is.                                    *)
(***************************************************************************)
select_events_for_subscribers(a) ==
    {[a EXCEPT !.to = i, !.events = Select(a.events, filter[i])] :
        i \in {j \in subscriptions : Select(a.events, filter[j]) # <<>>}}

Pop ==
    /\ batch = {} /\ ready # <<>>
    /\ LET a == Head(ready)
       IN  IF a.to = Nobody
           THEN /\ batch' = select_events_for_subscribers(a)
                /\ chosen' = [i \in Ids |-> IF \E b \in batch' : b.to = i
                                             THEN chosen[i] \cup {a.post} ELSE chosen[i]]
           ELSE batch' = {a} /\ UNCHANGED chosen
    /\ ready' = Tail(ready)
    /\ UNCHANGED <<subscriptions, filter, last_id, delayed, current, restarts,
                   published, handed, begun, failed>>

(***************************************************************************)
(* send_event_array, for the arrays of the batch in the order of the       *)
(* identifiers: first it gets the subscription, then it posts to its       *)
(* destination.                                                            *)
(***************************************************************************)
KeepWaiting(a) == UNCHANGED <<batch, current, begun>>
Discard(a) == batch' = batch \ {a} /\ UNCHANGED <<current, begun>>

Get(a) ==
    /\ current = NoArray
    /\ a \in batch /\ \A b \in batch : a.to <= b.to
    /\ IF a.to \in subscriptions
       THEN /\ current' = a
            /\ begun' = IF a.tries = 0 THEN [begun EXCEPT ![a.to] = a.post] ELSE begun
            /\ UNCHANGED batch
       ELSE Discard(a)
    /\ UNCHANGED <<subscriptions, filter, last_id, ready, delayed, restarts,
                   published, chosen, handed, failed>>

\* An array that arrives after its subscription was deleted is nobody's.
Arrives == IF current.to \in subscriptions
           THEN [handed EXCEPT ![current.to] = @ \cup {current.post}] ELSE handed

\* The destination answers, whatever its answer is.
PostSucceeds ==
    /\ current # NoArray
    /\ handed' = Arrives
    /\ batch' = batch \ {current} /\ current' = NoArray
    /\ UNCHANGED <<subscriptions, filter, last_id, ready, delayed, restarts,
                   published, chosen, begun, failed>>

\* The POST throws: the array may have arrived, only the answer did not.  It is
\* posted again, as a copy that counts one more attempt, or the subscription is
\* deleted.  del throws when a client has deleted it during the POST, and the
\* exception ends the loop over the batch.
Retry == [current EXCEPT !.tries = @ + 1]

OneTryLess == Retry.tries < Attempts - 1
TriesLeft == Retry.tries < Attempts

PostAgain(arrived) ==
    /\ current # NoArray /\ TriesLeft
    /\ PushDelayed(Retry)
    /\ batch' = batch \ {current} /\ current' = NoArray
    /\ handed' = IF arrived THEN Arrives ELSE handed
    /\ failed' = IF current.to \in subscriptions
                 THEN [failed EXCEPT ![current.to][current.post] = @ + 1] ELSE failed
    /\ UNCHANGED <<subscriptions, filter, last_id, restarts, published, chosen, begun>>

GiveUp ==
    /\ current # NoArray /\ ~TriesLeft
    /\ del(current.to)
    /\ batch' = IF current.to \in subscriptions THEN batch \ {current} ELSE {}
    /\ current' = NoArray
    /\ UNCHANGED <<last_id, ready, delayed, restarts, published>>

(***************************************************************************)
(* The server ends, or dies, and is started again.  The constructor of the *)
(* SubscriptionManager reads the subscriptions back from the database and  *)
(* goes on from their greatest identifier.                                 *)
(***************************************************************************)
Restart ==
    /\ restarts < MaxRestarts
    /\ restarts' = restarts + 1
    /\ last_id' \in {n \in subscriptions \cup {0} : \A i \in subscriptions : i <= n}
    /\ ready' = <<>> /\ delayed' = <<>> /\ batch' = {} /\ current' = NoArray
    /\ UNCHANGED <<subscriptions, filter, history>>

Next ==
    \/ \E b \in Batches : notify(b)
    \/ \E f \in Filters : add(f)
    \/ \E i \in Ids : Delete(i)
    \/ TimePasses
    \/ Pop
    \/ \E a \in batch : Get(a)
    \/ PostSucceeds
    \/ \E arrived \in BOOLEAN : PostAgain(arrived)
    \/ GiveUp
    \/ Restart

Spec == Init /\ [][Next]_vars

(***************************************************************************)
(* The thread runs until the server ends and a POST takes ten seconds at   *)
(* most (RestClient::m_timeout); time passes.                              *)
(***************************************************************************)
FairSpec ==
    /\ Spec
    /\ WF_vars(Pop)
    /\ WF_vars(\E a \in batch : Get(a))
    /\ WF_vars(PostSucceeds \/ (\E arrived \in BOOLEAN : PostAgain(arrived)) \/ GiveUp)
    /\ WF_vars(TimePasses)

-----------------------------------------------------------------------------
(***************************************************************************)
(* The promise to subscribers is kept (event_service.cpp): an array that   *)
(* is pending for a subscription, in the batch or in the queue, is owed to *)
(* it.                                                                     *)
(***************************************************************************)
Owed == [i \in Ids |-> IF i \in subscriptions THEN PendingFor(i) ELSE {}]

Promise == INSTANCE EventPromise WITH subscribed <- subscriptions, owed <- Owed

PromiseKept == Promise!Spec

(***************************************************************************)
(* An array is sent only to the subscription it was selected for, never to *)
(* a later one that has got the same identifier: identifiers are not used  *)
(* again while the server runs, and the queue does not outlive it          *)
(* (SubscriptionManager::add, EventService::get_event_array_queue).        *)
(***************************************************************************)
NeverStale ==
    \A i \in subscriptions : PendingFor(i) \cup handed[i] \subseteq chosen[i]

(***************************************************************************)
(* An array holds the events of its batch its subscriber asks for: of the  *)
(* events with the same origin and type the first, in the order of the     *)
(* batch (remove_duplicates, select_events_for_subscribers).               *)
(***************************************************************************)
FirstOfKind(b) == {k \in DOMAIN b :
    \A j \in 1..(k - 1) : b[j].origin # b[k].origin \/ b[j].type # b[k].type}

ArraysComplete ==
    \A a \in Pending :
        a.to \in subscriptions =>
            LET b == published[a.post]
                wanted == {k \in FirstOfKind(b) :
                              /\ b[k].type \in filter[a.to].types
                              /\ \/ filter[a.to].origins = {}
                                 \/ b[k].origin \in filter[a.to].origins}
            IN  \E f \in [1..Len(a.events) -> wanted] :
                    /\ \A k \in wanted : \E j \in DOMAIN f : f[j] = k
                    /\ \A j, k \in DOMAIN f : j < k => f[j] < f[k]
                    /\ \A j \in DOMAIN f : a.events[j] = b[f[j]]

(***************************************************************************)
(* Arrays are sent to a subscription for the first time in the order they  *)
(* were posted in, however many retries of earlier ones are under way      *)
(* (push_back and wait_for_and_pop of EventArrayQueue).                    *)
(***************************************************************************)
FirstTriesInOrder ==
    [][\A i \in subscriptions \cap subscriptions' : begun'[i] # begun[i] => begun'[i] > begun[i]]_vars

(***************************************************************************)
(* The service ends a subscription only after as many failed POSTs of one  *)
(* and the same array, the one that fails now among them, as are           *)
(* configured (send_event_array).                                          *)
(***************************************************************************)
EndedForCause ==
    [][\A i \in subscriptions \ subscriptions' :
          \/ Delete(i)
          \/ current.to = i /\ failed[i][current.post] + 1 >= Attempts]_vars

(***************************************************************************)
(* While a subscription lives, fewer POSTs of any one array have failed    *)
(* than are configured: whatever is deleted, added again or restarted      *)
(* meanwhile, no array is posted for ever (send_event_array).              *)
(***************************************************************************)
FailuresBounded ==
    \A i \in subscriptions, n \in Posts : failed[i][n] > 0 => failed[i][n] < Attempts

(***************************************************************************)
(* No array stays pending for a subscription: it arrives, or is given up   *)
(* (m_handle_events, send_event_array).                                    *)
(***************************************************************************)
NothingStaysPending ==
    \A i \in Ids, n \in Posts : (n \in PendingFor(i)) ~> (n \notin PendingFor(i))
=============================================================================
