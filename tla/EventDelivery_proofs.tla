------------------------ MODULE EventDelivery_proofs ------------------------
(***************************************************************************)
(* The event service keeps its promise to subscribers, sends each array    *)
(* only to the subscription it was selected for, complete and in order,    *)
(* ends subscriptions only for cause, and retries no array for ever: for   *)
(* any batches, filters and bounds.                                        *)
(***************************************************************************)
EXTENDS EventDelivery, WellFoundedInduction, TLAPS

Queued == Elements(ready) \cup Elements(delayed)
Unaddressed == {a \in Elements(ready) : a.to = Nobody}

SameKey(a, b) == a.to = b.to /\ a.post = b.post

(* No two positions of a queue hold arrays of the same post and subscriber. *)
Distinct(s) == \A j, k \in DOMAIN s : SameKey(s[j], s[k]) => j = k

(* Arrays that are not addressed stand in the order they were posted in. *)
Ordered(s) == \A j, k \in DOMAIN s :
    j < k /\ s[j].to = Nobody /\ s[k].to = Nobody => s[j].post < s[k].post

Apart(S, T) == \A a \in S, b \in T : ~SameKey(a, b)

(***************************************************************************)
(* What is in the batch and behind the due arrays is addressed, and what   *)
(* is not addressed holds all events of its batch.                         *)
(***************************************************************************)
Addressing ==
    /\ \A a \in batch \cup Elements(delayed) : a.to # Nobody
    /\ \A a \in Unaddressed : a.tries = 0 /\ a.events \in Deduplicated
    /\ \A i \in subscriptions : filter[i] \in Filters

(* Whatever is queued for a subscriber is a retry; a retry is sent alone. *)
Retries ==
    /\ \A a \in Queued : a.to # Nobody => a.tries > 0
    /\ \A a \in batch : a.tries > 0 => batch = {a}

(* An array is pending for a subscriber at one place. *)
OnePlace ==
    /\ Distinct(ready) /\ Distinct(delayed)
    /\ Apart(Elements(ready), Elements(delayed))
    /\ Apart(batch, Queued)
    /\ \A a, b \in batch : a.post = b.post /\ (a.to = b.to => a = b)

PostsKnown ==
    /\ \A a \in batch \cup Queued : a.post <= Len(published)
    /\ \A i \in Ids : begun[i] <= Len(published)
    /\ \A i \in Ids : \A n \in chosen[i] \cup handed[i] : n <= Len(published)

(* An array that is not addressed yet is nobody's, and later than all that are. *)
Fresh ==
    /\ Ordered(ready)
    /\ \A a \in Unaddressed :
        /\ \A b \in Pending : b.post # a.post
        /\ \A b \in batch : b.tries = 0 => b.post < a.post
        /\ \A i \in Ids : a.post \notin chosen[i] \cup handed[i] /\ begun[i] < a.post

(* Identifiers are handed out in ascending order. *)
IdsKnown ==
    /\ \A i \in subscriptions : i <= last_id
    /\ \A a \in Pending : a.to <= last_id

Ended == \A i \in Ids \ subscriptions : handed[i] = {}

NotBegun == \A a \in batch : a.tries = 0 /\ a # current => begun[a.to] < a.post

FailuresCounted ==
    \A a \in Pending : a.to \in subscriptions => a.tries <= failed[a.to][a.post]

IInv ==
    /\ TypeOK /\ Addressing /\ Retries /\ OnePlace /\ PostsKnown /\ Fresh
    /\ IdsKnown /\ Ended /\ NeverStale /\ NotBegun /\ FailuresCounted

-----------------------------------------------------------------------------
(***************************************************************************)
(* Queues: what appending an array and taking the first one do.            *)
(***************************************************************************)
LEMMA Appended ==
    ASSUME NEW s \in Seq(Arrays), NEW a \in Arrays
    PROVE  /\ Append(s, a) \in Seq(Arrays)
           /\ Elements(Append(s, a)) = Elements(s) \cup {a}
           /\ Distinct(s) /\ (\A b \in Elements(s) : ~SameKey(b, a)) => Distinct(Append(s, a))
           /\ Ordered(s) /\ (\A b \in Elements(s) : b.to = Nobody /\ a.to = Nobody => b.post < a.post)
                => Ordered(Append(s, a))
<1> DEFINE t == Append(s, a)
<1>1. /\ t \in Seq(Arrays) /\ Len(t) = Len(s) + 1 /\ Len(s) \in Nat
      /\ \A j \in 1..Len(s) : t[j] = s[j]
      /\ t[Len(s) + 1] = a
      /\ DOMAIN s = 1..Len(s) /\ DOMAIN t = 1..(Len(s) + 1)
    OBVIOUS
<1> HIDE DEF t
<1>2. \A j \in DOMAIN t : j \in DOMAIN s \/ j = Len(s) + 1
    BY <1>1
<1>3. Elements(t) = Elements(s) \cup {a}
    BY <1>1, <1>2 DEF Elements
<1>4. ASSUME Distinct(s), \A b \in Elements(s) : ~SameKey(b, a) PROVE Distinct(t)
    BY <1>1, <1>2, <1>4 DEF Distinct, Elements, SameKey
<1>5. ASSUME Ordered(s), \A b \in Elements(s) : b.to = Nobody /\ a.to = Nobody => b.post < a.post
      PROVE  Ordered(t)
    BY <1>1, <1>2, <1>5 DEF Ordered, Elements
<1> QED BY <1>1, <1>3, <1>4, <1>5 DEF t

\* What is taken from the front of the queue, and what is left (wait_for_and_pop).
LEMMA Taken ==
    ASSUME NEW s \in Seq(Arrays), s # <<>>
    PROVE  /\ Head(s) \in Arrays /\ Tail(s) \in Seq(Arrays)
           /\ Elements(s) = {Head(s)} \cup Elements(Tail(s))
           /\ Distinct(s) => Distinct(Tail(s)) /\ \A b \in Elements(Tail(s)) : ~SameKey(b, Head(s))
           /\ Ordered(s) => /\ Ordered(Tail(s))
                            /\ \A b \in Elements(Tail(s)) :
                                 b.to = Nobody /\ Head(s).to = Nobody => Head(s).post < b.post
<1> DEFINE t == Tail(s)
<1>1. /\ Head(s) \in Arrays /\ t \in Seq(Arrays) /\ Len(t) = Len(s) - 1 /\ Len(s) \in Nat \ {0}
      /\ \A j \in 1..Len(t) : t[j] = s[j + 1]
      /\ Head(s) = s[1]
      /\ DOMAIN s = 1..Len(s) /\ DOMAIN t = 1..(Len(s) - 1)
    OBVIOUS
<1> HIDE DEF t
<1>2. \A j \in DOMAIN s : j = 1 \/ (j - 1 \in DOMAIN t /\ t[j - 1] = s[j])
    BY <1>1
<1>3. \A j \in DOMAIN t : j + 1 \in DOMAIN s /\ t[j] = s[j + 1]
    BY <1>1
<1>4. Elements(s) = {s[1]} \cup Elements(t)
  <2>1. \A x \in Elements(s) : x = s[1] \/ x \in Elements(t)
    BY <1>2 DEF Elements
  <2>2. \A x \in Elements(t) : x \in Elements(s)
    BY <1>3 DEF Elements
  <2>3. s[1] \in Elements(s)
    BY <1>1 DEF Elements
  <2> QED BY <2>1, <2>2, <2>3, Zenon
<1>5. ASSUME Distinct(s)
      PROVE  Distinct(t) /\ \A b \in Elements(t) : ~SameKey(b, s[1])
  <2>1. Distinct(t)
    BY <1>1, <1>3, <1>5 DEF Distinct
  <2>2. \A j \in DOMAIN t : ~SameKey(t[j], s[1])
    BY <1>1, <1>3, <1>5 DEF Distinct
  <2> QED BY <2>1, <2>2 DEF Elements
<1>6. ASSUME Ordered(s)
      PROVE  /\ Ordered(t)
             /\ \A b \in Elements(t) : b.to = Nobody /\ s[1].to = Nobody => s[1].post < b.post
  <2>1. Ordered(t)
    BY <1>1, <1>3, <1>6 DEF Ordered
  <2>2. \A j \in DOMAIN t : t[j].to = Nobody /\ s[1].to = Nobody => s[1].post < t[j].post
    BY <1>1, <1>3, <1>6, SMTT(40) DEF Ordered
  <2> QED BY <2>1, <2>2 DEF Elements
<1> QED BY <1>1, <1>4, <1>5, <1>6 DEF t

\* The queue of a server that has just been started (EventArrayQueue).
LEMMA EmptyQueue == <<>> \in Seq(Arrays) /\ Elements(<<>>) = {} /\ Distinct(<<>>) /\ Ordered(<<>>)
BY DEF Elements, Distinct, Ordered

(***************************************************************************)
(* Identifiers: the next one is always the successor of the last.          *)
(***************************************************************************)
LEMMA NextIdIs == ASSUME IInv PROVE NextId = last_id + 1
<1>1. last_id \in 0..MaxId /\ MaxId \in Nat /\ \A i \in subscriptions : i \in Nat /\ i <= last_id
    BY BoundsAssumption DEF IInv, TypeOK, IdsKnown, Ids
<1> DEFINE P(n) == n \notin subscriptions /\ \A m \in (last_id + 1)..(n - 1) : m \in subscriptions
<1>2. last_id + 1 \in (last_id + 1)..(MaxId + 1) /\ P(last_id + 1)
    BY <1>1
<1>3. \A n \in (last_id + 1)..(MaxId + 1) : P(n) => n = last_id + 1
    BY <1>1
<1>4. NextId = CHOOSE n \in (last_id + 1)..(MaxId + 1) : P(n)
    BY DEF NextId, FreeAfter
<1> HIDE DEF P
<1> QED BY <1>2, <1>3, <1>4

-----------------------------------------------------------------------------
\* What the thread holds and what is queued are arrays (m_handle_events).
LEMMA ArrayTypes ==
    ASSUME IInv
    PROVE  /\ batch \subseteq Arrays /\ Elements(ready) \subseteq Arrays
           /\ Elements(delayed) \subseteq Arrays
           /\ \A a \in Arrays : /\ a.post \in Nat \ {0} /\ a.post \in Posts /\ a.tries \in Nat
                                /\ a.to \in Nat /\ (a.to # Nobody => a.to \in Ids)
           /\ Len(published) \in Nat
<1>1. \A s \in Seq(Arrays) : Elements(s) \subseteq Arrays
    BY DEF Elements
<1>2. \A a \in Arrays : /\ a.post \in Nat \ {0} /\ a.post \in Posts /\ a.tries \in Nat
                        /\ a.to \in Nat /\ (a.to # Nobody => a.to \in Ids)
    BY DEF Arrays, Posts, Ids, Nobody
<1> QED BY <1>1, <1>2 DEF IInv, TypeOK

\* The invariant holds when the server starts (EventService).
LEMMA InitIInv == Init => IInv
<1> SUFFICES ASSUME Init PROVE IInv
    OBVIOUS
<1>1. Elements(ready) = {} /\ Elements(delayed) = {} /\ Queued = {} /\ Pending = {} /\ Unaddressed = {}
    BY EmptyQueue DEF Init, Queued, Pending, Unaddressed
<1>2. TypeOK
  <2>1. /\ filter \in [Ids -> Filters \cup {NoFilter}]
        /\ chosen \in [Ids -> SUBSET Posts] /\ handed \in [Ids -> SUBSET Posts]
        /\ begun \in [Ids -> Nat]
    BY DEF Init
  <2>2. failed \in [Ids -> [Posts -> Nat]]
    BY DEF Init
  <2>3. published \in Seq(Batches) /\ Len(published) \in 0..MaxPosts /\ restarts \in 0..MaxRestarts
        /\ last_id \in 0..MaxId
    BY BoundsAssumption DEF Init
  <2> QED BY <2>1, <2>2, <2>3, EmptyQueue DEF Init, TypeOK
<1>3. Addressing /\ Retries /\ OnePlace
    BY <1>1, EmptyQueue DEF Init, Addressing, Retries, OnePlace, Apart
<1>4. PostsKnown /\ Fresh
    BY <1>1, EmptyQueue DEF Init, PostsKnown, Fresh
<1>5. IdsKnown /\ Ended /\ NotBegun /\ FailuresCounted
    BY <1>1 DEF Init, IdsKnown, Ended, NotBegun, FailuresCounted
<1>6. NeverStale
    BY <1>1 DEF Init, NeverStale, PendingFor
<1> QED BY <1>2, <1>3, <1>4, <1>5, <1>6 DEF IInv

\* The invariant and a posted batch (SubscriptionManager::notify).
LEMMA NotifyKeeps == ASSUME IInv, NEW b \in Batches, notify(b) PROVE IInv'
<1> DEFINE n == Len(published) + 1
           a == [post |-> n, to |-> Nobody, tries |-> 0, events |-> remove_duplicates(b)]
<1>1. /\ ready' = Append(ready, a) /\ delayed' = delayed /\ published' = Append(published, b)
      /\ UNCHANGED <<subscriptions, filter, last_id, batch, current, restarts, chosen, handed, begun, failed>>
      /\ Len(published) < MaxPosts
    BY DEF notify, Push
<1>2. /\ published' \in Seq(Batches) /\ Len(published') = n /\ n \in Nat /\ n \in 0..MaxPosts
      /\ n > Len(published) /\ n \in Posts
    BY <1>1, BoundsAssumption DEF IInv, TypeOK, Posts
<1>3. a \in Arrays /\ a.events \in Deduplicated /\ a.post = n /\ a.to = Nobody /\ a.tries = 0
  <2>1. remove_duplicates(b) \in Deduplicated
    BY DEF Deduplicated
  <2> QED BY <1>2, <2>1 DEF Arrays, Vectors
<1> HIDE DEF a
<1>4. \A c \in batch \cup Queued : c.post < n
    BY <1>2, ArrayTypes DEF IInv, PostsKnown, Queued
<1>5. /\ ready' \in Seq(Arrays) /\ Elements(ready') = Elements(ready) \cup {a}
      /\ Distinct(ready') /\ Ordered(ready')
  <2>1. \A c \in Elements(ready) : c.post < a.post /\ ~SameKey(c, a)
    BY <1>2, <1>3, <1>4, ArrayTypes DEF SameKey, Queued
  <2> QED BY <1>1, <1>3, <2>1, Appended, Zenon DEF IInv, TypeOK, OnePlace, Fresh
<1>6. Queued' = Queued \cup {a} /\ Pending' = Pending /\ Unaddressed' = Unaddressed \cup {a}
    BY <1>1, <1>3, <1>5 DEF Queued, Pending, Unaddressed
<1>7. TypeOK'
    BY <1>1, <1>2, <1>5, Zenon DEF IInv, TypeOK
<1>8. Addressing' /\ Retries'
    BY <1>1, <1>3, <1>6, Zenon DEF IInv, Addressing, Retries
<1>9. OnePlace'
  <2>1. \A c \in batch \cup Elements(delayed) : ~SameKey(c, a) /\ ~SameKey(a, c)
    BY <1>2, <1>3, <1>4, ArrayTypes DEF SameKey, Queued
  <2> QED BY <1>1, <1>5, <1>6, <2>1 DEF IInv, OnePlace, Apart
<1>10. PostsKnown'
  <2>1. \A i \in Ids : begun[i] \in Nat /\ (chosen[i] \cup handed[i]) \subseteq Nat
    BY DEF IInv, TypeOK, Posts
  <2> QED BY <1>1, <1>2, <1>3, <1>6, <2>1, ArrayTypes DEF IInv, PostsKnown, Queued
<1>11. Fresh'
  <2>1. /\ \A c \in Pending : c.post # a.post
        /\ \A c \in batch : c.tries = 0 => c.post < a.post
    BY <1>3, <1>4, ArrayTypes DEF Pending, Queued
  <2>2. \A i \in Ids : a.post \notin chosen[i] \cup handed[i] /\ begun[i] < a.post
    <3>1. \A i \in Ids : begun[i] \in Nat /\ (chosen[i] \cup handed[i]) \subseteq Nat
      BY DEF IInv, TypeOK, Posts
    <3> QED BY <1>2, <1>3, <3>1 DEF IInv, PostsKnown
  <2> QED BY <1>1, <1>5, <1>6, <2>1, <2>2, Zenon DEF IInv, Fresh
<1>12. IdsKnown' /\ Ended' /\ NotBegun' /\ FailuresCounted'
    BY <1>1, <1>6 DEF IInv, IdsKnown, Ended, NotBegun, FailuresCounted
<1>13. NeverStale'
    BY <1>1, <1>6 DEF IInv, NeverStale, PendingFor
<1> QED BY <1>7, <1>8, <1>9, <1>10, <1>11, <1>12, <1>13 DEF IInv

\* The invariant and an array whose time comes (EventArrayQueue).
LEMMA TimePassesKeeps == ASSUME IInv, TimePasses PROVE IInv'
<1> DEFINE a == Head(delayed)
<1>1. /\ delayed # <<>> /\ ready' = Append(ready, a) /\ delayed' = Tail(delayed)
      /\ UNCHANGED <<subscriptions, filter, last_id, batch, current, restarts,
                     published, chosen, handed, begun, failed>>
    BY DEF TimePasses, history
<1>2. /\ a \in Arrays /\ delayed' \in Seq(Arrays) /\ Elements(delayed) = {a} \cup Elements(delayed')
      /\ Distinct(delayed') /\ \A b \in Elements(delayed') : ~SameKey(b, a)
    BY <1>1, Taken, Zenon DEF IInv, TypeOK, OnePlace
<1> HIDE DEF a
<1>3. a.to # Nobody
    BY <1>2 DEF IInv, Addressing
<1>4. /\ ready' \in Seq(Arrays) /\ Elements(ready') = Elements(ready) \cup {a}
      /\ Distinct(ready') /\ Ordered(ready')
  <2>1. \A b \in Elements(ready) : ~SameKey(b, a)
    BY <1>2 DEF IInv, OnePlace, Apart
  <2> QED BY <1>1, <1>2, <1>3, <2>1, Appended, Zenon DEF IInv, TypeOK, OnePlace, Fresh
<1>5. Queued' = Queued /\ Pending' = Pending /\ Unaddressed' = Unaddressed
    BY <1>1, <1>2, <1>3, <1>4 DEF Queued, Pending, Unaddressed
<1>6. TypeOK'
    BY <1>1, <1>2, <1>4, Zenon DEF IInv, TypeOK
<1>7. Addressing' /\ Retries'
    BY <1>1, <1>2, <1>5 DEF IInv, Addressing, Retries
<1>8. OnePlace'
  <2>1. Apart(Elements(ready'), Elements(delayed'))
    BY <1>2, <1>4 DEF IInv, OnePlace, Apart, SameKey
  <2> QED BY <1>1, <1>2, <1>4, <1>5, <2>1 DEF IInv, OnePlace, Apart
<1>9. PostsKnown' /\ Fresh'
    BY <1>1, <1>4, <1>5 DEF IInv, PostsKnown, Fresh
<1>10. IdsKnown' /\ Ended' /\ NotBegun' /\ FailuresCounted'
    BY <1>1, <1>5 DEF IInv, IdsKnown, Ended, NotBegun, FailuresCounted
<1>11. NeverStale'
    BY <1>1, <1>5 DEF IInv, NeverStale, PendingFor
<1> QED BY <1>6, <1>7, <1>8, <1>9, <1>10, <1>11 DEF IInv

(* Nothing is pending for a subscription that is new. *)
LEMMA NewSubscription ==
    ASSUME IInv, NextId <= MaxId
    PROVE  /\ NextId = last_id + 1 /\ NextId \in Ids /\ NextId \notin subscriptions
           /\ \A a \in Pending : a.to # NextId
<1>1. last_id \in Nat /\ subscriptions \subseteq Nat /\ Pending \subseteq Arrays
    BY ArrayTypes DEF IInv, TypeOK, Ids, Pending
<1> QED BY <1>1, NextIdIs, ArrayTypes, BoundsAssumption DEF IInv, IdsKnown, Ids

\* The invariant and a new subscription (SubscriptionManager::add).
LEMMA AddKeeps == ASSUME IInv, NEW f \in Filters, add(f) PROVE IInv'
<1>1. /\ NextId <= MaxId /\ last_id' = NextId /\ subscriptions' = subscriptions \cup {NextId}
      /\ filter' = [filter EXCEPT ![NextId] = f]
      /\ UNCHANGED <<ready, delayed, batch, current, restarts, published, chosen, handed, begun, failed>>
    BY DEF add, history
<1>2. /\ NextId = last_id + 1 /\ NextId \in Ids /\ NextId \notin subscriptions
      /\ \A a \in Pending : a.to # NextId
    BY <1>1, NewSubscription
<1>3. Queued' = Queued /\ Pending' = Pending /\ Unaddressed' = Unaddressed
    BY <1>1 DEF Queued, Pending, Unaddressed
<1>4. TypeOK'
  <2>1. filter' \in [Ids -> Filters \cup {NoFilter}] /\ last_id' \in 0..MaxId /\ subscriptions' \subseteq Ids
    BY <1>1, <1>2, BoundsAssumption DEF IInv, TypeOK, Ids
  <2> QED BY <1>1, <2>1, Zenon DEF IInv, TypeOK
<1>5. Addressing' /\ Retries' /\ OnePlace'
  <2>1. \A i \in subscriptions' : filter'[i] \in Filters
    BY <1>1, <1>2 DEF IInv, TypeOK, Addressing
  <2> QED BY <1>1, <1>3, <2>1, Zenon DEF IInv, Addressing, Retries, OnePlace
<1>6. PostsKnown' /\ Fresh'
    BY <1>1, <1>3, Zenon DEF IInv, PostsKnown, Fresh
<1>7. IdsKnown'
  <2>1. last_id \in Nat /\ subscriptions \subseteq Nat /\ \A a \in Pending : a.to \in Nat
    BY ArrayTypes DEF IInv, TypeOK, Ids, Pending
  <2> QED BY <1>1, <1>2, <1>3, <2>1 DEF IInv, IdsKnown
<1>8. Ended' /\ NotBegun' /\ FailuresCounted'
    BY <1>1, <1>2, <1>3, Zenon DEF IInv, Ended, NotBegun, FailuresCounted
<1>9. NeverStale'
  <2>1. PendingFor(NextId) = {} /\ handed[NextId] = {}
    BY <1>2 DEF IInv, PendingFor, Ended
  <2>2. \A i : PendingFor(i)' = PendingFor(i)
    BY <1>3 DEF PendingFor
  <2> QED BY <1>1, <2>1, <2>2, Zenon DEF IInv, NeverStale
<1> QED BY <1>4, <1>5, <1>6, <1>7, <1>8, <1>9 DEF IInv

-----------------------------------------------------------------------------
(***************************************************************************)
(* Steps that take arrays out of the batch and leave the queue alone.      *)
(***************************************************************************)
LEMMA Shrunk ==
    ASSUME IInv, UNCHANGED <<ready, delayed, published>>, batch' \subseteq batch
    PROVE  /\ Queued' = Queued /\ Unaddressed' = Unaddressed /\ Pending' \subseteq Pending
           /\ Retries' /\ OnePlace'
           /\ \A i : PendingFor(i)' \subseteq PendingFor(i)
<1>1. Queued' = Queued /\ Unaddressed' = Unaddressed /\ Pending' \subseteq Pending
    BY DEF Queued, Unaddressed, Pending
<1>2. Retries'
    BY <1>1 DEF IInv, Retries
<1>3. OnePlace'
    BY <1>1 DEF IInv, OnePlace, Apart
<1>4. \A i : PendingFor(i)' \subseteq PendingFor(i)
    BY <1>1 DEF PendingFor
<1> QED BY <1>1, <1>2, <1>3, <1>4

(* A subscription ends: Delete, and send_event_array giving up. *)
LEMMA DelKeeps ==
    ASSUME IInv, NEW i \in Ids, del(i), UNCHANGED <<last_id, ready, delayed, restarts, published>>,
           batch' \subseteq batch, current' \in batch' \cup {NoArray},
           current' = current \/ current \notin batch'
    PROVE  IInv'
<1>1. /\ subscriptions' = subscriptions \ {i}
      /\ filter' = [filter EXCEPT ![i] = NoFilter]
      /\ chosen' = [chosen EXCEPT ![i] = {}] /\ handed' = [handed EXCEPT ![i] = {}]
      /\ begun' = [begun EXCEPT ![i] = 0]
      /\ failed' = [failed EXCEPT ![i] = [n \in Posts |-> 0]]
    BY DEF del
<1>2. /\ Queued' = Queued /\ Unaddressed' = Unaddressed /\ Pending' \subseteq Pending
      /\ Retries' /\ OnePlace'
      /\ \A j : PendingFor(j)' \subseteq PendingFor(j)
    BY Shrunk
<1>3. /\ filter' \in [Ids -> Filters \cup {NoFilter}] /\ \A j \in subscriptions' : filter'[j] = filter[j]
      /\ chosen' \in [Ids -> SUBSET Posts] /\ handed' \in [Ids -> SUBSET Posts]
      /\ begun' \in [Ids -> Nat]
    BY <1>1 DEF IInv, TypeOK
<1>4. failed' \in [Ids -> [Posts -> Nat]] /\ \A j \in subscriptions' : failed'[j] = failed[j]
  <2>1. [n \in Posts |-> 0] \in [Posts -> Nat]
    OBVIOUS
  <2> QED BY <1>1, <2>1 DEF IInv, TypeOK
<1>5. \A j \in Ids : /\ chosen'[j] = IF j = i THEN {} ELSE chosen[j]
                     /\ handed'[j] = IF j = i THEN {} ELSE handed[j]
                     /\ begun'[j] = IF j = i THEN 0 ELSE begun[j]
    BY <1>1 DEF IInv, TypeOK
<1>6. TypeOK'
    BY <1>1, <1>3, <1>4, Zenon DEF IInv, TypeOK
<1>7. Addressing'
    BY <1>1, <1>2, <1>3, Zenon DEF IInv, Addressing
<1>8. PostsKnown'
  <2>1. 0 <= Len(published)
    BY ArrayTypes
  <2> QED BY <1>2, <1>5, <2>1, Zenon DEF IInv, PostsKnown
<1>9. Fresh'
  <2>1. \A a \in Unaddressed : 0 < a.post
    BY ArrayTypes DEF Unaddressed
  <2> QED BY <1>2, <1>5, <2>1, Zenon DEF IInv, Fresh
<1>10. IdsKnown' /\ Ended'
    BY <1>1, <1>2, <1>5 DEF IInv, IdsKnown, Ended
<1>11. NotBegun'
  <2> SUFFICES ASSUME NEW a \in batch', a.tries = 0, a # current' PROVE begun'[a.to] < a.post
    BY DEF NotBegun
  <2>1. a \in batch /\ a # current /\ a \in Arrays /\ a.to \in Ids /\ 0 < a.post
    BY ArrayTypes DEF IInv, Addressing
  <2> QED BY <1>5, <2>1 DEF IInv, NotBegun
<1>12. FailuresCounted'
    BY <1>1, <1>2, <1>4, Zenon DEF IInv, FailuresCounted
<1>13. NeverStale'
    BY <1>1, <1>2, <1>5, Zenon DEF IInv, TypeOK, NeverStale
<1> QED BY <1>2, <1>6, <1>7, <1>8, <1>9, <1>10, <1>11, <1>12, <1>13 DEF IInv

\* The invariant and a deletion by a client (SubscriptionManager::del).
LEMMA DeleteKeeps == ASSUME IInv, NEW i \in Ids, Delete(i) PROVE IInv'
<1>1. del(i) /\ UNCHANGED <<last_id, ready, delayed, batch, current, restarts, published>>
    BY DEF Delete
<1>2. current' \in batch' \cup {NoArray} /\ batch' \subseteq batch /\ current' = current
    BY <1>1 DEF IInv, TypeOK
<1> QED BY <1>1, <1>2, DelKeeps

(* The array whose POST is under way is in the batch and addressed. *)
LEMMA CurrentType ==
    ASSUME IInv, current # NoArray
    PROVE  /\ current \in batch /\ current \in Arrays /\ current \in Pending
           /\ current.to \in Ids /\ current.post \in Posts /\ current.tries \in Nat
<1>1. current \in batch
    BY DEF IInv, TypeOK
<1> QED BY <1>1, ArrayTypes DEF IInv, Addressing, Pending

\* The invariant and the last failed POST (send_event_array).
LEMMA GiveUpKeeps == ASSUME IInv, GiveUp PROVE IInv'
<1>1. /\ del(current.to) /\ current' = NoArray /\ current.to \in Ids
      /\ UNCHANGED <<last_id, ready, delayed, restarts, published>>
    BY CurrentType DEF GiveUp
<1>2. batch' \subseteq batch \ {current}
    BY DEF GiveUp
<1>3. batch' \subseteq batch /\ current' \in batch' \cup {NoArray} /\ current \notin batch'
    BY <1>1, <1>2
<1> QED BY <1>1, <1>3, DelKeeps

\* The invariant and a restart (the constructor of SubscriptionManager).
LEMMA RestartKeeps == ASSUME IInv, Restart PROVE IInv'
<1>1. /\ ready' = <<>> /\ delayed' = <<>> /\ batch' = {} /\ current' = NoArray
      /\ last_id' \in {n \in subscriptions \cup {0} : \A i \in subscriptions : i <= n}
      /\ restarts' = restarts + 1 /\ restarts < MaxRestarts
      /\ UNCHANGED <<subscriptions, filter, published, chosen, handed, begun, failed>>
    BY DEF Restart, history
<1>2. Queued' = {} /\ Pending' = {} /\ Unaddressed' = {} /\ Elements(ready') = {} /\ Elements(delayed') = {}
    BY <1>1, EmptyQueue DEF Queued, Pending, Unaddressed
<1>3. last_id' \in 0..MaxId /\ \A i \in subscriptions : i <= last_id'
    BY <1>1, BoundsAssumption DEF IInv, TypeOK, Ids
<1>4. TypeOK'
  <2>1. restarts' \in 0..MaxRestarts
    BY <1>1, BoundsAssumption DEF IInv, TypeOK
  <2> QED BY <1>1, <1>3, <2>1, EmptyQueue, Zenon DEF IInv, TypeOK
<1>5. Addressing' /\ Retries' /\ OnePlace'
    BY <1>1, <1>2, EmptyQueue, Zenon DEF IInv, Addressing, Retries, OnePlace, Apart
<1>6. PostsKnown' /\ Fresh' /\ Ended' /\ NotBegun' /\ FailuresCounted'
    BY <1>1, <1>2, EmptyQueue, Zenon DEF IInv, PostsKnown, Fresh, Ended, NotBegun, FailuresCounted
<1>7. IdsKnown'
    BY <1>1, <1>2, <1>3 DEF IdsKnown
<1>8. NeverStale'
    BY <1>1, <1>2 DEF IInv, NeverStale, PendingFor
<1> QED BY <1>4, <1>5, <1>6, <1>7, <1>8 DEF IInv

\* The invariant and the look-up of the subscription (send_event_array).
LEMMA GetKeeps == ASSUME IInv, NEW a \in batch, Get(a) PROVE IInv'
<1>1. /\ UNCHANGED <<subscriptions, filter, last_id, ready, delayed, restarts, published, chosen, handed, failed>>
      /\ current = NoArray /\ batch' \subseteq batch
    BY DEF Get, Discard
<1>2. a \in Arrays /\ a.to \in Ids /\ a.post \in Nat /\ a.post <= Len(published)
    BY ArrayTypes DEF IInv, Addressing, PostsKnown
<1>3. /\ Queued' = Queued /\ Unaddressed' = Unaddressed /\ Pending' \subseteq Pending
      /\ Retries' /\ OnePlace'
      /\ \A j : PendingFor(j)' \subseteq PendingFor(j)
    BY <1>1, Shrunk
<1>4. \/ begun' = begun /\ current' = NoArray
      \/ begun' = begun /\ current' = a /\ a.tries # 0 /\ batch' = batch
      \/ begun' = [begun EXCEPT ![a.to] = a.post] /\ current' = a /\ a.tries = 0 /\ batch' = batch
    BY <1>1, Zenon DEF Get, Discard
<1>5. /\ begun' \in [Ids -> Nat]
      /\ \A i \in Ids : begun'[i] = begun[i] \/ (i = a.to /\ begun'[i] = a.post /\ a.tries = 0)
    BY <1>2, <1>4 DEF IInv, TypeOK
<1>6. current' \in batch' \cup {NoArray}
    BY <1>4
<1>7. TypeOK'
    BY <1>1, <1>5, <1>6 DEF IInv, TypeOK
<1>8. Addressing' /\ PostsKnown'
    BY <1>1, <1>2, <1>3, <1>5, Zenon DEF IInv, Addressing, PostsKnown
<1>9. Fresh'
    BY <1>1, <1>3, <1>5, Zenon DEF IInv, Fresh
<1>10. IdsKnown' /\ Ended' /\ FailuresCounted' /\ NeverStale'
    BY <1>1, <1>3, Zenon DEF IInv, IdsKnown, Ended, FailuresCounted, NeverStale
<1>11. NotBegun'
  <2> SUFFICES ASSUME NEW c \in batch', c.tries = 0, c # current' PROVE begun'[c.to] < c.post
    BY DEF NotBegun
  <2>1. c \in batch /\ c.to \in Ids /\ c # NoArray
    BY <1>1, ArrayTypes DEF IInv, Addressing, NoArray
  <2>2. begun[c.to] < c.post
    BY <1>1, <2>1 DEF IInv, NotBegun
  <2>3. CASE begun' = begun
    BY <2>2, <2>3
  <2>4. CASE begun' = [begun EXCEPT ![a.to] = a.post] /\ current' = a
    <3>1. c.to # a.to
      BY <2>1, <2>4 DEF IInv, OnePlace
    <3> QED BY <2>1, <2>2, <2>4, <3>1 DEF IInv, TypeOK
  <2> QED BY <1>4, <2>3, <2>4
<1> QED BY <1>3, <1>7, <1>8, <1>9, <1>10, <1>11 DEF IInv

(* What arrives at a destination is an array that was pending for it. *)
LEMMA Handed ==
    ASSUME IInv, current # NoArray, handed' \in {handed, Arrives}
    PROVE  /\ handed' \in [Ids -> SUBSET Posts]
           /\ \A i \in Ids : \/ handed'[i] = handed[i]
                             \/ /\ i = current.to /\ i \in subscriptions
                                /\ handed'[i] = handed[i] \cup {current.post}
<1>1. current.to \in Ids /\ current.post \in Posts /\ handed \in [Ids -> SUBSET Posts]
    BY CurrentType, Zenon DEF IInv, TypeOK
<1>2. \/ handed' = handed
      \/ /\ current.to \in subscriptions
         /\ handed' = [handed EXCEPT ![current.to] = handed[current.to] \cup {current.post}]
    BY DEF Arrives
<1> QED BY <1>1, <1>2

\* The invariant and a POST that is answered (send_event_array).
LEMMA PostSucceedsKeeps == ASSUME IInv, PostSucceeds PROVE IInv'
<1>1. /\ UNCHANGED <<subscriptions, filter, last_id, ready, delayed, restarts, published, chosen, begun, failed>>
      /\ current # NoArray /\ handed' = Arrives /\ batch' = batch \ {current} /\ current' = NoArray
    BY DEF PostSucceeds
<1>2. current \in Pending /\ current.to \in Ids /\ current.post \in Posts
    BY <1>1, CurrentType
<1>3. /\ handed' \in [Ids -> SUBSET Posts]
      /\ \A i \in Ids : \/ handed'[i] = handed[i]
                        \/ /\ i = current.to /\ i \in subscriptions
                           /\ handed'[i] = handed[i] \cup {current.post}
    BY <1>1, Handed, Zenon
<1>4. /\ Queued' = Queued /\ Unaddressed' = Unaddressed /\ Pending' \subseteq Pending
      /\ Retries' /\ OnePlace'
      /\ \A j : PendingFor(j)' \subseteq PendingFor(j)
    BY <1>1, Shrunk
<1>5. TypeOK' /\ Addressing'
    BY <1>1, <1>3, <1>4, Zenon DEF IInv, TypeOK, Addressing
<1>6. PostsKnown'
  <2>1. current.post <= Len(published)
    BY <1>1, CurrentType, Zenon DEF IInv, PostsKnown
  <2> QED BY <1>1, <1>3, <1>4, <2>1, Zenon DEF IInv, PostsKnown
<1>7. Fresh'
  <2> SUFFICES ASSUME NEW u \in Unaddressed'
               PROVE  /\ \A b \in Pending' : b.post # u.post
                      /\ \A b \in batch' : b.tries = 0 => b.post < u.post
                      /\ \A i \in Ids : u.post \notin chosen'[i] \cup handed'[i] /\ begun'[i] < u.post
    BY <1>1, Zenon DEF IInv, Fresh
  <2>1. /\ \A b \in Pending : b.post # u.post
        /\ \A b \in batch : b.tries = 0 => b.post < u.post
        /\ \A i \in Ids : u.post \notin chosen[i] \cup handed[i] /\ begun[i] < u.post
    BY <1>4 DEF IInv, Fresh
  <2>2. current.post # u.post
    BY <1>2, <2>1
  <2> QED BY <1>1, <1>3, <1>4, <2>1, <2>2
<1>8. IdsKnown' /\ Ended' /\ NotBegun' /\ FailuresCounted'
    BY <1>1, <1>3, <1>4, Zenon DEF IInv, IdsKnown, Ended, NotBegun, FailuresCounted
<1>9. NeverStale'
  <2>1. current.to \in subscriptions => current.post \in chosen[current.to]
    BY <1>2 DEF IInv, NeverStale, PendingFor
  <2>2. subscriptions \subseteq Ids /\ \A i \in subscriptions : PendingFor(i) \cup handed[i] \subseteq chosen[i]
    BY DEF IInv, TypeOK, NeverStale
  <2>3. \A i \in subscriptions : handed'[i] \subseteq chosen[i]
    BY <1>3, <2>1, <2>2
  <2> QED BY <1>1, <1>4, <2>2, <2>3, Zenon DEF NeverStale
<1> QED BY <1>4, <1>5, <1>6, <1>7, <1>8, <1>9 DEF IInv

\* A retry is the array it repeats but for its count (increment_retry_attempts).
LEMMA RetryIs ==
    ASSUME IInv, current # NoArray
    PROVE  /\ Retry \in Arrays /\ SameKey(Retry, current)
           /\ Retry.tries = current.tries + 1 /\ Retry.tries > 0
<1>1. current \in Arrays
    BY CurrentType
<1> QED BY <1>1 DEF Retry, Arrays, SameKey

\* The invariant and a failed POST that is repeated (send_event_array).
LEMMA PostAgainKeeps == ASSUME IInv, NEW arrived \in BOOLEAN, PostAgain(arrived) PROVE IInv'
<1> DEFINE r == Retry
<1>1. /\ UNCHANGED <<subscriptions, filter, last_id, ready, restarts, published, chosen, begun>>
      /\ current # NoArray /\ delayed' = Append(delayed, r)
      /\ batch' = batch \ {current} /\ current' = NoArray /\ handed' \in {handed, Arrives}
      /\ failed' = IF current.to \in subscriptions
                   THEN [failed EXCEPT ![current.to][current.post] = @ + 1] ELSE failed
    BY DEF PostAgain, PushDelayed
<1>2. /\ current \in batch /\ current \in Pending /\ current.to \in Ids /\ current.post \in Posts
      /\ current.tries \in Nat
    BY <1>1, CurrentType
<1>3. /\ r \in Arrays /\ r.to = current.to /\ r.post = current.post /\ r.tries = current.tries + 1
      /\ r.tries > 0 /\ r.to # Nobody
    BY <1>1, <1>2, RetryIs, Zenon DEF SameKey, IInv, Addressing
<1> HIDE DEF r
<1>4. /\ handed' \in [Ids -> SUBSET Posts]
      /\ \A i \in Ids : \/ handed'[i] = handed[i]
                        \/ /\ i = current.to /\ i \in subscriptions
                           /\ handed'[i] = handed[i] \cup {current.post}
    BY <1>1, Handed
<1>5. \A b \in Queued \cup (batch \ {current}) : ~SameKey(b, r) /\ ~SameKey(r, b)
  <2>1. ASSUME NEW b \in Queued PROVE ~SameKey(b, current)
    BY <1>2 DEF IInv, OnePlace, Apart, SameKey
  <2>2. ASSUME NEW b \in batch \ {current} PROVE ~SameKey(b, current)
    BY <1>2 DEF IInv, OnePlace, SameKey
  <2> QED BY <1>3, <2>1, <2>2 DEF SameKey
<1>6. /\ delayed' \in Seq(Arrays) /\ Elements(delayed') = Elements(delayed) \cup {r} /\ Distinct(delayed')
    BY <1>1, <1>3, <1>5, Appended, Zenon DEF IInv, TypeOK, OnePlace, Queued
<1>7. /\ Queued' = Queued \cup {r} /\ Unaddressed' = Unaddressed
      /\ Pending' = (batch \ {current}) \cup {a \in Queued : a.to # Nobody} \cup {r}
    BY <1>1, <1>3, <1>6, Zenon DEF Queued, Unaddressed, Pending
<1>8. Pending' \subseteq Pending \cup {r}
    BY <1>7 DEF Pending, Queued
<1>9. /\ failed' \in [Ids -> [Posts -> Nat]]
      /\ \A i \in Ids, n \in Posts : failed[i][n] <= failed'[i][n]
      /\ current.to \in subscriptions =>
            failed'[current.to][current.post] = failed[current.to][current.post] + 1
  <2>1. failed \in [Ids -> [Posts -> Nat]]
    BY DEF IInv, TypeOK
  <2>2. CASE current.to \notin subscriptions
    BY <1>1, <2>1, <2>2
  <2>3. CASE current.to \in subscriptions
    <3>1. failed' = [failed EXCEPT ![current.to] =
                        [failed[current.to] EXCEPT ![current.post] = failed[current.to][current.post] + 1]]
      BY <1>1, <2>3
    <3>2. failed[current.to] \in [Posts -> Nat] /\ failed[current.to][current.post] \in Nat
      BY <1>2, <2>1
    <3> DEFINE g == [failed[current.to] EXCEPT ![current.post] = failed[current.to][current.post] + 1]
    <3>3. /\ g \in [Posts -> Nat] /\ g[current.post] = failed[current.to][current.post] + 1
          /\ \A n \in Posts : failed[current.to][n] <= g[n]
      BY <1>2, <3>2
    <3> HIDE DEF g
    <3>4. failed' = [failed EXCEPT ![current.to] = g]
      BY <3>1 DEF g
    <3> QED BY <1>2, <2>1, <3>3, <3>4
  <2> QED BY <2>2, <2>3, Zenon
<1>10. TypeOK'
    BY <1>1, <1>4, <1>6, <1>9, Zenon DEF IInv, TypeOK
<1>11. Addressing' /\ Retries'
    BY <1>1, <1>3, <1>6, <1>7, Zenon DEF IInv, Addressing, Retries
<1>12. OnePlace'
  <2>1. Apart(Elements(ready'), Elements(delayed')) /\ Apart(batch', Queued')
    BY <1>1, <1>5, <1>6, <1>7 DEF IInv, OnePlace, Apart, Queued
  <2> QED BY <1>1, <1>6, <2>1, Zenon DEF IInv, OnePlace
<1>13. current.post <= Len(published)
    BY <1>2 DEF IInv, PostsKnown
<1>14. PostsKnown'
    BY <1>1, <1>3, <1>4, <1>7, <1>13, ZenonT(40) DEF IInv, PostsKnown
<1>15. Fresh'
  <2> SUFFICES ASSUME NEW u \in Unaddressed'
               PROVE  /\ \A b \in Pending' : b.post # u.post
                      /\ \A b \in batch' : b.tries = 0 => b.post < u.post
                      /\ \A i \in Ids : u.post \notin chosen'[i] \cup handed'[i] /\ begun'[i] < u.post
    BY <1>1, Zenon DEF IInv, Fresh
  <2>1. /\ \A b \in Pending : b.post # u.post
        /\ \A b \in batch : b.tries = 0 => b.post < u.post
        /\ \A i \in Ids : u.post \notin chosen[i] \cup handed[i] /\ begun[i] < u.post
    BY <1>7, Zenon DEF IInv, Fresh
  <2>2. current.post # u.post /\ r.post # u.post
    BY <1>2, <1>3, <2>1
  <2> QED BY <1>1, <1>4, <1>8, <2>1, <2>2, ZenonT(40)
<1>16. IdsKnown' /\ Ended' /\ NotBegun'
    BY <1>1, <1>2, <1>3, <1>4, <1>8, Zenon DEF IInv, IdsKnown, Ended, NotBegun
<1>17. FailuresCounted'
  <2> SUFFICES ASSUME NEW a \in Pending', a.to \in subscriptions PROVE a.tries <= failed'[a.to][a.post]
    BY <1>1, Zenon DEF FailuresCounted
  <2>1. CASE a \in Pending
    <3>1. a \in Arrays /\ a.to \in Ids /\ a.post \in Posts /\ a.tries \in Nat
      BY <2>1, ArrayTypes, Zenon DEF Pending, IInv, TypeOK
    <3>2. a.tries <= failed[a.to][a.post] /\ failed[a.to][a.post] <= failed'[a.to][a.post]
      BY <1>9, <2>1, <3>1, Zenon DEF IInv, FailuresCounted
    <3>3. failed[a.to][a.post] \in Nat /\ failed'[a.to][a.post] \in Nat
      BY <1>9, <3>1, Zenon DEF IInv, TypeOK
    <3> QED BY <3>1, <3>2, <3>3
  <2>2. CASE a = r
    <3>1. current.tries <= failed[current.to][current.post] /\ failed[current.to][current.post] \in Nat
      BY <1>2, <1>3, <2>2, Zenon DEF IInv, FailuresCounted, TypeOK
    <3> QED BY <1>2, <1>3, <1>9, <2>2, <3>1
  <2> QED BY <1>8, <2>1, <2>2
<1>18. NeverStale'
  <2>1. subscriptions \subseteq Ids /\ \A i \in subscriptions : PendingFor(i) \cup handed[i] \subseteq chosen[i]
    BY DEF IInv, TypeOK, NeverStale
  <2>2. \A i : PendingFor(i)' \subseteq PendingFor(i)
    BY <1>2, <1>3, <1>8 DEF PendingFor
  <2>3. current.to \in subscriptions => current.post \in chosen[current.to]
    BY <1>2, <2>1 DEF PendingFor
  <2>4. \A i \in subscriptions : handed'[i] \subseteq chosen[i]
    BY <1>4, <2>1, <2>3
  <2> QED BY <1>1, <2>1, <2>2, <2>4 DEF NeverStale
<1> QED BY <1>10, <1>11, <1>12, <1>14, <1>15, <1>16, <1>17, <1>18 DEF IInv
-----------------------------------------------------------------------------
(* The arrays made of one that is not addressed: one for each subscriber. *)
LEMMA SelectedArrays ==
    ASSUME IInv, NEW a \in Unaddressed
    PROVE  \A c \in select_events_for_subscribers(a) :
              /\ c \in Arrays /\ c.to \in subscriptions /\ c.post = a.post /\ c.tries = 0
              /\ \A d \in select_events_for_subscribers(a) : c.to = d.to => c = d
<1>1. a \in Arrays /\ a.tries = 0 /\ a.events \in Deduplicated
    BY ArrayTypes DEF IInv, Addressing, Unaddressed
<1> DEFINE F(i) == [a EXCEPT !.to = i, !.events = Select(a.events, filter[i])]
<1>2. ASSUME NEW i \in subscriptions
      PROVE  F(i) \in Arrays /\ F(i).to = i /\ F(i).post = a.post /\ F(i).tries = 0
  <2>1. i \in Ids /\ filter[i] \in Filters
    BY DEF IInv, TypeOK, Addressing
  <2>2. Select(a.events, filter[i]) \in Vectors
    BY <1>1, <2>1 DEF Vectors
  <2> HIDE DEF Select, Vectors
  <2> QED BY <1>1, <2>1, <2>2, Zenon DEF Arrays
<1> HIDE DEF F
<1>3. \A c \in select_events_for_subscribers(a) : \E i \in subscriptions : c = F(i)
    BY Zenon DEF select_events_for_subscribers, F
<1> QED BY <1>2, <1>3

\* The invariant and an array that is distributed (select_events_for_subscribers).
LEMMA PopNewKeeps == ASSUME IInv, Pop, Head(ready).to = Nobody PROVE IInv'
<1> DEFINE a == Head(ready)
           B == select_events_for_subscribers(a)
<1>1. /\ batch = {} /\ ready # <<>> /\ batch' = B /\ ready' = Tail(ready)
      /\ chosen' = [i \in Ids |-> IF \E b \in batch' : b.to = i THEN chosen[i] \cup {a.post} ELSE chosen[i]]
      /\ UNCHANGED <<subscriptions, filter, last_id, delayed, current, restarts, published, handed, begun, failed>>
    BY Zenon DEF Pop
<1>2. /\ ready' \in Seq(Arrays) /\ Elements(ready) = {a} \cup Elements(ready')
      /\ Distinct(ready') /\ Ordered(ready')
      /\ \A b \in Elements(ready') : b.to = Nobody => a.post < b.post
    BY <1>1, Taken, Zenon DEF IInv, TypeOK, OnePlace, Fresh
<1>3. a \in Unaddressed /\ a.to = Nobody /\ a \in Arrays
    BY <1>2, ArrayTypes DEF Unaddressed
<1>4. \A c \in B : /\ c \in Arrays /\ c.to \in subscriptions /\ c.post = a.post /\ c.tries = 0
                   /\ \A d \in B : c.to = d.to => c = d
    BY <1>3, SelectedArrays
<1> HIDE DEF a, B
<1>5. a.post \in Posts /\ a.post \in Nat /\ a.post <= Len(published) /\ \A c \in B : c.to \in Ids /\ c.to # Nobody
  <2>1. \A i \in subscriptions : i \in Ids /\ i # Nobody
    BY DEF IInv, TypeOK, Ids, Nobody
  <2> QED BY <1>2, <1>3, <1>4, <2>1, ArrayTypes, Zenon DEF IInv, PostsKnown, Queued
<1>6. Queued = {a} \cup Queued' /\ Unaddressed' \subseteq Unaddressed /\ Pending' = Pending \cup B
    BY <1>1, <1>2, <1>3, <1>5, Zenon DEF Queued, Unaddressed, Pending
<1>7. \A b \in Pending : b.post # a.post
    BY <1>3 DEF IInv, Fresh
<1>8. \A u \in Unaddressed' : a.post < u.post /\ u.post \in Nat
    BY <1>2, ArrayTypes DEF Unaddressed
<1>9. current = NoArray
    BY <1>1, Zenon DEF IInv, TypeOK
<1>10. /\ chosen' \in [Ids -> SUBSET Posts]
       /\ \A i \in Ids : chosen[i] \subseteq chosen'[i] /\ chosen'[i] \subseteq chosen[i] \cup {a.post}
       /\ \A c \in B : a.post \in chosen'[c.to]
    BY <1>1, <1>5, Zenon DEF IInv, TypeOK
<1>11. TypeOK'
  <2>1. batch' \subseteq Arrays /\ current' \in batch' \cup {NoArray}
    BY <1>1, <1>4, <1>9, Zenon
  <2> QED BY <1>1, <1>2, <1>10, <2>1, Zenon DEF IInv, TypeOK
<1>12. Addressing' /\ Retries'
  <2>1. Addressing'
    BY <1>1, <1>5, <1>6, Zenon DEF IInv, Addressing
  <2>2. \A q \in Queued' : q.to # Nobody => q.tries > 0
    BY <1>6 DEF IInv, Retries
  <2>3. \A c \in batch' : c.tries = 0
    BY <1>1, <1>4, Zenon
  <2>4. \A c \in batch' : c.tries > 0 => batch' = {c}
    BY <2>3
  <2> QED BY <2>1, <2>2, <2>4 DEF Retries
<1>13. OnePlace'
  <2>1. Apart(B, Queued')
    <3> SUFFICES ASSUME NEW c \in B, NEW q \in Queued', c.to = q.to, c.post = q.post PROVE FALSE
      BY DEF Apart, SameKey
    <3>1. q \in Pending
      BY <1>5, <1>6, Zenon DEF Pending, Queued
    <3> QED BY <1>4, <1>7, <3>1, Zenon
  <2>2. Apart(Elements(ready'), Elements(delayed'))
    BY <1>1, <1>2, Zenon DEF IInv, OnePlace, Apart
  <2> QED BY <1>1, <1>2, <1>4, <2>1, <2>2, Zenon DEF IInv, OnePlace
<1>14. PostsKnown'
  <2>1. \A i \in Ids : \A n \in chosen'[i] \cup handed'[i] : n <= Len(published')
    BY <1>1, <1>5, <1>10, Zenon DEF IInv, PostsKnown
  <2> QED BY <1>1, <1>4, <1>5, <1>6, <2>1, Zenon DEF IInv, PostsKnown
<1>15. Fresh'
  <2> SUFFICES ASSUME NEW u \in Unaddressed'
               PROVE  /\ \A b \in Pending' : b.post # u.post
                      /\ \A b \in batch' : b.tries = 0 => b.post < u.post
                      /\ \A i \in Ids : u.post \notin chosen'[i] \cup handed'[i] /\ begun'[i] < u.post
    BY <1>2, Zenon DEF Fresh
  <2>1. u \in Unaddressed /\ a.post < u.post /\ a.post # u.post
    BY <1>5, <1>6, <1>8
  <2> QED BY <1>1, <1>4, <1>6, <1>10, <2>1, Zenon DEF IInv, Fresh
<1>16. IdsKnown' /\ Ended'
    BY <1>1, <1>4, <1>6, Zenon DEF IInv, IdsKnown, Ended
<1>17. NotBegun'
    BY <1>1, <1>3, <1>4, <1>5, Zenon DEF IInv, Fresh, NotBegun
<1>18. FailuresCounted'
  <2>1. \A c \in B : 0 <= failed[c.to][c.post]
    <3>1. failed \in [Ids -> [Posts -> Nat]]
      BY DEF IInv, TypeOK
    <3> QED BY <1>4, <1>5, <3>1
  <2> QED BY <1>1, <1>4, <1>6, <2>1, Zenon DEF IInv, FailuresCounted
<1>19. NeverStale'
  <2>1. subscriptions \subseteq Ids /\ \A i \in subscriptions : PendingFor(i) \cup handed[i] \subseteq chosen[i]
    BY DEF IInv, TypeOK, NeverStale
  <2>2. \A i : PendingFor(i)' \subseteq PendingFor(i) \cup {c.post : c \in {b \in B : b.to = i}}
    BY <1>6 DEF PendingFor
  <2> SUFFICES ASSUME NEW i \in subscriptions PROVE PendingFor(i)' \cup handed'[i] \subseteq chosen'[i]
    BY <1>1, Zenon DEF NeverStale
  <2>3. {c.post : c \in {b \in B : b.to = i}} \subseteq chosen'[i]
    BY <1>4, <1>10
  <2>4. chosen[i] \subseteq chosen'[i] /\ handed' = handed
    BY <1>1, <1>10, <2>1, Zenon
  <2> QED BY <2>1, <2>2, <2>3, <2>4
<1> QED BY <1>11, <1>12, <1>13, <1>14, <1>15, <1>16, <1>17, <1>18, <1>19 DEF IInv

\* The invariant and an array that is sent again (m_handle_events).
LEMMA PopRetryKeeps == ASSUME IInv, Pop, Head(ready).to # Nobody PROVE IInv'
<1> DEFINE a == Head(ready)
<1>1. /\ batch = {} /\ ready # <<>> /\ batch' = {a} /\ ready' = Tail(ready)
      /\ UNCHANGED <<subscriptions, filter, last_id, delayed, current, restarts, published,
                     chosen, handed, begun, failed>>
    BY Zenon DEF Pop
<1>2. /\ ready' \in Seq(Arrays) /\ Elements(ready) = {a} \cup Elements(ready')
      /\ Distinct(ready') /\ Ordered(ready')
      /\ \A b \in Elements(ready') : ~SameKey(b, a)
    BY <1>1, Taken, Zenon DEF IInv, TypeOK, OnePlace, Fresh
<1>3. a \in Arrays /\ a.to # Nobody /\ a.tries > 0 /\ a.post \in Nat /\ a.tries \in Nat
    BY <1>2, ArrayTypes, Zenon DEF IInv, Retries, Queued
<1> HIDE DEF a
<1>4. Queued = {a} \cup Queued' /\ Unaddressed' = Unaddressed /\ Pending' = Pending
    BY <1>1, <1>2, <1>3, Zenon DEF Queued, Unaddressed, Pending
<1>5. TypeOK'
    BY <1>1, <1>2, <1>3, Zenon DEF IInv, TypeOK
<1>6. Addressing' /\ Retries'
    BY <1>1, <1>3, <1>4, Zenon DEF IInv, Addressing, Retries
<1>7. OnePlace'
  <2>1. Apart(Elements(ready), Elements(delayed))
    BY DEF IInv, OnePlace
  <2>2. Apart(Elements(ready'), Elements(delayed'))
    BY <1>1, <1>2, <2>1 DEF Apart
  <2>3. Apart({a}, Queued')
    BY <1>1, <1>2, <2>1 DEF Apart, SameKey, Queued
  <2> QED BY <1>1, <1>2, <2>2, <2>3, Zenon DEF IInv, OnePlace
<1>8. PostsKnown'
    BY <1>1, <1>4, Zenon DEF IInv, PostsKnown
<1>9. Fresh'
  <2> SUFFICES ASSUME NEW u \in Unaddressed'
               PROVE  /\ \A b \in Pending' : b.post # u.post
                      /\ \A b \in batch' : b.tries = 0 => b.post < u.post
                      /\ \A i \in Ids : u.post \notin chosen'[i] \cup handed'[i] /\ begun'[i] < u.post
    BY <1>2, Zenon DEF Fresh
  <2>1. /\ \A b \in Pending : b.post # u.post
        /\ \A b \in batch : b.tries = 0 => b.post < u.post
        /\ \A i \in Ids : u.post \notin chosen[i] \cup handed[i] /\ begun[i] < u.post
    BY <1>4 DEF IInv, Fresh
  <2> QED BY <1>1, <1>3, <1>4, <2>1
<1>10. IdsKnown' /\ Ended'
    BY <1>1, <1>4 DEF IInv, IdsKnown, Ended
<1>11. NotBegun'
    BY <1>1, <1>3 DEF NotBegun
<1>12. FailuresCounted'
    BY <1>1, <1>4 DEF IInv, FailuresCounted
<1>13. NeverStale'
    BY <1>1, <1>4 DEF IInv, NeverStale, PendingFor
<1> QED BY <1>5, <1>6, <1>7, <1>8, <1>9, <1>10, <1>11, <1>12, <1>13 DEF IInv
-----------------------------------------------------------------------------
\* Every step keeps the invariant (EventService, SubscriptionManager).
LEMMA NextKeepsIInv == IInv /\ [Next]_vars => IInv'
<1> SUFFICES ASSUME IInv, [Next]_vars PROVE IInv'
    OBVIOUS
<1>1. CASE UNCHANGED vars
  <2>1. UNCHANGED <<subscriptions, filter, last_id, ready, delayed, batch, current, restarts,
                    published, chosen, handed, begun, failed>>
    BY <1>1 DEF vars
  <2>2. UNCHANGED <<Queued, Unaddressed, Pending>>
    BY <2>1 DEF Queued, Unaddressed, Pending
  <2>3. TypeOK' /\ Addressing' /\ Retries' /\ OnePlace' /\ PostsKnown'
    BY <2>1, <2>2, Zenon DEF IInv, TypeOK, Addressing, Retries, OnePlace, PostsKnown
  <2>4. Fresh' /\ IdsKnown' /\ Ended' /\ NotBegun' /\ FailuresCounted'
    BY <2>1, <2>2, Zenon DEF IInv, Fresh, IdsKnown, Ended, NotBegun, FailuresCounted
  <2>5. NeverStale'
    BY <2>1, <2>2, Zenon DEF IInv, NeverStale, PendingFor
  <2> QED BY <2>3, <2>4, <2>5 DEF IInv
<1>2. CASE Pop
    BY <1>2, PopNewKeeps, PopRetryKeeps
<1> QED BY <1>1, <1>2, NotifyKeeps, AddKeeps, DeleteKeeps, TimePassesKeeps, GetKeeps,
           PostSucceedsKeeps, PostAgainKeeps, GiveUpKeeps, RestartKeeps, Zenon DEF Next

\* The invariant holds in every state of the server (EventService, SubscriptionManager).
THEOREM Invariance == Spec => []IInv
BY InitIInv, NextKeepsIInv, PTL DEF Spec

(***************************************************************************)
(* An array is sent only to the subscription it was selected for, however  *)
(* identifiers are used again after restarts (SubscriptionManager).        *)
(***************************************************************************)
THEOREM NotStale == Spec => []NeverStale
<1>1. IInv => NeverStale
    BY DEF IInv
<1> QED BY <1>1, Invariance, PTL

(***************************************************************************)
(* First attempts reach a subscription in the order of the posts, whatever *)
(* is retried meanwhile (EventArrayQueue).                                 *)
(***************************************************************************)
THEOREM InOrder == Spec => FirstTriesInOrder
<1>1. IInv /\ [Next]_vars =>
        [\A i \in subscriptions \cap subscriptions' : begun'[i] # begun[i] => begun'[i] > begun[i]]_vars
  <2> SUFFICES ASSUME IInv, Next, NEW i \in subscriptions, i \in subscriptions', begun'[i] # begun[i]
               PROVE  begun'[i] > begun[i]
    OBVIOUS
  <2>1. i \in Ids /\ begun \in [Ids -> Nat]
    BY DEF IInv, TypeOK
  <2>2. ASSUME NEW j \in Ids, del(j) PROVE FALSE
    <3>1. i # j /\ begun' = [begun EXCEPT ![j] = 0]
      BY <2>2 DEF del
    <3> QED BY <2>1, <3>1
  <2>3. ~(\E j \in Ids : Delete(j)) /\ ~GiveUp
    BY <2>2, CurrentType DEF Delete, GiveUp
  <2>4. ~(\E b \in Batches : notify(b)) /\ ~(\E f \in Filters : add(f)) /\ ~TimePasses /\ ~Pop
    BY Zenon DEF notify, add, TimePasses, Pop, history
  <2>5. ~PostSucceeds /\ ~(\E arrived \in BOOLEAN : PostAgain(arrived)) /\ ~Restart
    BY Zenon DEF PostSucceeds, PostAgain, Restart, history
  <2>6. PICK a \in batch : Get(a)
    BY <2>3, <2>4, <2>5, Zenon DEF Next
  <2>7. current = NoArray /\ a.tries = 0 /\ begun' = [begun EXCEPT ![a.to] = a.post]
    BY <2>6 DEF Get, Discard
  <2>8. a # NoArray /\ a.to = i /\ a.post \in Nat /\ begun'[i] = a.post
    BY <2>1, <2>7, ArrayTypes, Zenon DEF IInv, Addressing, NoArray
  <2>9. begun[i] < a.post
    BY <2>7, <2>8 DEF IInv, NotBegun
  <2> QED BY <2>1, <2>8, <2>9
<1> QED BY <1>1, Invariance, PTL DEF Spec, FirstTriesInOrder

(***************************************************************************)
(* The service ends a subscription only after the configured number of     *)
(* failed POSTs of one array (send_event_array).                           *)
(***************************************************************************)
THEOREM OnlyForCause == Spec => EndedForCause
<1>1. IInv /\ [Next]_vars =>
        [\A i \in subscriptions \ subscriptions' :
            \/ Delete(i)
            \/ current.to = i /\ failed[i][current.post] + 1 >= Attempts]_vars
  <2> SUFFICES ASSUME IInv, Next, NEW i \in subscriptions, i \notin subscriptions', ~Delete(i)
               PROVE  current.to = i /\ failed[i][current.post] + 1 >= Attempts
    OBVIOUS
  <2>1. ~(\E b \in Batches : notify(b)) /\ ~(\E f \in Filters : add(f)) /\ ~TimePasses /\ ~Pop
    BY Zenon DEF notify, add, TimePasses, Pop
  <2>2. ~PostSucceeds /\ ~(\E arrived \in BOOLEAN : PostAgain(arrived)) /\ ~Restart
    BY DEF PostSucceeds, PostAgain, Restart
  <2>3. ~(\E a \in batch : Get(a)) /\ ~(\E j \in Ids : Delete(j))
    BY Zenon DEF Get, Delete, del
  <2>4. GiveUp
    BY <2>1, <2>2, <2>3, Zenon DEF Next
  <2>5. current # NoArray /\ current.to = i /\ ~(Retry.tries < Attempts)
    BY <2>4, Zenon DEF GiveUp, TriesLeft, del
  <2>6. current \in Pending /\ current.tries \in Nat /\ i \in Ids /\ current.post \in Posts
    BY <2>5, CurrentType
  <2>7. current.tries <= failed[i][current.post] /\ failed[i][current.post] \in Nat
    BY <2>5, <2>6, Zenon DEF IInv, FailuresCounted, TypeOK
  <2>8. Retry.tries = current.tries + 1 /\ Attempts \in Nat
    BY <2>5, RetryIs, BoundsAssumption
  <2> QED BY ONLY <2>5, <2>6, <2>7, <2>8
<1> QED BY <1>1, Invariance, PTL DEF Spec, EndedForCause
-----------------------------------------------------------------------------
(***************************************************************************)
(* Refinement: what is owed changes as the promise says.                   *)
(***************************************************************************)
LEMMA SameOwed ==
    ASSUME subscriptions' = subscriptions,
           \A i \in subscriptions : PendingFor(i)' = PendingFor(i)
    PROVE  Owed' = Owed
BY DEF Owed

\* What is pending is addressed to an identifier (EventArray).
LEMMA PendingTypes ==
    ASSUME IInv, NEW a \in Pending
    PROVE  a \in Arrays /\ a.to \in Ids /\ a.post \in Posts /\ a.tries \in Nat
BY ArrayTypes, Zenon DEF Pending, IInv, TypeOK, Addressing

\* Moving arrays to and inside the queue leaves what is pending (EventArrayQueue).
LEMMA QueueSteps ==
    ASSUME IInv, (\E b \in Batches : notify(b)) \/ TimePasses \/ (Pop /\ Head(ready).to # Nobody)
    PROVE  Pending' = Pending
<1>1. ready \in Seq(Arrays) /\ delayed \in Seq(Arrays)
  BY DEF IInv, TypeOK
<1>2. ASSUME NEW b \in Batches, notify(b) PROVE Pending' = Pending
  <2> DEFINE a == [post |-> Len(published) + 1, to |-> Nobody, tries |-> 0,
                   events |-> remove_duplicates(b)]
  <2>1. ready' = Append(ready, a) /\ delayed' = delayed /\ batch' = batch /\ a.to = Nobody
    BY <1>2, Zenon DEF notify, Push
  <2>2. a \in Arrays
    <3>1. remove_duplicates(b) \in Vectors
      BY DEF Vectors, Deduplicated
    <3>2. Len(published) + 1 \in Posts
      <4>1. Len(published) < MaxPosts /\ Len(published) \in 0..MaxPosts
        BY <1>2, Zenon DEF notify, IInv, TypeOK
      <4> QED BY ONLY <4>1, BoundsAssumption DEF Posts
    <3> QED BY <3>1, <3>2 DEF Arrays
  <2> HIDE DEF a
  <2>3. Elements(ready') = Elements(ready) \cup {a}
    BY <1>1, <2>1, <2>2, Appended, Zenon
  <2> QED BY <2>1, <2>3 DEF Pending
<1>3. ASSUME TimePasses PROVE Pending' = Pending
  <2>1. /\ delayed # <<>> /\ ready' = Append(ready, Head(delayed)) /\ delayed' = Tail(delayed)
        /\ batch' = batch
    BY <1>3 DEF TimePasses
  <2>2. Elements(delayed) = {Head(delayed)} \cup Elements(delayed') /\ Head(delayed) \in Arrays
    BY <1>1, <2>1, Taken, Zenon
  <2>3. Elements(ready') = Elements(ready) \cup {Head(delayed)}
    BY <1>1, <2>1, <2>2, Appended
  <2> QED BY <2>1, <2>2, <2>3 DEF Pending
<1>4. ASSUME Pop, Head(ready).to # Nobody PROVE Pending' = Pending
  <2>1. batch = {} /\ ready # <<>> /\ batch' = {Head(ready)} /\ ready' = Tail(ready) /\ delayed' = delayed
    BY <1>4, Zenon DEF Pop
  <2>2. Elements(ready) = {Head(ready)} \cup Elements(ready')
    BY <1>1, <2>1, Taken, Zenon
  <2> QED BY <1>4, <2>1, <2>2 DEF Pending
<1> QED BY <1>2, <1>3, <1>4

\* Moving arrays to and inside the queue changes no promise (EventArrayQueue).
LEMMA QueueStepsStutter ==
    ASSUME IInv, (\E b \in Batches : notify(b)) \/ TimePasses \/ (Pop /\ Head(ready).to # Nobody)
    PROVE  UNCHANGED <<subscriptions, Owed, handed>>
<1>1. UNCHANGED <<subscriptions, handed>>
    BY Zenon DEF notify, TimePasses, Pop, history
<1>2. Pending' = Pending
    BY QueueSteps, Zenon
<1>3. \A i : PendingFor(i)' = PendingFor(i)
    BY <1>2 DEF PendingFor
<1> QED BY <1>1, <1>3, SameOwed

\* add is a Subscribe of the promise (SubscriptionManager::add).
LEMMA AddSubscribes == ASSUME IInv, NEW f \in Filters, add(f) PROVE Promise!Subscribe(NextId)
<1>1. /\ NextId <= MaxId /\ subscriptions' = subscriptions \cup {NextId}
      /\ UNCHANGED <<ready, delayed, batch, handed>>
    BY DEF add, history
<1>2. NextId \in Ids /\ NextId \notin subscriptions /\ \A a \in Pending : a.to # NextId
    BY <1>1, NewSubscription
<1>3. \A i : PendingFor(i)' = PendingFor(i)
    BY <1>1, Zenon DEF PendingFor, Pending
<1>4. PendingFor(NextId) = {}
    BY <1>2 DEF PendingFor
<1>5. Owed' = Owed
    BY <1>1, <1>3, <1>4 DEF Owed
<1> QED BY <1>1, <1>2, <1>5 DEF Promise!Subscribe

(* A subscription ends: what others are owed does not change. *)
LEMMA DelEnds ==
    ASSUME IInv, NEW i \in Ids, del(i), \A j \in Ids \ {i} : PendingFor(j)' = PendingFor(j)
    PROVE  Promise!End(i)
<1>1. subscriptions' = subscriptions \ {i} /\ handed' = [handed EXCEPT ![i] = {}]
    BY DEF del
<1>2. Owed' = [Owed EXCEPT ![i] = {}]
    BY <1>1, Zenon DEF Owed
<1> QED BY <1>1, <1>2 DEF Promise!End

\* A deletion by a client is an Unsubscribe (SubscriptionManager::del).
LEMMA DeleteUnsubscribes == ASSUME IInv, NEW i \in Ids, Delete(i) PROVE Promise!Unsubscribe(i)
<1>1. i \in subscriptions /\ del(i) /\ UNCHANGED <<ready, delayed, batch>>
    BY DEF Delete
<1>2. \A j \in Ids \ {i} : PendingFor(j)' = PendingFor(j)
    BY <1>1, Zenon DEF PendingFor, Pending
<1> QED BY <1>1, <1>2, DelEnds DEF Promise!Unsubscribe

\* Distributing an array publishes it once (select_events_for_subscribers).
LEMMA PopPublishes ==
    ASSUME IInv, Pop, Head(ready).to = Nobody
    PROVE  \E n \in Posts, S \in SUBSET Ids : Promise!Publish(n, S)
<1> DEFINE a == Head(ready)
           B == select_events_for_subscribers(a)
           S == {b.to : b \in B}
<1>1. /\ batch = {} /\ ready # <<>> /\ batch' = B /\ ready' = Tail(ready)
      /\ UNCHANGED <<subscriptions, delayed, handed>>
    BY Zenon DEF Pop
<1>2. Elements(ready) = {a} \cup Elements(ready')
    BY <1>1, Taken, Zenon DEF IInv, TypeOK
<1>3. a \in Unaddressed /\ a.to = Nobody /\ a.post \in Posts
    BY <1>2, ArrayTypes DEF Unaddressed
<1>4. \A c \in B : c.to \in subscriptions /\ c.post = a.post
    BY <1>3, SelectedArrays
<1> HIDE DEF a, B
<1>5. S \subseteq subscriptions /\ S \in SUBSET Ids
  <2>1. subscriptions \subseteq Ids
    BY DEF IInv, TypeOK
  <2> QED BY <1>4, <2>1
<1>6. Pending' = Pending \cup B
    BY <1>1, <1>2, <1>3, <1>4, <1>5, Zenon DEF Pending, IInv, TypeOK, Ids, Nobody
<1>7. \A i \in Ids : a.post \notin PendingFor(i) \cup handed[i]
    BY <1>3 DEF IInv, Fresh, PendingFor
<1>8. \A i \in Ids : PendingFor(i)' = IF i \in S THEN PendingFor(i) \cup {a.post} ELSE PendingFor(i)
    BY <1>4, <1>6, Zenon DEF PendingFor
<1> HIDE DEF S
<1>9. Owed' = [i \in Ids |-> IF i \in S THEN Owed[i] \cup {a.post} ELSE Owed[i]]
    BY <1>1, <1>5, <1>8, Zenon DEF Owed
<1>10. \A i \in Ids : a.post \notin Owed[i] \cup handed[i]
    BY <1>7, Zenon DEF Owed
<1> QED BY <1>1, <1>3, <1>5, <1>9, <1>10, Zenon DEF Promise!Publish

\* Looking the subscription up changes no promise (send_event_array).
LEMMA GetStutters ==
    ASSUME IInv, NEW a \in batch, Get(a)
    PROVE  UNCHANGED <<subscriptions, Owed, handed>>
<1>1. UNCHANGED <<subscriptions, ready, delayed, handed>>
    BY Zenon DEF Get
<1>2. batch' = batch \/ (a.to \notin subscriptions /\ batch' = batch \ {a})
    BY DEF Get, Discard
<1>3. \A i \in subscriptions : PendingFor(i)' = PendingFor(i)
    BY <1>1, <1>2, Zenon DEF PendingFor, Pending
<1> QED BY <1>1, <1>3, SameOwed

(* Nothing else is pending for the subscription with the number of the current array. *)
LEMMA SuccessDelivers ==
    ASSUME IInv, PostSucceeds
    PROVE  \/ Promise!Deliver(current.to, current.post, TRUE)
           \/ UNCHANGED <<subscriptions, Owed, handed>>
<1>1. /\ UNCHANGED <<subscriptions, ready, delayed>>
      /\ current # NoArray /\ handed' = Arrives /\ batch' = batch \ {current}
    BY DEF PostSucceeds
<1>2. current \in batch /\ current \in Pending /\ current.to \in Ids
    BY <1>1, CurrentType
<1>3. Pending' = Pending \ {current}
  <2>1. current \notin Queued
    BY <1>2 DEF IInv, OnePlace, Apart, SameKey
  <2> QED BY <1>1, <2>1 DEF Pending, Queued
<1>4. \A b \in Pending : b.to = current.to /\ b.post = current.post => b = current
    BY <1>2 DEF IInv, OnePlace, Apart, SameKey, Pending, Queued
<1>5. \A i \in Ids : PendingFor(i)' = IF i = current.to THEN PendingFor(i) \ {current.post} ELSE PendingFor(i)
    BY <1>2, <1>3, <1>4 DEF PendingFor
<1>6. CASE current.to \in subscriptions
  <2>1. current.post \in Owed[current.to]
    BY <1>2, <1>6 DEF Owed, PendingFor
  <2>2. handed' = [handed EXCEPT ![current.to] = @ \cup {current.post}]
    BY <1>1, <1>6 DEF Arrives
  <2>3. Owed' = [Owed EXCEPT ![current.to] = @ \ {current.post}]
    BY <1>1, <1>2, <1>5, <1>6, Zenon DEF Owed
  <2> QED BY <1>1, <2>1, <2>2, <2>3 DEF Promise!Deliver
<1>7. CASE current.to \notin subscriptions
  <2>1. handed' = handed
    BY <1>1, <1>7 DEF Arrives
  <2>2. \A i \in subscriptions : PendingFor(i)' = PendingFor(i)
    BY <1>5, <1>7 DEF IInv, TypeOK
  <2> QED BY <1>1, <2>1, <2>2, SameOwed, Zenon
<1> QED BY <1>6, <1>7, Zenon

\* A failed POST that is repeated leaves the array owed (send_event_array).
LEMMA FailureDelivers ==
    ASSUME IInv, NEW arrived \in BOOLEAN, PostAgain(arrived)
    PROVE  \/ Promise!Deliver(current.to, current.post, FALSE)
           \/ UNCHANGED <<subscriptions, Owed, handed>>
<1>1. /\ UNCHANGED <<subscriptions, ready>>
      /\ current # NoArray /\ delayed' = Append(delayed, Retry) /\ batch' = batch \ {current}
      /\ handed' = IF arrived THEN Arrives ELSE handed
    BY Zenon DEF PostAgain, PushDelayed
<1>2. current \in batch /\ current \in Pending /\ current.to \in Ids
    BY <1>1, CurrentType
<1>3. Retry \in Arrays /\ Retry.to = current.to /\ Retry.post = current.post
    BY <1>1, RetryIs, Zenon DEF SameKey
<1>4. Elements(delayed') = Elements(delayed) \cup {Retry}
    BY <1>1, <1>3, Appended, Zenon DEF IInv, TypeOK
<1>5. current.to # Nobody /\ current \notin Queued
    BY <1>2 DEF IInv, Addressing, OnePlace, Apart, SameKey
<1>6. Pending' = (Pending \ {current}) \cup {Retry}
    BY <1>1, <1>3, <1>4, <1>5 DEF Pending, Queued
<1>7. \A i : PendingFor(i)' = PendingFor(i)
    BY <1>2, <1>3, <1>6 DEF PendingFor
<1>8. Owed' = Owed
    BY <1>1, <1>7, SameOwed
<1>9. CASE arrived /\ current.to \in subscriptions
  <2>1. current.post \in Owed[current.to]
    BY <1>2, <1>9 DEF Owed, PendingFor
  <2>2. handed' = [handed EXCEPT ![current.to] = @ \cup {current.post}]
    BY <1>1, <1>9 DEF Arrives
  <2> QED BY <1>1, <1>8, <2>1, <2>2, Zenon DEF Promise!Deliver
<1>10. CASE ~arrived \/ current.to \notin subscriptions
    BY <1>1, <1>8, <1>10, Zenon DEF Arrives
<1> QED BY <1>9, <1>10, Zenon
(***************************************************************************)
(* The end of the loop over the batch loses nothing: with two POSTs or     *)
(* more it can only come after a retry, which is sent alone.               *)
(***************************************************************************)
LEMMA GiveUpTerminates ==
    ASSUME IInv, Attempts >= 2, GiveUp
    PROVE  \/ \E i \in Ids : Promise!Terminate(i)
           \/ UNCHANGED <<subscriptions, Owed, handed>>
<1>1. /\ current # NoArray /\ ~(Retry.tries < Attempts) /\ del(current.to)
      /\ UNCHANGED <<ready, delayed>>
      /\ batch' = IF current.to \in subscriptions THEN batch \ {current} ELSE {}
    BY DEF GiveUp, TriesLeft
<1>2. current \in batch /\ current \in Pending /\ current.to \in Ids /\ current.tries \in Nat
    BY <1>1, CurrentType
<1>3. current.tries > 0
  <2>1. ~(Retry.tries < Attempts) /\ Retry.tries = current.tries + 1 /\ Attempts >= 2
    BY <1>1, RetryIs
  <2>2. Attempts \in Nat
    BY BoundsAssumption
  <2> QED BY ONLY <1>2, <2>1, <2>2
<1>4. batch = {current} /\ batch' = {}
    BY <1>1, <1>2, <1>3 DEF IInv, Retries
<1>5. \A j \in Ids \ {current.to} : PendingFor(j)' = PendingFor(j)
    BY <1>1, <1>4, Zenon DEF PendingFor, Pending
<1>6. CASE current.to \in subscriptions
  <2>1. Owed[current.to] # {}
    BY <1>2, <1>6, Zenon DEF Owed, PendingFor
  <2> QED BY <1>1, <1>2, <1>5, <2>1, DelEnds, Zenon DEF Promise!Terminate
<1>7. CASE current.to \notin subscriptions
  <2>1. handed[current.to] = {} /\ handed \in [Ids -> SUBSET Posts] /\ subscriptions \subseteq Ids
    BY <1>2, <1>7 DEF IInv, Ended, TypeOK
  <2>2. subscriptions' = subscriptions /\ handed' = handed
    BY <1>1, <1>7, <2>1 DEF del
  <2> QED BY <1>5, <1>7, <2>1, <2>2, SameOwed
<1> QED BY <1>6, <1>7

\* A restart forgets what is owed and nothing else (SubscriptionManager).
LEMMA RestartRestarts == ASSUME IInv, Restart PROVE Promise!Restart
<1>1. ready' = <<>> /\ delayed' = <<>> /\ batch' = {} /\ UNCHANGED <<subscriptions, handed>>
    BY DEF Restart, history
<1>2. Pending' = {}
    BY <1>1, EmptyQueue DEF Pending
<1>3. Owed' = [i \in Ids |-> {}]
    BY <1>2 DEF Owed, PendingFor
<1> QED BY <1>1, <1>3 DEF Promise!Restart

(***************************************************************************)
(* The event service keeps its promise to every subscriber, if it may post *)
(* an array twice or more: what is owed is handed over, or lost with the   *)
(* end of the subscription or of the server, never with the end of another *)
(* subscription (send_event_array, m_handle_events).                       *)
(***************************************************************************)
THEOREM Refinement == ASSUME Attempts >= 2 PROVE Spec => PromiseKept
<1>1. Init => Promise!Init
  <2> SUFFICES ASSUME Init PROVE Promise!Init
    OBVIOUS
  <2>1. Owed = [i \in Ids |-> {}]
    BY DEF Init, Owed
  <2> QED BY <2>1 DEF Init, Promise!Init
<1>2. IInv /\ [Next]_vars => [Promise!Next]_(Promise!vars)
  <2> SUFFICES ASSUME IInv, [Next]_vars
               PROVE  Promise!Next \/ UNCHANGED <<subscriptions, Owed, handed>>
    BY DEF Promise!vars
  <2>1. CASE UNCHANGED vars
    <3>1. UNCHANGED <<subscriptions, handed, batch, ready, delayed>>
      BY <2>1 DEF vars, history
    <3> QED BY <3>1, Zenon DEF Owed, PendingFor, Pending
  <2>2. CASE \E b \in Batches : notify(b)
    BY <2>2, QueueStepsStutter, Zenon
  <2>3. ASSUME NEW f \in Filters, add(f) PROVE Promise!Next
    <3>1. NextId \in Ids
      BY <2>3, NewSubscription DEF add
    <3> QED BY <2>3, <3>1, AddSubscribes DEF Promise!Next
  <2>4. ASSUME NEW i \in Ids, Delete(i) PROVE Promise!Next
    BY <2>4, DeleteUnsubscribes DEF Promise!Next
  <2>5. CASE TimePasses
    BY <2>5, QueueStepsStutter, Zenon
  <2>6. CASE Pop
    <3>1. CASE Head(ready).to # Nobody
      BY <2>6, <3>1, QueueStepsStutter, Zenon
    <3>2. CASE Head(ready).to = Nobody
      BY <2>6, <3>2, PopPublishes, Zenon DEF Promise!Next
    <3> QED BY <3>1, <3>2, Zenon
  <2>7. CASE \E a \in batch : Get(a)
    BY <2>7, GetStutters
  <2>8. CASE PostSucceeds
    <3>1. current.to \in Ids /\ current.post \in Posts
      BY <2>8, CurrentType DEF PostSucceeds
    <3> QED BY <2>8, <3>1, SuccessDelivers, Zenon DEF Promise!Next
  <2>9. ASSUME NEW arrived \in BOOLEAN, PostAgain(arrived)
        PROVE  Promise!Next \/ UNCHANGED <<subscriptions, Owed, handed>>
    <3>1. current.to \in Ids /\ current.post \in Posts
      BY <2>9, CurrentType DEF PostAgain
    <3> QED BY <2>9, <3>1, FailureDelivers, Zenon DEF Promise!Next
  <2>10. CASE GiveUp
    BY <2>10, GiveUpTerminates DEF Promise!Next
  <2>11. CASE Restart
    BY <2>11, RestartRestarts DEF Promise!Next
  <2> QED BY <2>1, <2>2, <2>3, <2>4, <2>5, <2>6, <2>7, <2>8, <2>9, <2>10, <2>11, Zenon DEF Next
<1> QED BY <1>1, <1>2, Invariance, PTL DEF Spec, PromiseKept, Promise!Spec
-----------------------------------------------------------------------------
(***************************************************************************)
(* What the arrays hold.  The functions in remove_duplicates and Select    *)
(* are known by induction on the length of the vector they go over: the    *)
(* lengths for which a claim fails have no least element.                  *)
(***************************************************************************)
\* A set of natural numbers that is not empty has a least element.
LEMMA LeastNat ==
    ASSUME NEW T \in SUBSET Nat, T # {}
    PROVE  \E n \in T : \A m \in T : n <= m
<1> DEFINE R == OpToRel(<, Nat)
<1>1. \E n \in T : \A m \in T : ~(<<m, n>> \in R)
    BY NatLessThanWellFounded, WFMin, Zenon
<1>2. \A m, n \in Nat : m < n => <<m, n>> \in R
    BY DEF OpToRel
<1> HIDE DEF R
<1>3. PICK n \in T : \A m \in T : ~(<<m, n>> \in R)
    BY <1>1
<1>4. ASSUME NEW m \in T PROVE n <= m
  <2>1. m \in Nat /\ n \in Nat
    OBVIOUS
  <2>2. ~(m < n)
    BY <1>2, <1>3, <2>1, Zenon
  <2> QED BY ONLY <2>1, <2>2
<1> QED BY <1>4

\* A set of natural numbers without a least element is empty.
LEMMA NoLeast ==
    ASSUME NEW T \in SUBSET Nat, \A n \in T : n # 0 /\ n - 1 \in T
    PROVE  T = {}
<1>1. SUFFICES ASSUME T # {} PROVE FALSE
    OBVIOUS
<1>2. PICK n \in T : \A m \in T : n <= m
    BY <1>1, LeastNat
<1>3. n - 1 \in T /\ n \in Nat
    OBVIOUS
<1>4. n <= n - 1
    BY <1>2, <1>3
<1> QED BY ONLY <1>3, <1>4

(***************************************************************************)
(* remove_duplicates and Select go over a vector and drop some of it: what *)
(* is present already, or what is not asked for.  Walk says that g is the  *)
(* function of the one ("duplicates") or of the other, up to n.            *)
(***************************************************************************)
Dropped(what, f, k, e) == IF what = "duplicates" THEN IsPresent(k, e) ELSE ~is_subscribed_for(f, e)
WalkStep(v, what, f, g, m) ==
    IF m = 0 THEN <<>> ELSE IF Dropped(what, f, g[m - 1], v[m]) THEN g[m - 1] ELSE Append(g[m - 1], v[m])
Walk(v, what, f, g, n) == g = [m \in 0..n |-> WalkStep(v, what, f, g, m)]

\* Such a function can be continued, so there is one (remove_duplicates).
LEMMA WalkMore ==
    ASSUME NEW v, NEW what, NEW f, NEW n \in Nat \ {0}, NEW h, Walk(v, what, f, h, n - 1)
    PROVE  \E g : Walk(v, what, f, g, n)
<1> DEFINE g == [m \in 0..n |-> IF m = n THEN WalkStep(v, what, f, h, n) ELSE h[m]]
<1>1. g = [m \in 0..n |-> g[m]] /\ g[n] = WalkStep(v, what, f, h, n)
    OBVIOUS
<1>2. ASSUME NEW m \in 0..n, m # n PROVE g[m] = h[m] /\ h[m] = WalkStep(v, what, f, h, m)
  <2>1. m \in 0..(n - 1)
    BY <1>2
  <2>2. h[m] = WalkStep(v, what, f, h, m)
    BY <2>1 DEF Walk
  <2> QED BY <1>2, <2>2
<1> HIDE DEF g
<1>3. ASSUME NEW m \in 0..n PROVE g[m] = WalkStep(v, what, f, g, m)
  <2>1. g[m] = WalkStep(v, what, f, h, m)
    BY <1>1, <1>2, Zenon
  <2>2. m # 0 => m - 1 \in 0..n /\ m - 1 # n
    OBVIOUS
  <2>3. m # 0 => g[m - 1] = h[m - 1]
    BY <1>2, <2>2, Zenon
  <2> QED BY <2>1, <2>3, Zenon DEF WalkStep
<1>4. Walk(v, what, f, g, n)
    BY <1>1, <1>3 DEF Walk
<1> QED BY <1>4

LEMMA WalkExists ==
    ASSUME NEW v, Len(v) \in Nat, NEW what, NEW f
    PROVE  \E g : Walk(v, what, f, g, Len(v))
<1> DEFINE T == {n \in Nat : ~\E g : Walk(v, what, f, g, n)}
<1>1. ASSUME NEW n \in T PROVE n # 0 /\ n - 1 \in T
  <2>1. Walk(v, what, f, [m \in 0..0 |-> <<>>], 0)
    BY DEF Walk, WalkStep
  <2>2. n # 0 /\ n \in Nat \ {0} /\ n - 1 \in Nat
    BY <2>1
  <2> QED BY <2>2, WalkMore
<1>2. T = {}
  <2>1. T \in SUBSET Nat
    OBVIOUS
  <2> HIDE DEF T
  <2> QED BY <1>1, <2>1, NoLeast
<1> QED BY <1>2

\* remove_duplicates and Select are such walks.
LEMMA DuplicatesWalk ==
    ASSUME NEW b, Len(b) \in Nat
    PROVE  \E g : Walk(b, "duplicates", NoFilter, g, Len(b)) /\ remove_duplicates(b) = g[Len(b)]
<1> DEFINE k == CHOOSE h : Walk(b, "duplicates", NoFilter, h, Len(b))
<1>1. Walk(b, "duplicates", NoFilter, k, Len(b))
    BY WalkExists
<1>2. remove_duplicates(b) = k[Len(b)]
    BY DEF remove_duplicates, Walk, WalkStep, Dropped
<1> QED BY <1>1, <1>2, Zenon

LEMMA SelectWalk ==
    ASSUME NEW v, Len(v) \in Nat, NEW f
    PROVE  \E g : Walk(v, "others", f, g, Len(v)) /\ Select(v, f) = g[Len(v)]
<1> DEFINE k == CHOOSE h : Walk(v, "others", f, h, Len(v))
<1>1. Walk(v, "others", f, k, Len(v))
    BY WalkExists
<1>2. Select(v, f) = k[Len(v)]
    BY Zenon DEF Select, Walk, WalkStep, Dropped
<1> QED BY <1>1, <1>2, Zenon
(***************************************************************************)
(* u is what t holds at the positions K, in the order of t; d maps the     *)
(* positions of u to those of t.                                           *)
(***************************************************************************)
Picks(u, t, K, d) ==
    /\ d \in [1..Len(u) -> K]
    /\ \A k \in K : \E j \in 1..Len(u) : d[j] = k
    /\ \A j, k \in 1..Len(u) : j < k => d[j] < d[k]
    /\ \A j \in 1..Len(u) : u[j] = t[d[j]]

\* One more event, from a later position (remove_duplicates).
LEMMA PicksAppend ==
    ASSUME NEW S, NEW u \in Seq(S), NEW t, NEW K \in SUBSET Nat, NEW d, Picks(u, t, K, d),
           NEW n \in Nat, \A k \in K : k < n, t[n] \in S
    PROVE  \E e : Picks(Append(u, t[n]), t, K \cup {n}, e)
<1> DEFINE w == Append(u, t[n])
           l == Len(u)
           e == [j \in 1..(l + 1) |-> IF j = l + 1 THEN n ELSE d[j]]
<1>1. /\ l \in Nat /\ Len(w) = l + 1 /\ w[l + 1] = t[n]
      /\ \A j \in 1..l : w[j] = u[j]
    OBVIOUS
<1>2. /\ d \in [1..l -> K] /\ \A k \in K : \E j \in 1..l : d[j] = k
      /\ \A j, k \in 1..l : j < k => d[j] < d[k]
      /\ \A j \in 1..l : u[j] = t[d[j]]
    BY DEF Picks
<1> HIDE DEF w, l
<1>3. \A j \in 1..(l + 1) : j = l + 1 \/ j \in 1..l
    BY <1>1
<1>4. \A j \in 1..l : e[j] = d[j] /\ d[j] \in K
    BY <1>1, <1>2
<1>5. e[l + 1] = n /\ l + 1 \in 1..(l + 1) /\ \A j \in 1..l : j \in 1..(l + 1)
    BY <1>1
<1>6. e \in [1..(l + 1) -> K \cup {n}]
    BY <1>1, <1>2
<1> HIDE DEF e
<1>7. \A k \in K \cup {n} : \E j \in 1..(l + 1) : e[j] = k
    BY <1>2, <1>4, <1>5, Zenon
<1>8. ASSUME NEW j \in 1..(l + 1), NEW k \in 1..(l + 1), j < k PROVE e[j] < e[k]
  <2>1. j \in 1..l
    BY <1>1, <1>8
  <2>2. CASE k = l + 1
    BY <1>4, <1>5, <2>1, <2>2, Zenon
  <2>3. CASE k \in 1..l
    BY <1>2, <1>4, <1>8, <2>1, <2>3, Zenon
  <2> QED BY <1>3, <2>2, <2>3
<1>9. \A j \in 1..(l + 1) : w[j] = t[e[j]]
    BY <1>1, <1>2, <1>3, <1>4, <1>5, Zenon
<1>10. Picks(w, t, K \cup {n}, e)
    BY <1>1, <1>6, <1>7, <1>8, <1>9, Zenon DEF Picks
<1> QED BY <1>10 DEF w

\* The positions that a walk over v keeps, up to n.
Kept(v, what, f, g, n) == {k \in 1..n : ~Dropped(what, f, g[k - 1], v[k])}

\* A walk leaves a vector of events with what v holds at these positions.
LEMMA WalkPicks ==
    ASSUME NEW S, NEW v \in Seq(S), NEW what, NEW f, NEW g, Walk(v, what, f, g, Len(v))
    PROVE  \A n \in 0..Len(v) : g[n] \in Seq(S) /\ \E d : Picks(g[n], v, Kept(v, what, f, g, n), d)
<1> DEFINE P(n) == g[n] \in Seq(S) /\ \E d : Picks(g[n], v, Kept(v, what, f, g, n), d)
           T == {n \in 0..Len(v) : ~P(n)}
<1>1. ASSUME NEW n \in T PROVE n # 0 /\ n - 1 \in T
  <2>1. n \in 0..Len(v) /\ Len(v) \in Nat
    OBVIOUS
  <2>2. /\ n = 0 => g[n] = <<>>
        /\ n # 0 => n - 1 \in 0..Len(v)
        /\ n # 0 /\ Dropped(what, f, g[n - 1], v[n]) => g[n] = g[n - 1]
        /\ n # 0 /\ ~Dropped(what, f, g[n - 1], v[n]) => g[n] = Append(g[n - 1], v[n])
    <3>1. g[n] = WalkStep(v, what, f, g, n)
      BY ONLY <2>1, Walk(v, what, f, g, Len(v)) DEF Walk
    <3>2. n # 0 => n - 1 \in 0..Len(v)
      BY ONLY <2>1
    <3> QED BY ONLY <3>1, <3>2, Zenon DEF WalkStep
  <2>3. ASSUME n = 0 PROVE P(n)
    <3>1. g[n] = <<>> /\ g[n] \in Seq(S) /\ Len(g[n]) = 0
      <4>1. g[n] = <<>>
        BY ONLY <2>2, <2>3, Zenon
      <4>2. <<>> \in Seq(S) /\ Len(<<>>) = 0
        BY ONLY TRUE
      <4> QED BY ONLY <4>1, <4>2, Zenon
    <3>2. Kept(v, what, f, g, n) = {}
      BY <2>3 DEF Kept
    <3>3. \A j \in 1..Len(g[n]) : FALSE
      BY ONLY <3>1
    <3>4. [j \in 1..Len(g[n]) |-> 0] \in [1..Len(g[n]) -> {}]
      BY <3>3
    <3>5. Picks(g[n], v, {}, [j \in 1..Len(g[n]) |-> 0])
      BY <3>3, <3>4, Zenon DEF Picks
    <3> QED BY <3>1, <3>2, <3>5, Zenon
  <2>4. n # 0 /\ n \in 1..Len(v) /\ v[n] \in S /\ n \in Nat
    <3>1. ~P(n)
      OBVIOUS
    <3> HIDE DEF P
    <3> QED BY <2>1, <2>3, <3>1
  <2> DEFINE K == Kept(v, what, f, g, n - 1)
  <2>5. K \in SUBSET Nat /\ \A k \in K : k < n
    BY <2>4 DEF Kept
  <2>6. Kept(v, what, f, g, n) = IF Dropped(what, f, g[n - 1], v[n]) THEN K ELSE K \cup {n}
    <3>1. \A k : k \in 1..n <=> k \in 1..(n - 1) \/ k = n
      BY <2>4
    <3> QED BY <3>1 DEF Kept
  <2> HIDE DEF K
  <2>7. ASSUME P(n - 1) PROVE P(n)
    <3>1. g[n - 1] \in Seq(S)
      BY <2>7
    <3>2. PICK d : Picks(g[n - 1], v, K, d)
      BY <2>7 DEF K
    <3> HIDE DEF P
    <3>3. CASE Dropped(what, f, g[n - 1], v[n])
      BY <2>2, <2>4, <2>6, <3>1, <3>2, <3>3, Zenon DEF P
    <3>4. CASE ~Dropped(what, f, g[n - 1], v[n])
      <4>1. g[n] = Append(g[n - 1], v[n]) /\ Kept(v, what, f, g, n) = K \cup {n}
        BY <2>2, <2>4, <2>6, <3>4, Zenon
      <4>2. \E e : Picks(Append(g[n - 1], v[n]), v, K \cup {n}, e)
        BY <2>4, <2>5, <3>1, <3>2, PicksAppend, Zenon
      <4>3. g[n] \in Seq(S)
        BY <2>4, <3>1, <4>1
      <4> QED BY <4>1, <4>2, <4>3, Zenon DEF P
    <3> QED BY <3>3, <3>4
  <2> HIDE DEF P
  <2>8. n - 1 \in 0..Len(v)
    BY <2>2, <2>4, Zenon
  <2> QED BY <2>1, <2>4, <2>7, <2>8
<1>2. T = {}
  <2>1. T \in SUBSET Nat
    OBVIOUS
  <2> HIDE DEF T
  <2> QED BY <1>1, <2>1, NoLeast
<1> HIDE DEF P
<1>3. \A n \in 0..Len(v) : P(n)
    BY <1>2
<1> QED BY <1>3 DEF P
\* An event is present when one of its kind was kept at an earlier position (IsPresent).
LEMMA PresentWhen ==
    ASSUME NEW u, NEW t, NEW K, NEW d, Picks(u, t, K, d), DOMAIN u = 1..Len(u), NEW e
    PROVE  IsPresent(u, e) <=> \E k \in K : Same(t[k], e)
<1>1. ASSUME IsPresent(u, e) PROVE \E k \in K : Same(t[k], e)
  <2>1. PICK j \in 1..Len(u) : Same(u[j], e)
    BY <1>1 DEF IsPresent
  <2>2. d[j] \in K /\ u[j] = t[d[j]]
    BY DEF Picks
  <2> QED BY <2>1, <2>2, Zenon
<1>2. ASSUME NEW k \in K, Same(t[k], e) PROVE IsPresent(u, e)
  <2>1. PICK j \in 1..Len(u) : d[j] = k
    BY Zenon DEF Picks
  <2>2. u[j] = t[k]
    BY <2>1 DEF Picks
  <2> QED BY <1>2, <2>2 DEF IsPresent
<1> QED BY <1>1, <1>2

\* remove_duplicates keeps the first event of each kind, in the order of the batch.
LEMMA FirstsKept ==
    ASSUME NEW S, NEW b \in Seq(S)
    PROVE  /\ remove_duplicates(b) \in Seq(S)
           /\ \E d : Picks(remove_duplicates(b), b, FirstOfKind(b), d)
<1>1. Len(b) \in Nat /\ DOMAIN b = 1..Len(b)
    OBVIOUS
<1>2. PICK g : Walk(b, "duplicates", NoFilter, g, Len(b)) /\ remove_duplicates(b) = g[Len(b)]
    BY <1>1, DuplicatesWalk
<1> DEFINE K(n) == Kept(b, "duplicates", NoFilter, g, n)
<1>3. \A n \in 0..Len(b) : g[n] \in Seq(S) /\ \E d : Picks(g[n], b, K(n), d)
    BY <1>2, WalkPicks
<1>4. \A n, k : k \in K(n) <=> k \in 1..n /\ ~IsPresent(g[k - 1], b[k])
    BY DEF Kept, Dropped
<1> HIDE DEF K
<1>5. ASSUME NEW n \in 1..Len(b) PROVE IsPresent(g[n - 1], b[n]) <=> \E k \in K(n - 1) : Same(b[k], b[n])
  <2>1. n - 1 \in 0..Len(b)
    BY <1>1
  <2>2. g[n - 1] \in Seq(S) /\ \E d : Picks(g[n - 1], b, K(n - 1), d)
    BY <1>3, <2>1
  <2>3. DOMAIN g[n - 1] = 1..Len(g[n - 1])
    BY <2>2
  <2> QED BY <2>2, <2>3, PresentWhen, Zenon
<1>6. ASSUME NEW n \in 1..Len(b), NEW i \in 1..(n - 1), Same(b[i], b[n])
      PROVE  \E k \in K(n - 1) : Same(b[k], b[n])
  <2> DEFINE T == {k \in 1..(n - 1) : Same(b[k], b[n])}
  <2>1. T \in SUBSET Nat /\ T # {}
    BY <1>6
  <2>2. PICK k \in T : \A m \in T : k <= m
    BY <2>1, LeastNat, Zenon
  <2>3. k \in 1..(n - 1) /\ Same(b[k], b[n]) /\ k \in 1..Len(b) /\ n \in Nat
    BY <1>1
  <2>4. ASSUME NEW m \in K(k - 1), Same(b[m], b[k]) PROVE FALSE
    <3>1. m \in 1..(k - 1)
      BY <1>4
    <3>2. m \in 1..(n - 1) /\ m < k /\ m \in Nat /\ k \in Nat
      BY <2>3, <3>1
    <3>3. Same(b[m], b[n])
      BY <2>3, <2>4, Zenon DEF Same
    <3>4. k <= m
      BY <2>2, <3>2, <3>3
    <3> QED BY ONLY <3>2, <3>4
  <2>5. k \in K(n - 1)
    BY <1>4, <1>5, <2>3, <2>4, Zenon
  <2> QED BY <2>3, <2>5
<1>7. K(Len(b)) = FirstOfKind(b)
  <2>1. ASSUME NEW n \in 1..Len(b)
        PROVE  n \in K(Len(b)) <=> \A j \in 1..(n - 1) : ~Same(b[j], b[n])
    <3>1. \A k \in K(n - 1) : k \in 1..(n - 1)
      BY <1>4
    <3> QED BY <1>4, <1>5, <1>6, <3>1, Zenon
  <2>2. \A n \in 1..Len(b) : n \in FirstOfKind(b) <=> \A j \in 1..(n - 1) : ~Same(b[j], b[n])
    BY <1>1 DEF FirstOfKind, Same
  <2>3. K(Len(b)) \subseteq 1..Len(b) /\ FirstOfKind(b) \subseteq 1..Len(b)
    BY <1>1, <1>4 DEF FirstOfKind
  <2> QED BY <2>1, <2>2, <2>3, Zenon
<1>8. Len(b) \in 0..Len(b)
    BY <1>1
<1> QED BY <1>2, <1>3, <1>7, <1>8

\* Select keeps the events that are asked for, in the order of the array.
LEMMA AskedForKept ==
    ASSUME NEW S, NEW v \in Seq(S), NEW f
    PROVE  \E d : Picks(Select(v, f), v, {k \in 1..Len(v) : is_subscribed_for(f, v[k])}, d)
<1>1. Len(v) \in Nat /\ Len(v) \in 0..Len(v)
    OBVIOUS
<1>2. PICK g : Walk(v, "others", f, g, Len(v)) /\ Select(v, f) = g[Len(v)]
    BY <1>1, SelectWalk
<1>3. \E d : Picks(g[Len(v)], v, Kept(v, "others", f, g, Len(v)), d)
    BY <1>1, <1>2, WalkPicks, Zenon
<1>4. Kept(v, "others", f, g, Len(v)) = {k \in 1..Len(v) : is_subscribed_for(f, v[k])}
    BY DEF Kept, Dropped
<1> QED BY <1>2, <1>3, <1>4, Zenon

\* What is picked from what was picked (select_events_for_subscribers).
LEMMA PicksTwice ==
    ASSUME NEW b, NEW v, NEW u, NEW K \in SUBSET Nat, NEW L, NEW M, NEW d, NEW e,
           Picks(v, b, K, d), Picks(u, v, L, e), L \subseteq 1..Len(v),
           \A k : k \in M <=> k \in K /\ \E j \in L : d[j] = k
    PROVE  \E c : Picks(u, b, M, c)
<1> DEFINE c == [j \in 1..Len(u) |-> d[e[j]]]
<1>1. \A j \in 1..Len(u) : c[j] = d[e[j]] /\ e[j] \in L /\ e[j] \in 1..Len(v) /\ d[e[j]] \in K
    BY Zenon DEF Picks
<1>2. c \in [1..Len(u) -> M]
    BY <1>1, Zenon
<1> HIDE DEF c
<1>3. ASSUME NEW k \in M PROVE \E j \in 1..Len(u) : c[j] = k
  <2>1. PICK i \in L : d[i] = k
    OBVIOUS
  <2>2. PICK j \in 1..Len(u) : e[j] = i
    BY Zenon DEF Picks
  <2> QED BY <1>1, <2>1, <2>2, Zenon
<1>4. \A j, k \in 1..Len(u) : j < k => c[j] < c[k]
    BY <1>1 DEF Picks
<1>5. \A j \in 1..Len(u) : u[j] = b[c[j]]
    BY <1>1 DEF Picks
<1>6. Picks(u, b, M, c)
    BY <1>2, <1>3, <1>4, <1>5, Zenon DEF Picks
<1> QED BY <1>6

\* The events of an array that is addressed (select_events_for_subscribers).
LEMMA SelectedFirsts ==
    ASSUME NEW b \in Batches, NEW f
    PROVE  \E c : Picks(Select(remove_duplicates(b), f), b,
                        {k \in FirstOfKind(b) : is_subscribed_for(f, b[k])}, c)
<1> DEFINE S == {b[i] : i \in DOMAIN b}
           v == remove_duplicates(b)
           K == FirstOfKind(b)
           L == {k \in 1..Len(v) : is_subscribed_for(f, v[k])}
           M == {k \in K : is_subscribed_for(f, b[k])}
<1>1. b \in Seq(S)
    BY BatchesAssumption
<1>2. v \in Seq(S) /\ \E d : Picks(v, b, K, d)
    BY <1>1, FirstsKept
<1>3. PICK d : Picks(v, b, K, d)
    BY <1>2
<1>4. PICK e : Picks(Select(v, f), v, L, e)
    BY <1>2, AskedForKept, Zenon
<1>5. K \in SUBSET Nat /\ L \subseteq 1..Len(v)
    BY <1>1 DEF FirstOfKind
<1> HIDE DEF S, v, K
<1>6. \A k : k \in M <=> k \in K /\ \E j \in L : d[j] = k
  <2>1. \A k \in K : \E j \in 1..Len(v) : d[j] = k /\ v[j] = b[k]
    BY <1>3 DEF Picks
  <2>2. \A j \in 1..Len(v) : v[j] = b[d[j]]
    BY <1>3 DEF Picks
  <2> QED BY <2>1, <2>2
<1> HIDE DEF L, M
<1>7. \E c : Picks(Select(v, f), b, M, c)
  <2>1. PICK u : u = Select(v, f)
    OBVIOUS
  <2>2. Picks(u, v, L, e)
    BY <1>4, <2>1, Zenon
  <2>3. \E c : Picks(u, b, M, c)
    BY ONLY <1>3, <1>5, <1>6, <2>2, PicksTwice, Zenon
  <2> QED BY <2>1, <2>3, Zenon
<1> QED BY <1>7 DEF M, K, v

(***************************************************************************)
(* An array holds its batch without duplicates until it is addressed, and  *)
(* then what its subscription asks for (select_events_for_subscribers).    *)
(***************************************************************************)
Contents ==
    /\ \A a \in Unaddressed : a.events = remove_duplicates(published[a.post])
    /\ \A a \in Pending : a.to \in subscriptions =>
          a.events = Select(remove_duplicates(published[a.post]), filter[a.to])

\* Steps that address no array, and give none other events (send_event_array).
LEMMA ContentsKept ==
    ASSUME Contents, published' = published, Unaddressed' \subseteq Unaddressed,
           \A a \in Pending' : \E c \in Pending : a.post = c.post /\ a.to = c.to /\ a.events = c.events,
           \A i \in subscriptions' : i \in subscriptions /\ filter'[i] = filter[i]
    PROVE  Contents'
<1>1. \A a \in Unaddressed' : a.events = remove_duplicates(published'[a.post])
    BY Zenon DEF Contents
<1>2. ASSUME NEW a \in Pending', a.to \in subscriptions'
      PROVE  a.events = Select(remove_duplicates(published'[a.post]), filter'[a.to])
  <2>1. PICK c \in Pending : a.post = c.post /\ a.to = c.to /\ a.events = c.events
    OBVIOUS
  <2>2. c.to \in subscriptions /\ filter'[a.to] = filter[c.to]
    BY <1>2, <2>1
  <2>3. c.events = Select(remove_duplicates(published[c.post]), filter[c.to])
    BY <2>2, Zenon DEF Contents
  <2> QED BY <2>1, <2>2, <2>3, Zenon
<1> QED BY <1>1, <1>2, Zenon DEF Contents

\* A posted batch (SubscriptionManager::notify).
LEMMA NotifyContents == ASSUME IInv, Contents, NEW b \in Batches, notify(b) PROVE Contents'
<1> DEFINE n == Len(published) + 1
           a == [post |-> n, to |-> Nobody, tries |-> 0, events |-> remove_duplicates(b)]
<1>1. /\ ready' = Append(ready, a) /\ delayed' = delayed /\ published' = Append(published, b)
      /\ UNCHANGED <<subscriptions, filter, batch>> /\ Len(published) < MaxPosts
    BY Zenon DEF notify, Push
<1>2. /\ published'[n] = b /\ \A m \in 1..Len(published) : published'[m] = published[m]
      /\ n \in Posts
    BY <1>1, BoundsAssumption DEF IInv, TypeOK, Posts
<1> HIDE DEF n
<1>3. a \in Arrays /\ a.post = n /\ a.to = Nobody /\ a.events = remove_duplicates(b)
  <2>1. remove_duplicates(b) \in Deduplicated
    BY DEF Deduplicated
  <2>2. remove_duplicates(b) \in Vectors
    BY <2>1 DEF Vectors
  <2>3. 0 \in Nat /\ Nobody \in Ids \cup {Nobody}
    OBVIOUS
  <2> QED BY <1>2, <2>2, <2>3, Zenon DEF Arrays
<1> HIDE DEF a
<1>4. Elements(ready') = Elements(ready) \cup {a}
    BY <1>1, <1>3, Appended, Zenon DEF IInv, TypeOK
<1>5. Pending' = Pending /\ Unaddressed' = Unaddressed \cup {a}
    BY <1>1, <1>3, <1>4 DEF Pending, Unaddressed
<1>6. \A c \in Pending \cup Unaddressed : published'[c.post] = published[c.post]
  <2>1. \A c \in Pending \cup Unaddressed : c \in batch \cup Queued /\ c \in Arrays
    BY ArrayTypes DEF Pending, Unaddressed, Queued
  <2>2. \A c \in Pending \cup Unaddressed : c.post \in 1..Len(published)
    BY <2>1, ArrayTypes DEF IInv, PostsKnown
  <2> QED BY <1>2, <2>2
<1>7. \A c \in Unaddressed' : c.events = remove_duplicates(published'[c.post])
    BY <1>2, <1>3, <1>5, <1>6, Zenon DEF Contents
<1>8. \A c \in Pending' : c.to \in subscriptions' =>
        c.events = Select(remove_duplicates(published'[c.post]), filter'[c.to])
    BY <1>1, <1>5, <1>6, Zenon DEF Contents
<1> QED BY <1>7, <1>8, Zenon DEF Contents

\* A new subscription (SubscriptionManager::add).
LEMMA AddContents == ASSUME IInv, Contents, NEW f \in Filters, add(f) PROVE Contents'
<1>1. /\ NextId <= MaxId /\ subscriptions' = subscriptions \cup {NextId}
      /\ filter' = [filter EXCEPT ![NextId] = f]
      /\ UNCHANGED <<ready, delayed, batch, published>>
    BY DEF add, history
<1>2. \A a \in Pending : a.to # NextId
    BY <1>1, NewSubscription
<1>3. Pending' = Pending /\ Unaddressed' = Unaddressed
    BY <1>1, Zenon DEF Pending, Unaddressed
<1>4. \A i \in subscriptions : i # NextId => filter'[i] = filter[i]
    BY <1>1, Zenon DEF IInv, TypeOK
<1>5. \A a \in Pending' : a.to \in subscriptions' =>
        a.events = Select(remove_duplicates(published'[a.post]), filter'[a.to])
    BY <1>1, <1>2, <1>3, <1>4, Zenon DEF Contents
<1>6. \A a \in Unaddressed' : a.events = remove_duplicates(published'[a.post])
    BY <1>1, <1>3, Zenon DEF Contents
<1> QED BY <1>5, <1>6, Zenon DEF Contents

\* An array that is addressed, or a retry taken out of the queue (m_handle_events).
LEMMA PopContents == ASSUME IInv, Contents, Pop PROVE Contents'
<1> DEFINE a == Head(ready)
           B == select_events_for_subscribers(a)
           v == remove_duplicates(published[a.post])
<1>1. /\ batch = {} /\ ready # <<>> /\ ready' = Tail(ready)
      /\ batch' = (IF a.to = Nobody THEN B ELSE {a})
      /\ UNCHANGED <<subscriptions, filter, delayed, published>>
    BY Zenon DEF Pop
<1>2. a \in Arrays /\ Elements(ready) = {a} \cup Elements(ready')
    BY <1>1, Taken, Zenon DEF IInv, TypeOK
<1>3. ASSUME a.to = Nobody PROVE \A c \in B : c.post = a.post /\ c.events = Select(v, filter[c.to])
  <2>1. a \in Unaddressed
    BY <1>2, <1>3 DEF Unaddressed
  <2>2. a.events = v
    BY <2>1 DEF Contents
  <2>3. \A i : [a EXCEPT !.to = i, !.events = Select(a.events, filter[i])].to = i
    BY <1>2 DEF Arrays
  <2>4. \A i : /\ [a EXCEPT !.to = i, !.events = Select(a.events, filter[i])].post = a.post
               /\ [a EXCEPT !.to = i, !.events = Select(a.events, filter[i])].events
                    = Select(a.events, filter[i])
    BY <1>2 DEF Arrays
  <2>5. \A c \in B : \E i : c = [a EXCEPT !.to = i, !.events = Select(a.events, filter[i])]
    BY Zenon DEF select_events_for_subscribers
  <2> HIDE DEF a, v, B
  <2>6. ASSUME NEW c \in B PROVE c.post = a.post /\ c.events = Select(v, filter[c.to])
    <3>1. PICK i : c = [a EXCEPT !.to = i, !.events = Select(a.events, filter[i])]
      BY <2>5, Zenon
    <3>2. c.to = i /\ c.post = a.post /\ c.events = Select(a.events, filter[i])
      BY <2>3, <2>4, <3>1, Zenon
    <3> QED BY <2>2, <3>2, Zenon
  <2> QED BY <2>6
<1> HIDE DEF a, B, v
<1>4. Unaddressed' \subseteq Unaddressed
    BY <1>2 DEF Unaddressed
<1>5. \A c \in Pending' : c \in Pending \/ (a.to = Nobody /\ c \in B)
    BY <1>1, <1>2 DEF Pending
<1>6. \A c \in Pending' : c.to \in subscriptions' =>
        c.events = Select(remove_duplicates(published'[c.post]), filter'[c.to])
    BY <1>1, <1>3, <1>5, Zenon DEF Contents, v
<1>7. \A c \in Unaddressed' : c.events = remove_duplicates(published'[c.post])
    BY <1>1, <1>4, Zenon DEF Contents
<1> QED BY <1>6, <1>7, Zenon DEF Contents

\* A failed POST that is repeated (send_event_array).
LEMMA PostAgainContents ==
    ASSUME IInv, Contents, NEW arrived \in BOOLEAN, PostAgain(arrived) PROVE Contents'
<1>1. /\ UNCHANGED <<subscriptions, filter, ready, published>>
      /\ current # NoArray /\ delayed' = Append(delayed, Retry) /\ batch' = batch \ {current}
    BY DEF PostAgain, PushDelayed
<1>2. current \in Pending /\ current \in Arrays /\ Retry \in Arrays
    BY <1>1, CurrentType, RetryIs
<1>3. Retry.post = current.post /\ Retry.to = current.to /\ Retry.events = current.events
    BY <1>2 DEF Retry, Arrays
<1>4. Elements(delayed') = Elements(delayed) \cup {Retry}
    BY <1>1, <1>2, Appended, Zenon DEF IInv, TypeOK
<1>5. Unaddressed' = Unaddressed
    BY <1>1 DEF Unaddressed
<1>6. \A a \in Pending' : a \in Pending \/ a = Retry
    BY <1>1, <1>4 DEF Pending
<1>7. \A a \in Pending' : \E c \in Pending : a.post = c.post /\ a.to = c.to /\ a.events = c.events
    BY <1>2, <1>3, <1>6
<1> QED BY <1>1, <1>5, <1>7, ContentsKept, Zenon

\* Steps that make nothing pending (EventService, SubscriptionManager).
LEMMA OthersShrink ==
    ASSUME IInv,
           \/ \E i \in Ids : Delete(i)
           \/ TimePasses \/ PostSucceeds \/ GiveUp \/ Restart
           \/ \E a \in batch : Get(a)
           \/ UNCHANGED vars
    PROVE  Unaddressed' \subseteq Unaddressed /\ Pending' \subseteq Pending
<1>1. CASE TimePasses
  <2>1. /\ delayed # <<>> /\ ready' = Append(ready, Head(delayed)) /\ delayed' = Tail(delayed)
        /\ batch' = batch
    BY <1>1 DEF TimePasses
  <2>2. Head(delayed) \in Arrays /\ Elements(delayed) = {Head(delayed)} \cup Elements(delayed')
    BY <2>1, Taken, Zenon DEF IInv, TypeOK
  <2>3. Elements(ready') = Elements(ready) \cup {Head(delayed)}
    BY <2>1, <2>2, Appended, Zenon DEF IInv, TypeOK
  <2>4. Head(delayed).to # Nobody
    BY <2>2, Zenon DEF IInv, Addressing
  <2> QED BY <2>1, <2>2, <2>3, <2>4 DEF Unaddressed, Pending
<1>2. CASE Restart
  BY <1>2, EmptyQueue, Zenon DEF Restart, Unaddressed, Pending
<1>3. CASE ~TimePasses /\ ~Restart
  <2>1. ready' = ready /\ delayed' = delayed /\ batch' \subseteq batch
    BY <1>3, Zenon DEF Delete, PostSucceeds, GiveUp, Get, Discard, vars
  <2> QED BY <2>1 DEF Unaddressed, Pending
<1> QED BY <1>1, <1>2, <1>3

\* The other steps of the thread, of the clients and of the server (EventService).
LEMMA OthersContents ==
    ASSUME IInv, Contents,
           \/ \E i \in Ids : Delete(i)
           \/ TimePasses \/ PostSucceeds \/ GiveUp \/ Restart
           \/ \E a \in batch : Get(a)
           \/ UNCHANGED vars
    PROVE  Contents'
<1>1. published' = published
    BY Zenon DEF Delete, TimePasses, PostSucceeds, GiveUp, Restart, Get, vars, history
<1>2. ASSUME NEW i \in Ids, del(i)
      PROVE  \A j \in subscriptions' : j \in subscriptions /\ filter'[j] = filter[j]
    BY <1>2, Zenon DEF del, IInv, TypeOK
<1>3. \A j \in subscriptions' : j \in subscriptions /\ filter'[j] = filter[j]
  <2>1. CASE GiveUp
    BY <1>2, <2>1, CurrentType, Zenon DEF GiveUp
  <2>2. CASE \E i \in Ids : Delete(i)
    BY <1>2, <2>2, Zenon DEF Delete
  <2> QED BY <2>1, <2>2, Zenon DEF TimePasses, PostSucceeds, Restart, Get, vars
<1>4. Unaddressed' \subseteq Unaddressed /\ Pending' \subseteq Pending
    BY OthersShrink, Zenon
<1> QED BY <1>1, <1>3, <1>4, ContentsKept

\* Arrays hold what they should in every state of the server (EventService).
THEOREM ContentsInvariance == Spec => []Contents
<1>1. Init => Contents
  <2> SUFFICES ASSUME Init PROVE Contents
    OBVIOUS
  <2>1. Pending = {} /\ Unaddressed = {}
    BY EmptyQueue DEF Init, Pending, Unaddressed
  <2> QED BY <2>1 DEF Contents
<1>2. IInv /\ Contents /\ [Next]_vars => Contents'
  <2> SUFFICES ASSUME IInv, Contents, [Next]_vars PROVE Contents'
    OBVIOUS
  <2> QED BY NotifyContents, AddContents, PopContents, PostAgainContents, OthersContents, Zenon DEF Next
<1> QED BY <1>1, <1>2, Invariance, PTL DEF Spec

(***************************************************************************)
(* However batches, subscriptions and retries interleave, an array holds   *)
(* the events of its batch its subscriber asks for, of each kind the       *)
(* first, in the order of the batch, none missing and none twice           *)
(* (EventArray::remove_duplicates, select_events_for_subscribers).         *)
(***************************************************************************)
THEOREM CompleteArrays == Spec => []ArraysComplete
<1>1. IInv /\ Contents => ArraysComplete
  <2> SUFFICES ASSUME IInv, Contents, NEW a \in Pending, a.to \in subscriptions
               PROVE  LET b == published[a.post]
                          wanted == {k \in FirstOfKind(b) :
                                        /\ b[k].type \in filter[a.to].types
                                        /\ \/ filter[a.to].origins = {}
                                           \/ b[k].origin \in filter[a.to].origins}
                      IN  \E f \in [1..Len(a.events) -> wanted] :
                              /\ \A k \in wanted : \E j \in DOMAIN f : f[j] = k
                              /\ \A j, k \in DOMAIN f : j < k => f[j] < f[k]
                              /\ \A j \in DOMAIN f : a.events[j] = b[f[j]]
    BY Zenon DEF ArraysComplete
  <2> DEFINE b == published[a.post]
             f == filter[a.to]
             W == {k \in FirstOfKind(b) : is_subscribed_for(f, b[k])}
             u == a.events
  <2>1. b \in Batches
    <3>1. a \in batch \cup Queued /\ a \in Arrays
      BY ArrayTypes DEF Pending, Queued
    <3>2. a.post \in 1..Len(published)
      BY <3>1, ArrayTypes DEF IInv, PostsKnown
    <3> QED BY <3>2 DEF IInv, TypeOK
  <2>2. u = Select(remove_duplicates(b), f)
    BY Zenon DEF Contents
  <2>3. PICK c : Picks(u, b, W, c)
    BY <2>1, <2>2, SelectedFirsts, Zenon
  <2>4. W = {k \in FirstOfKind(b) : /\ b[k].type \in f.types
                                    /\ \/ f.origins = {}
                                       \/ b[k].origin \in f.origins}
    BY Zenon DEF is_subscribed_for
  <2> HIDE DEF W, b, u, f
  <2>5. /\ c \in [1..Len(u) -> W] /\ DOMAIN c = 1..Len(u)
        /\ \A k \in W : \E j \in DOMAIN c : c[j] = k
        /\ \A j, k \in DOMAIN c : j < k => c[j] < c[k]
        /\ \A j \in DOMAIN c : u[j] = b[c[j]]
    BY <2>3, Zenon DEF Picks
  <2>6. \E d \in [1..Len(u) -> W] :
            /\ \A k \in W : \E j \in DOMAIN d : d[j] = k
            /\ \A j, k \in DOMAIN d : j < k => d[j] < d[k]
            /\ \A j \in DOMAIN d : u[j] = b[d[j]]
    BY <2>5, Zenon
  <2> QED BY <2>4, <2>6, Zenon DEF b, f, u
<1> QED BY <1>1, Invariance, ContentsInvariance, PTL
-----------------------------------------------------------------------------
(***************************************************************************)
(* The count that travels with an array is the number of its POSTs that    *)
(* have failed, and only arrays selected for a subscription have failed.   *)
(***************************************************************************)
FailuresTallied ==
    /\ \A a \in Pending : a.to \in subscriptions => a.tries = failed[a.to][a.post]
    /\ \A i \in Ids, n \in Posts :
          \/ failed[i][n] = 0
          \/ i \in subscriptions /\ failed[i][n] < Attempts /\ n \in chosen[i]

\* Steps in which no POST fails and no array is addressed (EventService).
LEMMA TallyKept ==
    ASSUME FailuresTallied, Pending' \subseteq Pending,
           \A i \in Ids : \/ /\ failed'[i] = failed[i] /\ chosen'[i] = chosen[i]
                             /\ i \in subscriptions => i \in subscriptions'
                          \/ i \notin subscriptions' /\ \A n \in Posts : failed'[i][n] = 0,
           \A a \in Pending' : a.to \in Ids /\ (a.to \in subscriptions' => a.to \in subscriptions)
    PROVE  FailuresTallied'
<1>1. ASSUME NEW a \in Pending', a.to \in subscriptions' PROVE a.tries = failed'[a.to][a.post]
    BY <1>1, Zenon DEF FailuresTallied
<1>2. ASSUME NEW i \in Ids, NEW n \in Posts
      PROVE  \/ failed'[i][n] = 0
             \/ i \in subscriptions' /\ failed'[i][n] < Attempts /\ n \in chosen'[i]
    BY <1>2, Zenon DEF FailuresTallied
<1> QED BY <1>1, <1>2, Zenon DEF FailuresTallied

\* A subscription that ends takes its failures along (SubscriptionManager::del).
LEMMA DelTally ==
    ASSUME IInv, FailuresTallied, NEW i \in Ids, del(i), Pending' \subseteq Pending
    PROVE  FailuresTallied'
<1>1. chosen \in [Ids -> SUBSET Posts] /\ failed \in [Ids -> [Posts -> Nat]]
    BY Zenon DEF IInv, TypeOK
<1>2. \A j \in Ids : \/ /\ failed'[j] = failed[j] /\ chosen'[j] = chosen[j]
                        /\ j \in subscriptions => j \in subscriptions'
                     \/ j \notin subscriptions' /\ \A n \in Posts : failed'[j][n] = 0
  <2> SUFFICES ASSUME NEW j \in Ids
               PROVE  \/ /\ failed'[j] = failed[j] /\ chosen'[j] = chosen[j]
                         /\ j \in subscriptions => j \in subscriptions'
                      \/ j \notin subscriptions' /\ \A n \in Posts : failed'[j][n] = 0
    BY Zenon
  <2>1. CASE j = i
    BY <1>1, <2>1, Zenon DEF del
  <2>2. CASE j # i
    BY <1>1, <2>2, Zenon DEF del
  <2> QED BY <2>1, <2>2, Zenon
<1>3. \A a \in Pending' : a.to \in Ids /\ (a.to \in subscriptions' => a.to \in subscriptions)
    BY PendingTypes, Zenon DEF del
<1> QED BY <1>2, <1>3, TallyKept, Zenon

\* The steps in which no POST fails and no array is addressed (EventService).
LEMMA OthersTally ==
    ASSUME IInv, FailuresTallied,
           \/ \E b \in Batches : notify(b)
           \/ \E f \in Filters : add(f)
           \/ \E i \in Ids : Delete(i)
           \/ TimePasses \/ PostSucceeds \/ GiveUp \/ Restart
           \/ Pop /\ Head(ready).to # Nobody
           \/ \E a \in batch : Get(a)
           \/ UNCHANGED vars
    PROVE  FailuresTallied'
<1>1. CASE \E i \in Ids : Delete(i)
    BY <1>1, DelTally, OthersShrink, Zenon DEF Delete
<1>2. CASE GiveUp
    BY <1>2, DelTally, OthersShrink, CurrentType, Zenon DEF GiveUp
<1>3. CASE \E f \in Filters : add(f)
  <2>1. /\ NextId <= MaxId /\ subscriptions' = subscriptions \cup {NextId}
        /\ UNCHANGED <<ready, delayed, batch, chosen, failed>>
    BY <1>3, Zenon DEF add, history
  <2>2. Pending' = Pending
    BY <2>1, Zenon DEF Pending
  <2>3. \A a \in Pending : a.to # NextId
    BY <2>1, NewSubscription
  <2> QED BY <2>1, <2>2, <2>3, PendingTypes, TallyKept, Zenon
<1>4. CASE ~(\E i \in Ids : Delete(i)) /\ ~GiveUp /\ ~(\E f \in Filters : add(f))
  <2>1. UNCHANGED <<subscriptions, chosen, failed>>
    BY <1>4, Zenon DEF notify, TimePasses, PostSucceeds, Restart, Pop, Get, vars, history
  <2>2. Pending' \subseteq Pending
    BY <1>4, OthersShrink, QueueSteps, Zenon
  <2> QED BY <2>1, <2>2, PendingTypes, TallyKept, Zenon
<1> QED BY <1>1, <1>2, <1>3, <1>4, Zenon

\* No POST of an array that is addressed only now has failed (select_events_for_subscribers).
LEMMA PopTally == ASSUME IInv, FailuresTallied, Pop, Head(ready).to = Nobody PROVE FailuresTallied'
<1> DEFINE a == Head(ready)
           B == select_events_for_subscribers(a)
<1>1. /\ batch = {} /\ ready # <<>> /\ batch' = B /\ ready' = Tail(ready)
      /\ chosen' = [i \in Ids |-> IF \E b \in batch' : b.to = i THEN chosen[i] \cup {a.post} ELSE chosen[i]]
      /\ UNCHANGED <<subscriptions, delayed, failed>>
    BY Zenon DEF Pop
<1>2. a \in Arrays /\ Elements(ready) = {a} \cup Elements(ready')
    BY <1>1, Taken, Zenon DEF IInv, TypeOK
<1>3. a \in Unaddressed
    BY <1>2, Zenon DEF Unaddressed
<1>4. \A c \in B : c.to \in subscriptions /\ c.post = a.post /\ c.tries = 0
    BY <1>3, SelectedArrays, Zenon
<1> HIDE DEF a, B
<1>5. a.post \in Posts /\ subscriptions \subseteq Ids
    BY <1>2, ArrayTypes, Zenon DEF IInv, TypeOK
<1>6. \A i \in Ids : failed[i][a.post] = 0
    BY <1>3, <1>5, Zenon DEF IInv, Fresh, FailuresTallied
<1>7. Pending' \subseteq Pending \cup B
    BY <1>1, <1>2, Zenon DEF Pending
<1>8. ASSUME NEW c \in Pending', c.to \in subscriptions' PROVE c.tries = failed'[c.to][c.post]
    BY <1>1, <1>4, <1>5, <1>6, <1>7, <1>8, Zenon DEF FailuresTallied
<1>9. ASSUME NEW i \in Ids, NEW n \in Posts
      PROVE  \/ failed'[i][n] = 0
             \/ i \in subscriptions' /\ failed'[i][n] < Attempts /\ n \in chosen'[i]
    BY <1>1, <1>9, Zenon DEF FailuresTallied
<1> QED BY <1>8, <1>9, Zenon DEF FailuresTallied

\* A failed POST is counted in the array and in its failures (send_event_array).
LEMMA PostAgainTally ==
    ASSUME IInv, FailuresTallied, NEW arrived \in BOOLEAN, PostAgain(arrived) PROVE FailuresTallied'
<1> DEFINE c == current
           r == Retry
<1>1. /\ UNCHANGED <<subscriptions, ready, chosen>> /\ c # NoArray
      /\ delayed' = Append(delayed, r) /\ batch' = batch \ {c} /\ r.tries < Attempts
      /\ failed' = IF c.to \in subscriptions
                   THEN [failed EXCEPT ![c.to][c.post] = @ + 1] ELSE failed
    BY Zenon DEF PostAgain, PushDelayed, TriesLeft
<1>2. c \in batch /\ c \in Pending /\ c.to \in Ids /\ c.post \in Posts /\ c.tries \in Nat
    BY <1>1, CurrentType, Zenon
<1>3. r \in Arrays /\ r.to = c.to /\ r.post = c.post /\ r.tries = c.tries + 1
    BY <1>1, RetryIs, Zenon DEF SameKey
<1> HIDE DEF c, r
<1>4. Elements(delayed') = Elements(delayed) \cup {r}
    BY <1>1, <1>3, Appended, Zenon DEF IInv, TypeOK
<1>5. \A a \in Pending' : a = r \/ (a \in Pending /\ ~SameKey(a, c))
  <2>1. Pending' \subseteq (batch \ {c}) \cup {a \in Queued : a.to # Nobody} \cup {r}
    BY <1>1, <1>4, Zenon DEF Pending, Queued
  <2>2. ASSUME NEW a \in Queued PROVE ~SameKey(a, c)
    BY <1>2, <2>2, Zenon DEF IInv, OnePlace, Apart, SameKey
  <2>3. ASSUME NEW a \in batch \ {c} PROVE ~SameKey(a, c)
    BY <1>2, <2>3, Zenon DEF IInv, OnePlace, SameKey
  <2> QED BY <2>1, <2>2, <2>3, Zenon DEF Pending, Queued
<1>6. failed \in [Ids -> [Posts -> Nat]]
    BY Zenon DEF IInv, TypeOK
<1>7. CASE c.to \notin subscriptions
  <2>1. failed' = failed
    BY <1>1, <1>7, Zenon
  <2>2. ASSUME NEW a \in Pending', a.to \in subscriptions' PROVE a.tries = failed'[a.to][a.post]
    BY <1>1, <1>3, <1>5, <1>7, <2>1, <2>2, Zenon DEF FailuresTallied
  <2> QED BY <1>1, <2>1, <2>2, Zenon DEF FailuresTallied
<1>8. CASE c.to \in subscriptions
  <2>1. failed[c.to][c.post] = c.tries /\ c.post \in chosen[c.to]
    <3>1. c.post \in PendingFor(c.to)
      BY <1>2, Zenon DEF PendingFor
    <3> QED BY <1>2, <1>8, <3>1, Zenon DEF FailuresTallied, IInv, NeverStale
  <2>2. failed' = [failed EXCEPT ![c.to] = [failed[c.to] EXCEPT ![c.post] = r.tries]]
    BY <1>1, <1>3, <1>8, <2>1, Zenon
  <2>3. failed'[c.to][c.post] = r.tries
    BY <1>2, <1>6, <2>2, Zenon
  <2>4. ASSUME NEW i \in Ids, NEW n \in Posts, ~(i = c.to /\ n = c.post) PROVE failed'[i][n] = failed[i][n]
    BY <1>2, <1>6, <2>2, <2>4, Zenon
  <2>5. ASSUME NEW a \in Pending', a.to \in subscriptions' PROVE a.tries = failed'[a.to][a.post]
    <3>1. CASE a = r
      BY <1>3, <2>3, <3>1, Zenon
    <3>2. CASE a \in Pending /\ ~SameKey(a, c)
      <4>1. a.to \in Ids /\ a.post \in Posts
        BY <3>2, PendingTypes, Zenon
      <4> QED BY <1>1, <2>4, <2>5, <3>2, <4>1, Zenon DEF FailuresTallied, SameKey
    <3> QED BY <1>5, <3>1, <3>2, Zenon
  <2>6. ASSUME NEW i \in Ids, NEW n \in Posts
        PROVE  \/ failed'[i][n] = 0
               \/ i \in subscriptions' /\ failed'[i][n] < Attempts /\ n \in chosen'[i]
    <3>1. CASE i = c.to /\ n = c.post
      BY <1>1, <1>8, <2>1, <2>3, <3>1, Zenon
    <3>2. CASE ~(i = c.to /\ n = c.post)
      BY <1>1, <2>4, <3>2, Zenon DEF FailuresTallied
    <3> QED BY <3>1, <3>2, Zenon
  <2> QED BY <2>5, <2>6, Zenon DEF FailuresTallied
<1> QED BY <1>7, <1>8, Zenon

(***************************************************************************)
(* However retries, deletions and restarts interleave, fewer POSTs of an   *)
(* array have failed than are configured while its subscription lives:     *)
(* the service retries no array for ever (send_event_array).               *)
(***************************************************************************)
THEOREM RetriesEnd == Spec => []FailuresBounded
<1>1. Init => FailuresTallied
  <2> SUFFICES ASSUME Init PROVE FailuresTallied
    OBVIOUS
  <2>1. Pending = {}
    BY EmptyQueue, Zenon DEF Init, Pending
  <2>2. \A i \in Ids, n \in Posts : failed[i][n] = 0
    BY Zenon DEF Init
  <2> QED BY <2>1, <2>2, Zenon DEF FailuresTallied
<1>2. IInv /\ FailuresTallied /\ [Next]_vars => FailuresTallied'
    BY OthersTally, PopTally, PostAgainTally, Zenon DEF Next
<1>3. IInv /\ FailuresTallied => FailuresBounded
  <2> SUFFICES ASSUME IInv, FailuresTallied, NEW i \in subscriptions, NEW n \in Posts, failed[i][n] > 0
               PROVE  failed[i][n] < Attempts
    BY Zenon DEF FailuresBounded
  <2>1. i \in Ids
    BY Zenon DEF IInv, TypeOK
  <2>2. failed[i][n] = 0 \/ failed[i][n] < Attempts
    BY <2>1, Zenon DEF FailuresTallied
  <2> QED BY ONLY <2>2, failed[i][n] > 0
<1> QED BY <1>1, <1>2, <1>3, Invariance, PTL DEF Spec
=============================================================================
