--------------------------- MODULE ResourceModel ---------------------------
(***************************************************************************)
(* The resource tables of the PSME REST server as a copy of one agent's    *)
(* tree of resources.  The watcher thread (watcher.cpp) polls the whole    *)
(* tree and handles the agent's Add, Remove and Update notifications, REST *)
(* threads load and remove single resources; all of them go through the    *)
(* handlers of generic_handler.hpp.  A poll is a walk of RPC calls during  *)
(* which the agent's tree may change, calls may fail and the agent may     *)
(* vanish.                                                                 *)
(***************************************************************************)
EXTENDS Naturals, Sequences, FiniteSets

CONSTANTS
    Uuids,        \* resources the agent may have
    Root,         \* the parent of the top level collections
    Parent,       \* the parent of every resource
    Path,         \* every resource with its ancestors, without Root
    Kinds,        \* resource kinds (Component), one handler each
    Kind,         \* the kind of every resource
    TopKinds,     \* kinds whose URL does not contain their parent's
    NoKind,
    MaxChanges,   \* bound: changes of the agent's tree
    MaxQueue,     \* bound: notifications on their way
    MaxDowns,     \* bound: times the agent becomes unreachable
    MaxErrors,    \* bound: RPC errors of a reachable agent
    RequestTypes, \* REST requests: a subset of create, patch, delete
    LateUuids     \* resources the completion callbacks of tasks load

ASSUME TreeAssumption ==
    /\ Root \notin Uuids /\ NoKind \notin Kinds
    /\ Parent \in [Uuids -> Uuids \cup {Root}]
    /\ Kind \in [Uuids -> Kinds] /\ Root \notin Kinds
    /\ Path \in [Uuids -> SUBSET Uuids]
    /\ \A u \in Uuids :
         /\ Path[u] = {u} \cup (IF Parent[u] = Root THEN {} ELSE Path[Parent[u]])
         /\ Parent[u] # Root => u \notin Path[Parent[u]]
         /\ \A a \in Path[u] : Path[a] \subseteq Path[u]
         /\ \A a \in Path[u] \ {u} : Kind[a] # Kind[u]
ASSUME ChainAssumption ==
    \A u \in Uuids :
        /\ \A a, b \in Path[u] : Parent[a] = Parent[b] => a = b
        /\ \A a \in (Path[u] \ {u}) \cup {Root} : \E b \in Path[u] : Parent[b] = a
ASSUME TopAssumption ==
    /\ TopKinds \subseteq Kinds
    /\ \A u \in Uuids : Parent[u] = Root => Kind[u] \in TopKinds
    /\ \A u \in Uuids : Kind[u] \in TopKinds => \A a \in Path[u] : Kind[a] \in TopKinds
ASSUME BoundsAssumption ==
    MaxChanges \in Nat /\ MaxQueue \in Nat /\ MaxDowns \in Nat /\ MaxErrors \in Nat
ASSUME RequestAssumption ==
    RequestTypes \subseteq {"create", "patch", "delete"} /\ LateUuids \subseteq Uuids

VARIABLES
    tree,       \* the agent's resources
    up,         \* the agent answers
    queue,      \* notifications sent by the agent, oldest first
    known,      \* the agent is registered
    failing,    \* m_connection_error_observed_at: "no", "recent" or "old" (60 s ago)
    model,      \* the resources in the tables
    parentType, \* the parent type they were stored with: of the parent, None, or wrong
    learned,    \* m_sub_components of the handler of every kind
    mode,       \* what the thread in the agent's transaction does, or "idle"
    top,        \* the resource a notification or a request is about
    stack,      \* the recursion of fetch_subcomponents
    added,      \* Context::events: ResourceAdded
    removed,    \* Context::events: ResourceRemoved
    cleaning,   \* kinds remove_agent_data has still to visit, or NotCleaning
    cleaned,    \* Context::events of remove_agent_data
    request,    \* a REST request that has found its resource and waits for the transaction
    late,       \* resources a completion callback has fetched and not yet stored
    told,       \* the resources subscribers know of
    untold,     \* history: resources whose last change was not announced
    steady,     \* history: in the tree since the walk began or since they were stored
    present,    \* history: in the tree, or stored, at some time of the walk
    erred,      \* history: a call of the walk failed
    changes, downs, errors

agentVars == <<tree, up, queue, changes, downs>>
tableVars == <<model, parentType, learned>>
historyVars == <<steady, present, erred>>
walkVars == <<mode, top, stack, added, removed, historyVars>>
cleanVars == <<cleaning, cleaned>>
threadVars == <<request, late>>
subscriberVars == <<told, untold>>
vars == <<agentVars, known, failing, tableVars, walkVars, cleanVars, threadVars,
          subscriberVars, errors>>

-----------------------------------------------------------------------------
NotCleaning == {NoKind}
NoRequest == [op |-> "none", uuid |-> Root]

WatcherModes == {"POLLING", "ADD", "UPDATE"}
RestModes == {"LOADING", "DELETE"}

Below(u) == {v \in Uuids : u \in Path[v]}
Children(u) == {v \in Uuids : Parent[v] = u}

(***************************************************************************)
(* The collections a resource reports: one per kind of its children.       *)
(***************************************************************************)
Collections(u) == {Kind[v] : v \in Children(u)}

HandlerKind(u) == IF u = Root THEN Root ELSE Kind[u]

Closed(S) == \A u \in S : Path[u] \subseteq S

(***************************************************************************)
(* One level of fetch_subcomponents: the collections still to fetch, the   *)
(* one being fetched, its members still to fetch, and the members touched  *)
(* since the level began (the epoch).  "skewed": an exception left an      *)
(* extra entry on Context::stack, so members get the wrong parent type.    *)
(***************************************************************************)
Frame == [uuid: Uuids \cup {Root}, kinds: SUBSET Kinds, kind: Kinds \cup {NoKind},
          kids: SUBSET Uuids, seen: SUBSET Uuids, skewed: BOOLEAN]

NewFrame(u) == [uuid |-> u, kinds |-> Collections(u), kind |-> NoKind, kids |-> {},
                seen |-> {}, skewed |-> FALSE]

Current == stack[Len(stack)]

Replace(f) == [stack EXCEPT ![Len(stack)] = f]

-----------------------------------------------------------------------------
(***************************************************************************)
(* get_component_url follows the parents of a resource until it finds one  *)
(* with a URL of its own.  It throws NotFound (and add_event sends no      *)
(* event) at a parent type None, and InvalidUuid when the parent is not in *)
(* the table of the parent type.                                           *)
(***************************************************************************)
Stops(u) == Kind[u] \notin TopKinds /\ (parentType[u] # "parent" \/ Parent[u] \notin model)

FirstStop(u, x) ==
    x \in Path[u] /\ Stops(x) /\ \A y \in Path[u] \ Path[x] : ~Stops(y) /\ Kind[y] \notin TopKinds

InvalidUrl(u) == \E x \in Uuids : FirstStop(u, x) /\ parentType[x] # "None"
NoUrl(u) == \E x \in Uuids : FirstStop(u, x) /\ parentType[x] = "None"

(***************************************************************************)
(* do_remove visits a resource after everything that the handlers know to  *)
(* be below it; a handler knows the kinds of sub-resources it has learned. *)
(***************************************************************************)
Linked(u, v) ==
    \A w \in Path[v] \ Path[u] : w \in model /\ Kind[w] \in learned[HandlerKind(Parent[w])]

Visited(S) == UNION {{v \in model \cap Below(u) : Linked(u, v)} : u \in S}

(***************************************************************************)
(* What do_remove takes out of the tables for the resources S.  add_event  *)
(* throws at a resource whose URL cannot be built: then only resources     *)
(* visited before it are gone.                                             *)
(***************************************************************************)
Throws(S) == \E v \in Visited(S) : InvalidUrl(v)

DoRemove(S) ==
    IF ~Throws(S) THEN {Visited(S)}
    ELSE {D \in SUBSET Visited(S) :
             \A v \in D : ~InvalidUrl(v) /\ Visited(S) \cap Below(v) \subseteq D}

(***************************************************************************)
(* The events of the removed resources, and those that get none.           *)
(***************************************************************************)
Announced(D) == {v \in D : ~NoUrl(v)}
Silent(D) == {v \in D : NoUrl(v)}

-----------------------------------------------------------------------------
AgentType ==
    /\ tree \subseteq Uuids /\ Closed(tree)
    /\ up \in BOOLEAN
    /\ queue \in Seq([type: {"Add", "Remove", "Update"}, uuid: Uuids])
ServerType ==
    known \in BOOLEAN /\ failing \in {"no", "recent", "old"}
TableType ==
    /\ model \subseteq Uuids
    /\ parentType \in [Uuids -> {"parent", "None", "wrong"}]
    /\ learned \in [Kinds \cup {Root} -> SUBSET Kinds]
WalkType ==
    /\ mode \in WatcherModes \cup RestModes \cup {"idle"}
    /\ top \in Uuids \cup {Root}
    /\ stack \in Seq(Frame)
    /\ added \subseteq Uuids /\ removed \subseteq Uuids
    /\ steady \subseteq Uuids /\ present \subseteq Uuids /\ erred \in BOOLEAN
CleanType ==
    cleaning \in (SUBSET Kinds) \cup {NotCleaning} /\ cleaned \subseteq Uuids
ThreadType ==
    /\ request \in [op: {"create", "patch", "delete"}, uuid: Uuids] \cup {NoRequest}
    /\ late \subseteq Uuids
SubscriberType ==
    told \subseteq Uuids /\ untold \subseteq Uuids
WithinBounds ==
    changes \in 0..MaxChanges /\ downs \in 0..MaxDowns /\ errors \in 0..MaxErrors

TypeOK ==
    /\ AgentType /\ ServerType /\ TableType /\ WalkType
    /\ CleanType /\ ThreadType /\ SubscriberType /\ WithinBounds

Init ==
    /\ tree \in SUBSET Uuids /\ Closed(tree)
    /\ up = TRUE /\ queue = <<>> /\ known = TRUE /\ failing = "no"
    /\ model = {} /\ parentType = [u \in Uuids |-> "None"]
    /\ learned = [k \in Kinds \cup {Root} |-> {}]
    /\ mode = "idle" /\ top = Root /\ stack = <<>> /\ added = {} /\ removed = {}
    /\ cleaning = NotCleaning /\ cleaned = {} /\ request = NoRequest /\ late = {}
    /\ told = {} /\ untold = {} /\ steady = {} /\ present = {} /\ erred = FALSE
    /\ changes = 0 /\ downs = 0 /\ errors = 0

-----------------------------------------------------------------------------
(***************************************************************************)
(* The agent.  It sends one notification for the top of what it added or   *)
(* removed; a notification may be lost on its way.                         *)
(***************************************************************************)
Notification(t, u) ==
    \/ queue' = queue
    \/ Len(queue) < MaxQueue /\ queue' = Append(queue, [type |-> t, uuid |-> u])

Change(T) ==
    /\ changes < MaxChanges /\ changes' = changes + 1
    /\ tree' = T
    /\ steady' = steady \cap T
    /\ present' = IF mode = "POLLING" THEN present \cup T ELSE {}

AgentAdds(u) ==
    /\ u \notin tree /\ Path[u] \ {u} \subseteq tree
    /\ \E S \in SUBSET Below(u) : u \in S /\ Closed(tree \cup S) /\ Change(tree \cup S)
    /\ Notification("Add", u)
    /\ UNCHANGED <<up, downs, known, failing, tableVars, mode, top, stack, added, removed,
                   erred, cleanVars, threadVars, subscriberVars, errors>>

AgentRemoves(u) ==
    /\ u \in tree /\ Change(tree \ Below(u))
    /\ Notification("Remove", u)
    /\ UNCHANGED <<up, downs, known, failing, tableVars, mode, top, stack, added, removed,
                   erred, cleanVars, threadVars, subscriberVars, errors>>

AgentUpdates(u) ==
    /\ u \in tree /\ Change(tree)
    /\ Notification("Update", u)
    /\ UNCHANGED <<up, downs, known, failing, tableVars, mode, top, stack, added, removed,
                   erred, cleanVars, threadVars, subscriberVars, errors>>

GoDown ==
    /\ up /\ downs < MaxDowns
    /\ up' = FALSE /\ downs' = downs + 1
    /\ UNCHANGED <<tree, queue, changes, known, failing, tableVars, walkVars, cleanVars,
                   threadVars, subscriberVars, errors>>

ComeUp ==
    /\ ~up /\ up' = TRUE
    /\ UNCHANGED <<tree, queue, changes, downs, known, failing, tableVars, walkVars, cleanVars,
                   threadVars, subscriberVars, errors>>

(***************************************************************************)
(* 60 seconds pass since the first failed call.                            *)
(***************************************************************************)
Age ==
    /\ failing = "recent" /\ failing' = "old"
    /\ UNCHANGED <<agentVars, known, tableVars, walkVars, cleanVars, threadVars,
                   subscriberVars, errors>>

(***************************************************************************)
(* An unregistered agent attaches again, as a new JsonAgent.               *)
(***************************************************************************)
Attach ==
    /\ up /\ ~known /\ known' = TRUE /\ failing' = "no"
    /\ UNCHANGED <<agentVars, tableVars, walkVars, cleanVars, threadVars, subscriberVars,
                   errors>>

-----------------------------------------------------------------------------
(***************************************************************************)
(* Transactions.  execute_in_transaction takes the agent's mutex without   *)
(* waiting: whoever finds it taken gives up.                               *)
(***************************************************************************)
Begin(m, u, frame) ==
    /\ mode = "idle"
    /\ mode' = m /\ top' = u /\ stack' = <<frame>>
    /\ added' = {} /\ removed' = {} /\ erred' = FALSE
    /\ LET S == IF m = "POLLING" THEN tree ELSE {} IN steady' = S /\ present' = S

(***************************************************************************)
(* The frame of a single resource u of a notification or a request.        *)
(***************************************************************************)
SingleFrame(u) == [uuid |-> Parent[u], kinds |-> {}, kind |-> NoKind, kids |-> {u},
                   seen |-> {}, skewed |-> FALSE]

EndWalk ==
    /\ mode' = "idle" /\ top' = Root /\ stack' = <<>>
    /\ added' = {} /\ removed' = {} /\ erred' = FALSE
    /\ steady' = {} /\ present' = {}

(***************************************************************************)
(* SubscriptionManager::notify for the resources A added and R removed,    *)
(* and resources S whose change nobody is told of.                         *)
(***************************************************************************)
NotifyAdded(A, R, S) ==
    /\ told' = told \cup A
    /\ untold' = (untold \ (A \cup R)) \cup S
Notify(A, R, S) ==
    /\ told' = (told \cup A) \ R
    /\ untold' = (untold \ (A \cup R)) \cup S

StartPoll ==
    /\ known /\ Begin("POLLING", Root, NewFrame(Root))
    /\ UNCHANGED <<agentVars, known, failing, tableVars, cleanVars, threadVars,
                   subscriberVars, errors>>

(***************************************************************************)
(* process_notification on the oldest notification.  Without a registered  *)
(* agent, or while a REST thread has the transaction, it is lost.  An Add  *)
(* of a resource that exists and an Update of one that does not are        *)
(* ignored.                                                                *)
(***************************************************************************)
Ignored(n) ==
    \/ ~known \/ mode # "idle"
    \/ n.type = "Add" /\ n.uuid \in model
    \/ n.type = "Update" /\ n.uuid \notin model

Take ==
    /\ queue # <<>> /\ mode \notin WatcherModes
    /\ queue' = Tail(queue)
    /\ UNCHANGED <<tree, up, changes, downs, known, failing, threadVars, cleanVars, errors>>

IgnoreNotification ==
    /\ Take /\ Ignored(Head(queue))
    /\ UNCHANGED <<tableVars, walkVars, subscriberVars>>

HandleAddOrUpdate ==
    /\ Take /\ ~Ignored(Head(queue))
    /\ \/ Head(queue).type = "Add" /\ Begin("ADD", Head(queue).uuid, SingleFrame(Head(queue).uuid))
       \/ Head(queue).type = "Update" /\ Begin("UPDATE", Head(queue).uuid, SingleFrame(Head(queue).uuid))
    /\ UNCHANGED <<tableVars, subscriberVars>>

(***************************************************************************)
(* Events are passed on only when do_remove does not throw; remove_single  *)
(* throws for a resource that is not in the tables.                        *)
(***************************************************************************)
RemoveFails(u) == u \notin model \/ Throws({u})

RemoveResource(u) ==
    \E D \in DoRemove({u}) :
        /\ model' = model \ D
        /\ IF RemoveFails(u) THEN Notify({}, {}, D) ELSE Notify({}, Announced(D), Silent(D))
        /\ UNCHANGED <<parentType, learned>>

HandleRemove ==
    /\ Take /\ ~Ignored(Head(queue)) /\ Head(queue).type = "Remove"
    /\ RemoveResource(Head(queue).uuid)
    /\ UNCHANGED walkVars

-----------------------------------------------------------------------------
(***************************************************************************)
(* REST requests.  The endpoint finds the resource, or the parent of the   *)
(* one to create, before it asks for the transaction.                      *)
(***************************************************************************)
Request(op, u) ==
    /\ request = NoRequest /\ changes < MaxChanges
    /\ IF op = "create" THEN u \notin model /\ Parent[u] \in model ELSE u \in model
    /\ request' = [op |-> op, uuid |-> u]
    /\ changes' = changes + 1
    /\ UNCHANGED <<tree, up, queue, downs, known, failing, tableVars, walkVars, cleanVars,
                   late, subscriberVars, errors>>

(***************************************************************************)
(* The request fails: no agent, transaction taken, or the agent refuses.   *)
(***************************************************************************)
RequestFails ==
    /\ request # NoRequest /\ mode \notin RestModes
    /\ request' = NoRequest
    /\ UNCHANGED <<agentVars, known, failing, tableVars, walkVars, cleanVars, late,
                   subscriberVars, errors>>

(***************************************************************************)
(* The agent carries the request out, then the resource is loaded, with    *)
(* what is below it if it is new, or removed.                              *)
(***************************************************************************)
ServeRequest ==
    LET u == request.uuid IN
    /\ up /\ known /\ request # NoRequest /\ failing' = "no"
    /\ CASE request.op = "create" -> /\ Path[u] \ {u} \subseteq tree /\ u \notin tree
                                     /\ tree' = tree \cup {u}
                                     /\ Begin("LOADING", u, SingleFrame(u))
         [] request.op = "patch"  -> u \in tree /\ tree' = tree /\ Begin("LOADING", u, SingleFrame(u))
         [] request.op = "delete" -> /\ u \in tree /\ tree' = tree \ Below(u)
                                     /\ Begin("DELETE", u, SingleFrame(u))
    /\ \/ queue' = queue
       \/ request.op = "create" /\ Notification("Add", u)
       \/ request.op = "delete" /\ Notification("Remove", u)
    /\ UNCHANGED <<up, changes, downs, known, tableVars, cleanVars, threadVars,
                   subscriberVars, errors>>

DeleteFromModel ==
    /\ mode = "DELETE" /\ RemoveResource(top)
    /\ EndWalk /\ request' = NoRequest
    /\ UNCHANGED <<agentVars, known, failing, cleanVars, late, errors>>

-----------------------------------------------------------------------------
(***************************************************************************)
(* The walk makes one call at a time: for a member of the collection being *)
(* fetched, else for the list of the next collection.                      *)
(***************************************************************************)
Walking == mode \notin {"idle", "DELETE"} /\ cleaning = NotCleaning

Fetching(v) == Walking /\ v \in Current.kids
Listing(k) == Walking /\ Current.kids = {} /\ Current.kind = NoKind /\ k \in Current.kinds

(***************************************************************************)
(* The frame after a call.  When it fails the member is skipped, and the   *)
(* list taken to be empty.  add_or_update_entry touches what it stores.    *)
(***************************************************************************)
Touched(f, v) == [f EXCEPT !.seen = @ \cup {v}]

Skip(v) == [Current EXCEPT !.kids = @ \ {v}]
Listed(k, S) == [Current EXCEPT !.kinds = @ \ {k}, !.kind = k, !.kids = S]

(***************************************************************************)
(* The parent type an entry is stored with: the top of Context::stack, or  *)
(* what find_component finds for the parent a notification names.          *)
(***************************************************************************)
TypeOfParent ==
    IF Current.skewed THEN "wrong"
    ELSE IF mode \in {"ADD", "UPDATE"} /\ Len(stack) = 1 /\ Parent[top] \notin model THEN "None"
    ELSE "parent"

Store(v, type) ==
    /\ model' = model \cup {v}
    /\ parentType' = [parentType EXCEPT ![v] = type]
    /\ UNCHANGED learned

Recursive == mode \in {"POLLING", "ADD"} \/ (mode = "LOADING" /\ request.op = "create")

(***************************************************************************)
(* fetch_entry and add_to_model, then fetch_subcomponents for its          *)
(* collections.  add_event throws, after the entry is stored, when the URL *)
(* cannot be built; it is called if the entry is new or has changed.       *)
(***************************************************************************)
EntryFetched(v) ==
    /\ Fetching(v) /\ up /\ v \in tree
    /\ failing' = "no"
    /\ Store(v, TypeOfParent)
    /\ \E throws \in IF ~InvalidUrl(v)' THEN {FALSE}
                     ELSE IF v \in model THEN BOOLEAN ELSE {TRUE} :
         LET done == Touched(Skip(v), v) IN
         stack' = IF throws \/ ~Recursive \/ Collections(v) = {}
                  THEN Replace(done) ELSE Append(Replace(done), NewFrame(v))
    /\ LET announced == v \notin model /\ ~InvalidUrl(v)' /\ ~NoUrl(v)' IN
         /\ added' = IF announced THEN added \cup {v} ELSE added
         /\ untold' = IF v \in model \/ announced THEN untold ELSE untold \cup {v}
    /\ UNCHANGED <<agentVars, known, mode, top, removed, historyVars, cleanVars, threadVars,
                   told, errors>>

ListFetched(k) ==
    /\ Listing(k) /\ up /\ Current.uuid \in tree \cup {Root}
    /\ failing' = "no"
    /\ stack' = Replace(Listed(k, {v \in tree : Parent[v] = Current.uuid /\ Kind[v] = k}))
    /\ UNCHANGED <<agentVars, known, tableVars, mode, top, added, removed, historyVars,
                   cleanVars, threadVars, subscriberVars, errors>>

(***************************************************************************)
(* The agent answers with an error: it does not have the resource any      *)
(* more, or something else went wrong.                                     *)
(***************************************************************************)
Refused(u) ==
    /\ up /\ failing' = "no"
    /\ \/ u \notin tree \cup {Root} /\ UNCHANGED <<errors, erred>>
       \/ errors < MaxErrors /\ errors' = errors + 1 /\ erred' = TRUE

EntryRefused(v) ==
    /\ Fetching(v) /\ Refused(v)
    /\ stack' = Replace(Skip(v))
    /\ UNCHANGED <<agentVars, known, tableVars, mode, top, added, removed, steady, present,
                   cleanVars, threadVars, subscriberVars>>

ListRefused(k) ==
    /\ Listing(k) /\ Refused(Current.uuid)
    /\ stack' = Replace(Listed(k, {}))
    /\ UNCHANGED <<agentVars, known, tableVars, mode, top, added, removed, steady,
                   present, cleanVars, threadVars, subscriberVars>>

(***************************************************************************)
(* All members of a collection are fetched: remember_sub_handler.          *)
(***************************************************************************)
CollectionFetched ==
    /\ Walking /\ Current.kids = {} /\ Current.kind # NoKind
    /\ learned' = [learned EXCEPT ![HandlerKind(Current.uuid)] = @ \cup {Current.kind}]
    /\ stack' = Replace([Current EXCEPT !.kind = NoKind])
    /\ UNCHANGED <<agentVars, known, failing, model, parentType, mode, top, added, removed,
                   historyVars, cleanVars, threadVars, subscriberVars, errors>>

(***************************************************************************)
(* All collections are fetched: remove_untouched, but not for the level of *)
(* a single resource and not for an Add.  An exception of do_remove is     *)
(* caught one level up and leaves Context::stack with an entry too many.   *)
(* At the outermost level the events are sent, unless the exception leaves *)
(* load().                                                                 *)
(***************************************************************************)
UntouchedOnLoad ==
    IF mode \in {"ADD", "POLLING"} \/ Len(stack) = 1 THEN {}
    ELSE {v \in model : Parent[v] = Current.uuid} \ Current.seen
Untouched ==
    IF mode = "ADD" \/ (Len(stack) = 1 /\ mode # "POLLING") THEN {}
    ELSE {v \in model : Parent[v] = Current.uuid} \ Current.seen

Skewed(frames) == [i \in DOMAIN frames |-> [frames[i] EXCEPT !.skewed = TRUE]]

LevelFetched ==
    /\ Walking /\ Current.kids = {} /\ Current.kind = NoKind /\ Current.kinds = {}
    /\ \E D \in DoRemove(Untouched) :
         /\ model' = model \ D
         /\ IF Len(stack) > 1 /\ ~(mode = "LOADING" /\ Len(stack) = 2 /\ Throws(Untouched))
            THEN /\ stack' = LET outer == SubSeq(stack, 1, Len(stack) - 1) IN
                             IF Throws(Untouched) THEN Skewed(outer) ELSE outer
                 /\ removed' = removed \cup Announced(D)
                 /\ untold' = untold \cup Silent(D)
                 /\ UNCHANGED <<mode, top, added, historyVars, told, request>>
            ELSE /\ EndWalk
                 /\ request' = IF mode = "LOADING" THEN NoRequest ELSE request
                 /\ IF Len(stack) = 1
                    THEN Notify(added, removed \cup Announced(D), Silent(D))
                    ELSE Notify({}, {}, added \cup removed \cup D)
    /\ UNCHANGED <<agentVars, known, failing, parentType, learned, cleanVars, late, errors>>

-----------------------------------------------------------------------------
(***************************************************************************)
(* AgentUnreachable ends the walk; its events are not sent.  The resource  *)
(* of an Add is removed again.                                             *)
(***************************************************************************)
Abort(events) ==
    /\ \E D \in IF mode = "ADD" THEN DoRemove({top}) ELSE {{}} :
         /\ model' = model \ D
         /\ Notify({}, events, added \cup removed \cup D)
    /\ EndWalk
    /\ request' = IF mode = "LOADING" THEN NoRequest ELSE request

(***************************************************************************)
(* The agent does not answer a call.  After 60 seconds its resources are   *)
(* removed before AgentUnreachable is thrown.                              *)
(***************************************************************************)
Unreachable ==
    /\ Walking /\ ~up
    /\ \E f \in {Skip(v) : v \in Current.kids}
              \cup {Listed(k, {}) : k \in {k \in Current.kinds : Listing(k)}} :
         IF failing = "old"
         THEN /\ cleaning' = Kinds /\ stack' = Replace(f) /\ erred' = TRUE
              /\ UNCHANGED <<failing, model, mode, top, added, removed, steady, present,
                             request, subscriberVars>>
         ELSE failing' = "recent" /\ Abort({}) /\ UNCHANGED cleaning
    /\ UNCHANGED <<agentVars, known, parentType, learned, cleaned, late, errors>>

RequestUnreachable ==
    /\ request # NoRequest /\ known /\ ~up /\ mode = "idle"
    /\ IF failing = "old"
       THEN /\ Begin("LOADING", request.uuid, [SingleFrame(request.uuid) EXCEPT !.kids = {}])
            /\ cleaning' = Kinds
            /\ UNCHANGED <<failing, request>>
       ELSE failing' = "recent" /\ request' = NoRequest /\ UNCHANGED <<walkVars, cleaning>>
    /\ UNCHANGED <<agentVars, known, tableVars, cleaned, late, subscriberVars, errors>>

(***************************************************************************)
(* remove_agent_data of one handler; the handlers are visited in no        *)
(* particular order.  An exception ends the whole clean-up, looks like an  *)
(* RPC error to the walk, and the agent stays registered.                  *)
(***************************************************************************)
CleanKind(k) ==
    LET S == {v \in model : Kind[v] = k} IN
    /\ cleaning # NotCleaning /\ k \in cleaning
    /\ \E D \in DoRemove(S) :
         /\ model' = model \ D
         /\ IF Throws(S)
            THEN cleaning' = NotCleaning /\ cleaned' = {} /\ untold' = untold \cup cleaned \cup D
            ELSE /\ cleaning' = cleaning \ {k}
                 /\ cleaned' = cleaned \cup Announced(D)
                 /\ untold' = untold \cup Silent(D)
    /\ UNCHANGED <<agentVars, known, failing, parentType, learned, walkVars, threadVars, told,
                   errors>>

CleanOnly ==
    /\ cleaning = {}
    /\ cleaning' = NotCleaning /\ cleaned' = {}
    /\ Abort(cleaned)
    /\ UNCHANGED <<agentVars, known, failing, parentType, learned, late, errors>>

Unregister ==
    /\ cleaning = {}
    /\ cleaning' = NotCleaning /\ cleaned' = {} /\ known' = FALSE
    /\ Abort(cleaned)
    /\ UNCHANGED <<agentVars, failing, parentType, learned, late, errors>>

-----------------------------------------------------------------------------
(***************************************************************************)
(* The completion callback of an asynchronous task loads a resource        *)
(* outside any transaction: it fetches it, and stores it later.  The       *)
(* resource counts as touched for a walk that has begun its collection.    *)
(***************************************************************************)
LateFetch(u) ==
    /\ up /\ u \in tree \ late /\ changes < MaxChanges
    /\ late' = late \cup {u} /\ changes' = changes + 1
    /\ UNCHANGED <<tree, up, queue, downs, known, failing, tableVars, walkVars, cleanVars,
                   request, subscriberVars, errors>>

TouchNone(u) == stack
Touch(u) ==
    [i \in DOMAIN stack |->
        IF stack[i].uuid = Parent[u] /\ Kind[u] \notin stack[i].kinds
        THEN [stack[i] EXCEPT !.seen = @ \cup {u}] ELSE stack[i]]

LateStore(u) ==
    /\ u \in late /\ late' = late \ {u}
    /\ Store(u, "parent")
    /\ stack' = Touch(u)
    /\ IF u \in model THEN UNCHANGED subscriberVars
       ELSE IF InvalidUrl(u)' \/ NoUrl(u)' THEN Notify({}, {}, {u}) ELSE Notify({u}, {}, {})
    /\ IF mode = "POLLING"
       THEN steady' = steady \cup ({u} \cap tree) /\ present' = present \cup {u}
       ELSE UNCHANGED <<steady, present>>
    /\ UNCHANGED <<agentVars, known, failing, mode, top, added, removed, erred, cleanVars,
                   request, errors>>

-----------------------------------------------------------------------------
AgentStep ==
    \/ \E u \in Uuids : AgentAdds(u) \/ AgentRemoves(u) \/ AgentUpdates(u)
    \/ GoDown \/ ComeUp

WalkStep ==
    \/ \E v \in Uuids : EntryFetched(v) \/ EntryRefused(v)
    \/ \E k \in Kinds : ListFetched(k) \/ ListRefused(k) \/ CleanKind(k)
    \/ CollectionFetched \/ LevelFetched \/ Unreachable \/ Unregister

WatcherStep == StartPoll \/ IgnoreNotification \/ HandleAddOrUpdate \/ HandleRemove

RestStep ==
    \/ \E u \in Uuids, op \in RequestTypes : Request(op, u)
    \/ RequestFails \/ ServeRequest \/ RequestUnreachable \/ DeleteFromModel
    \/ \E u \in LateUuids : LateFetch(u) \/ LateStore(u)

Next == AgentStep \/ Age \/ Attach \/ WalkStep \/ WatcherStep \/ RestStep

Spec == Init /\ [][Next]_vars

(***************************************************************************)
(* The watcher's tasks run at their interval, every call returns, time     *)
(* passes, an agent that is not registered attaches again, and REST        *)
(* threads finish.  Nothing is assumed of notifications: watch() handles   *)
(* them only when no task is due.                                          *)
(***************************************************************************)
Fairness ==
    /\ WF_vars(StartPoll) /\ WF_vars(WalkStep) /\ WF_vars(Age) /\ WF_vars(Attach)
    /\ WF_vars(RequestFails \/ ServeRequest \/ RequestUnreachable \/ DeleteFromModel)
    /\ WF_vars(\E u \in LateUuids : LateStore(u))

FairSpec == Spec /\ Fairness

-----------------------------------------------------------------------------
(***************************************************************************)
(* Resources that have all their ancestors.                                *)
(***************************************************************************)
Rooted(S) == {u \in S : Path[u] \subseteq S}

(***************************************************************************)
(* A poll in which no call fails never removes a resource that its agent   *)
(* has had, with its ancestors, all along: since the poll began, or since  *)
(* a concurrent load stored it.  remove_untouched takes what was not       *)
(* touched since the epoch for deleted.                                    *)
(***************************************************************************)
NoSpuriousRemoval ==
    [][mode = "POLLING" /\ ~erred => \A u \in model \ model' : ~(Path[u] \subseteq steady)]_vars

(***************************************************************************)
(* The last step of a poll that walks to its end.                          *)
(***************************************************************************)
PollEnds ==
    /\ mode = "POLLING" /\ Len(stack) = 1 /\ cleaning = NotCleaning
    /\ Current.kinds = {} /\ Current.kids = {} /\ Current.kind = NoKind

(***************************************************************************)
(* A poll that runs to its end without a failed call leaves the tables     *)
(* with every resource the agent had all along, and no other resource with *)
(* all its ancestors than those the agent had, or a callback stored, at    *)
(* some time of the poll.                                                  *)
(***************************************************************************)
PollCopiesTree ==
    [][PollEnds /\ mode' = "idle" /\ ~erred =>
         /\ \A u \in Uuids : Path[u] \subseteq steady => u \in model'
         /\ Rooted(model)' \subseteq present]_vars

(***************************************************************************)
(* Between transactions, subscribers to resource events know exactly the   *)
(* resources in the tables, up to those whose last event was lost with the *)
(* Context of a walk that was given up, those without URL, and those that  *)
(* a completion callback may load while a walk collects its events.        *)
(***************************************************************************)
SubscribersFollow ==
    mode = "idle" => \A u \in Uuids \ (untold \cup LateUuids) : u \in told <=> u \in model

(***************************************************************************)
(* Whatever notifications were lost and calls failed before, once the      *)
(* agent stays reachable the polls make the tables a copy of its tree,     *)
(* apart from resources without their parent.                              *)
(***************************************************************************)
Converges == <>[]up => <>[](Rooted(model) = tree)

(***************************************************************************)
(* An agent that stays unreachable is in the end no longer registered,     *)
(* unless remove_agent_data throws over a resource without its parent.     *)
(***************************************************************************)
DeadForgotten == <>[](~up) => <>[](~known \/ \E u \in model : InvalidUrl(u))
=============================================================================
