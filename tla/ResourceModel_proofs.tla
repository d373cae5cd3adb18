------------------------ MODULE ResourceModel_proofs ------------------------
(***************************************************************************)
(* Proofs about ResourceModel, for every tree of resources and all bounds: *)
(* a poll without failed calls never removes a resource that the agent has *)
(* had all along.                                                          *)
(***************************************************************************)
EXTENDS ResourceModel, TLAPS

(***************************************************************************)
(* A poll without failed calls has not lost sight of a steady resource: at *)
(* every level of the walk its collection is still to be fetched, or the   *)
(* resource is still to be fetched, or it has been touched.                *)
(***************************************************************************)
SteadyInSight ==
    mode = "POLLING" /\ ~erred =>
        \A i \in DOMAIN stack : \A u \in steady :
            Parent[u] = stack[i].uuid =>
                Kind[u] \in stack[i].kinds \/ u \in stack[i].kids \/ u \in stack[i].seen

(***************************************************************************)
(* The inductive invariant.  Besides the types: steady resources are in    *)
(* the tree, a thread in a transaction has a level to work on, and a       *)
(* clean-up only happens in a walk that has lost a call.                   *)
(***************************************************************************)
WalkInv ==
    /\ steady \subseteq tree
    /\ mode # "idle" => stack # <<>>
    /\ cleaning # NotCleaning => mode \notin {"idle", "DELETE"} /\ (mode = "POLLING" => erred)
    /\ SteadyInSight

IInv == TypeOK /\ WalkInv

-----------------------------------------------------------------------------
(***************************************************************************)
(* The shape of the tree.                                                  *)
(***************************************************************************)
LEMMA TreeFacts ==
    ASSUME NEW u \in Uuids
    PROVE  /\ u \in Path[u] /\ Path[u] \subseteq Uuids
           /\ Kind[u] \in Kinds
           /\ Parent[u] \in Uuids \cup {Root}
           /\ Parent[u] # Root => Parent[u] \in Path[u]
           /\ HandlerKind(u) \in Kinds \cup {Root}
BY TreeAssumption DEF HandlerKind

(***************************************************************************)
(* What the agent has is closed under ancestors, also after it has lost a  *)
(* resource with everything below it.                                      *)
(***************************************************************************)
LEMMA ClosedWithout ==
    ASSUME NEW S \in SUBSET Uuids, Closed(S), NEW u \in Uuids
    PROVE  Closed(S \ Below(u))
BY TreeAssumption DEF Closed, Below

(***************************************************************************)
(* The levels of the walk are frames.                                      *)
(***************************************************************************)
LEMMA NewFrameType ==
    ASSUME NEW u \in Uuids \cup {Root}
    PROVE  NewFrame(u) \in Frame
<1>1. \A v \in Children(u) : Kind[v] \in Kinds
  BY TreeFacts DEF Children
<1>2. Collections(u) \subseteq Kinds
  BY <1>1 DEF Collections
<1> QED BY <1>2 DEF NewFrame, Frame

LEMMA SingleFrameType ==
    ASSUME NEW u \in Uuids
    PROVE  SingleFrame(u) \in Frame
BY TreeFacts DEF SingleFrame, Frame

LEMMA CurrentType ==
    ASSUME IInv, mode # "idle"
    PROVE  Len(stack) \in Nat \ {0} /\ Len(stack) \in DOMAIN stack /\ Current \in Frame
BY DEF IInv, TypeOK, WalkType, WalkInv, Current

LEMMA ReplaceType ==
    ASSUME IInv, mode # "idle", NEW f \in Frame
    PROVE  /\ Replace(f) \in Seq(Frame) /\ Replace(f) # <<>>
           /\ DOMAIN Replace(f) = DOMAIN stack
           /\ \A i \in DOMAIN stack : Replace(f)[i] = IF i = Len(stack) THEN f ELSE stack[i]
           /\ Len(Replace(f)) = Len(stack)
BY CurrentType DEF IInv, TypeOK, WalkType, Replace

LEMMA SkipType ==
    ASSUME IInv, mode # "idle", NEW v
    PROVE  /\ Skip(v) \in Frame
           /\ Skip(v).uuid = Current.uuid /\ Skip(v).kinds = Current.kinds
           /\ Skip(v).kids = Current.kids \ {v} /\ Skip(v).seen = Current.seen
           /\ Skip(v).skewed = Current.skewed
BY CurrentType DEF Skip, Frame

LEMMA ListedType ==
    ASSUME IInv, mode # "idle", NEW k \in Kinds, NEW S \in SUBSET Uuids
    PROVE  /\ Listed(k, S) \in Frame
           /\ Listed(k, S).uuid = Current.uuid /\ Listed(k, S).kinds = Current.kinds \ {k}
           /\ Listed(k, S).kids = S /\ Listed(k, S).seen = Current.seen
           /\ Listed(k, S).skewed = Current.skewed
BY CurrentType, ZenonT(60) DEF Listed, Frame

(***************************************************************************)
(* do_remove only takes resources of the tables that lie below one it was  *)
(* called for.                                                             *)
(***************************************************************************)
LEMMA DoRemoveBelow ==
    ASSUME NEW S, NEW D \in DoRemove(S)
    PROVE  D \subseteq model /\ \A v \in D : \E u \in S : u \in Path[v]
BY DEF DoRemove, Visited, Below

(***************************************************************************)
(* What a step does not change keeps its type.                             *)
(***************************************************************************)
LEMMA KeepsTypes ==
    /\ AgentType /\ UNCHANGED <<tree, up, queue>> => AgentType'
    /\ ServerType /\ UNCHANGED <<known, failing>> => ServerType'
    /\ TableType /\ UNCHANGED tableVars => TableType'
    /\ WalkType /\ UNCHANGED walkVars => WalkType'
    /\ CleanType /\ UNCHANGED cleanVars => CleanType'
    /\ ThreadType /\ UNCHANGED threadVars => ThreadType'
    /\ SubscriberType /\ UNCHANGED subscriberVars => SubscriberType'
    /\ WithinBounds /\ UNCHANGED <<changes, downs, errors>> => WithinBounds'
<1>1. AgentType /\ UNCHANGED <<tree, up, queue>> => AgentType'
  BY DEF AgentType, Closed
<1>2. ServerType /\ UNCHANGED <<known, failing>> => ServerType'
  BY DEF ServerType
<1>3. TableType /\ UNCHANGED tableVars => TableType'
  BY DEF TableType, tableVars
<1>4. WalkType /\ UNCHANGED walkVars => WalkType'
  BY DEF WalkType, walkVars, historyVars
<1>5. CleanType /\ UNCHANGED cleanVars => CleanType'
  BY DEF CleanType, cleanVars, NotCleaning
<1>6. ThreadType /\ UNCHANGED threadVars => ThreadType'
  BY DEF ThreadType, threadVars
<1>7. SubscriberType /\ UNCHANGED subscriberVars => SubscriberType'
  BY DEF SubscriberType, subscriberVars
<1>8. WithinBounds /\ UNCHANGED <<changes, downs, errors>> => WithinBounds'
  BY DEF WithinBounds
<1> QED BY <1>1, <1>2, <1>3, <1>4, <1>5, <1>6, <1>7, <1>8

LEMMA KeepsWalk ==
    ASSUME WalkInv, UNCHANGED <<tree, walkVars, cleaning>>
    PROVE  WalkInv'
<1>1. SteadyInSight'
  BY DEF WalkInv, SteadyInSight, walkVars, historyVars
<1> QED BY <1>1 DEF WalkInv, walkVars, historyVars, NotCleaning

(***************************************************************************)
(* A transaction begins and ends with the walk's invariant.                *)
(***************************************************************************)
LEMMA BeginWalk ==
    ASSUME IInv, NEW md \in WatcherModes \cup RestModes, NEW u \in Uuids \cup {Root},
           NEW f \in Frame, Begin(md, u, f),
           md = "POLLING" => f = NewFrame(Root) /\ UNCHANGED tree,
           md = "LOADING" \/ cleaning' = NotCleaning
    PROVE  WalkType' /\ WalkInv'
<1>1. WalkType'
  <2>1. stack' = <<f>> /\ <<f>> \in Seq(Frame)
    BY DEF Begin
  <2>2. tree \subseteq Uuids
    BY DEF IInv, TypeOK, AgentType
  <2> QED BY <2>1, <2>2, ZenonT(60) DEF Begin, WalkType
<1>2. steady' \subseteq tree'
  BY DEF Begin
<1>3. SteadyInSight'
  <2>1. SUFFICES ASSUME md = "POLLING", NEW v \in steady', Parent[v] = Root
                 PROVE  Kind[v] \in NewFrame(Root).kinds
    BY DEF SteadyInSight, Begin, NewFrame
  <2>2. v \in Uuids
    BY <2>1 DEF Begin, IInv, TypeOK, AgentType
  <2> QED BY <2>1, <2>2 DEF NewFrame, Collections, Children
<1> QED BY <1>1, <1>2, <1>3 DEF Begin, WalkInv, WatcherModes, RestModes, NotCleaning

LEMMA EndsWalk ==
    ASSUME IInv, EndWalk, cleaning' = NotCleaning
    PROVE  WalkType' /\ WalkInv'
<1>1. <<>> \in Seq(Frame)
  OBVIOUS
<1>2. WalkType'
  BY <1>1, ZenonT(60) DEF EndWalk, WalkType
<1> QED BY <1>2 DEF EndWalk, WalkInv, SteadyInSight

-----------------------------------------------------------------------------
(***************************************************************************)
(* The agent's own steps.                                                  *)
(***************************************************************************)
LEMMA ChangeStep ==
    ASSUME IInv, NEW T \in SUBSET Uuids, Closed(T), Change(T),
           NEW n \in [type: {"Add", "Remove", "Update"}, uuid: Uuids],
           queue' = queue \/ queue' = Append(queue, n),
           UNCHANGED <<up, downs, known, failing, tableVars, mode, top, stack, added, removed,
                       erred, cleanVars, threadVars, subscriberVars, errors>>
    PROVE  IInv'
<1>1. TypeOK'
  <2>1. WithinBounds'
    BY BoundsAssumption DEF IInv, TypeOK, WithinBounds, Change
  <2>2. AgentType'
    <3> DEFINE N == [type: {"Add", "Remove", "Update"}, uuid: Uuids]
    <3>1. queue \in Seq(N) /\ n \in N
      BY DEF IInv, TypeOK, AgentType
    <3> HIDE DEF N
    <3>2. queue' \in Seq(N)
      BY <3>1
    <3> QED BY <3>2 DEF N, IInv, TypeOK, AgentType, Change, Closed
  <2>3. WalkType'
    BY DEF IInv, TypeOK, AgentType, WalkType, Change
  <2> QED BY <2>1, <2>2, <2>3, KeepsTypes DEF IInv, TypeOK
<1>2. steady' \subseteq tree' /\ SteadyInSight'
  BY DEF IInv, WalkInv, SteadyInSight, Change
<1> QED BY <1>1, <1>2 DEF IInv, WalkInv, cleanVars, NotCleaning

LEMMA AgentStepInv ==
    ASSUME IInv, AgentStep
    PROVE  IInv'
<1>1. ASSUME NEW u \in Uuids, AgentAdds(u) PROVE IInv'
  <2>1. PICK S \in SUBSET Below(u) : u \in S /\ Closed(tree \cup S) /\ Change(tree \cup S)
    BY <1>1, ZenonT(60) DEF AgentAdds
  <2>2. tree \cup S \in SUBSET Uuids
    BY <2>1 DEF Below, IInv, TypeOK, AgentType
  <2> QED BY <1>1, <2>1, <2>2, ChangeStep DEF AgentAdds, Notification
<1>2. ASSUME NEW u \in Uuids, AgentRemoves(u) PROVE IInv'
  <2>1. tree \ Below(u) \in SUBSET Uuids /\ Closed(tree \ Below(u))
    BY ClosedWithout DEF IInv, TypeOK, AgentType
  <2> QED BY <1>2, <2>1, ChangeStep DEF AgentRemoves, Notification
<1>3. ASSUME NEW u \in Uuids, AgentUpdates(u) PROVE IInv'
  <2>1. tree \in SUBSET Uuids /\ Closed(tree)
    BY DEF IInv, TypeOK, AgentType
  <2> QED BY <1>3, <2>1, ChangeStep DEF AgentUpdates, Notification
<1>4. ASSUME GoDown \/ ComeUp PROVE IInv'
  <2>1. TypeOK'
    <3>1. WithinBounds'
      BY <1>4, BoundsAssumption DEF GoDown, ComeUp, IInv, TypeOK, WithinBounds
    <3>2. AgentType'
      BY <1>4, ZenonT(60) DEF GoDown, ComeUp, IInv, TypeOK, AgentType, Closed
    <3> QED BY <1>4, <3>1, <3>2, KeepsTypes DEF GoDown, ComeUp, IInv, TypeOK
  <2> QED BY <1>4, <2>1, KeepsWalk DEF GoDown, ComeUp, IInv, cleanVars
<1> QED BY <1>1, <1>2, <1>3, <1>4 DEF AgentStep

LEMMA AgeInv ==
    ASSUME IInv, Age \/ Attach
    PROVE  IInv'
<1>1. ServerType'
  BY ZenonT(60) DEF Age, Attach, IInv, TypeOK, ServerType
<1> QED BY <1>1, KeepsTypes, KeepsWalk DEF Age, Attach, IInv, TypeOK, agentVars, cleanVars

-----------------------------------------------------------------------------
(***************************************************************************)
(* The watcher starts a poll or takes a notification.                      *)
(***************************************************************************)
LEMMA NotifyType ==
    ASSUME IInv, NEW A \in SUBSET Uuids, NEW R, NEW S \in SUBSET Uuids, Notify(A, R, S)
    PROVE  SubscriberType'
BY DEF IInv, TypeOK, SubscriberType, Notify

LEMMA RemoveResourceType ==
    ASSUME IInv, NEW u, RemoveResource(u)
    PROVE  TableType' /\ SubscriberType'
<1>1. PICK D \in DoRemove({u}) :
        /\ model' = model \ D
        /\ IF RemoveFails(u) THEN Notify({}, {}, D) ELSE Notify({}, Announced(D), Silent(D))
        /\ UNCHANGED <<parentType, learned>>
  BY DEF RemoveResource
<1>2. D \subseteq Uuids /\ Silent(D) \subseteq Uuids
  BY DoRemoveBelow DEF IInv, TypeOK, TableType, Silent
<1>3. SubscriberType'
  BY <1>1, <1>2, NotifyType
<1>4. TableType'
  BY <1>1 DEF IInv, TypeOK, TableType
<1> QED BY <1>3, <1>4

LEMMA WatcherStepInv ==
    ASSUME IInv, WatcherStep
    PROVE  IInv'
<1>1. CASE StartPoll
  <2>1. NewFrame(Root) \in Frame
    BY NewFrameType
  <2>2. cleaning = NotCleaning
    BY <1>1 DEF StartPoll, Begin, IInv, WalkInv
  <2>3. WalkType' /\ WalkInv'
    BY <1>1, <2>1, <2>2, BeginWalk DEF StartPoll, WatcherModes, agentVars, cleanVars
  <2> QED BY <1>1, <2>3, KeepsTypes DEF StartPoll, IInv, TypeOK, agentVars
<1>2. ASSUME Take PROVE AgentType' /\ Head(queue).uuid \in Uuids
  <2> DEFINE N == [type: {"Add", "Remove", "Update"}, uuid: Uuids]
  <2>1. queue \in Seq(N) /\ queue # <<>>
    BY <1>2 DEF IInv, TypeOK, AgentType, Take
  <2>2. Head(queue) \in N /\ Tail(queue) \in Seq(N)
    <3> HIDE DEF N
    <3> QED BY <2>1
  <2> QED BY <1>2, <2>2 DEF IInv, TypeOK, AgentType, Take, Closed
<1>3. CASE IgnoreNotification
  BY <1>2, <1>3, KeepsTypes, KeepsWalk, Zenon DEF IgnoreNotification, Take, IInv, TypeOK, cleanVars
<1>4. CASE HandleAddOrUpdate
  <2>1. SingleFrame(Head(queue).uuid) \in Frame
    BY <1>2, <1>4, SingleFrameType DEF HandleAddOrUpdate
  <2>2. WalkType' /\ WalkInv'
    BY <1>2, <1>4, <2>1, BeginWalk, ZenonT(60)
    DEF HandleAddOrUpdate, WatcherModes, Begin, Take, cleanVars, IInv, WalkInv
  <2> QED BY <1>2, <1>4, <2>2, KeepsTypes, Zenon DEF HandleAddOrUpdate, Take, IInv, TypeOK
<1>5. CASE HandleRemove
  <2>1. TableType' /\ SubscriberType'
    BY <1>5, RemoveResourceType DEF HandleRemove
  <2> QED BY <1>2, <1>5, <2>1, KeepsTypes, KeepsWalk, Zenon
        DEF HandleRemove, Take, IInv, TypeOK, cleanVars
<1> QED BY <1>1, <1>3, <1>4, <1>5 DEF WatcherStep

-----------------------------------------------------------------------------
(***************************************************************************)
(* REST threads.                                                           *)
(***************************************************************************)
LEMMA RequestUuid ==
    ASSUME IInv, request # NoRequest
    PROVE  request.uuid \in Uuids /\ SingleFrame(request.uuid) \in Frame
BY SingleFrameType DEF IInv, TypeOK, ThreadType

LEMMA RequestInv ==
    ASSUME IInv,
           (\E u \in Uuids, op \in RequestTypes : Request(op, u)) \/ RequestFails
    PROVE  IInv'
<1>1. ASSUME NEW u \in Uuids, NEW op \in RequestTypes, Request(op, u) PROVE IInv'
  <2>1. ThreadType'
    BY <1>1, RequestAssumption, Zenon DEF Request, IInv, TypeOK, ThreadType
  <2>2. WithinBounds'
    BY <1>1, BoundsAssumption DEF Request, IInv, TypeOK, WithinBounds
  <2> QED BY <1>1, <2>1, <2>2, KeepsTypes, KeepsWalk, Zenon DEF Request, IInv, TypeOK, cleanVars
<1>2. CASE RequestFails
  <2>1. ThreadType'
    BY <1>2, Zenon DEF RequestFails, IInv, TypeOK, ThreadType, NoRequest
  <2> QED BY <1>2, <2>1, KeepsTypes, KeepsWalk, Zenon DEF RequestFails, IInv, TypeOK, agentVars, cleanVars
<1> QED BY <1>1, <1>2

LEMMA ServeRequestInv ==
    ASSUME IInv, ServeRequest
    PROVE  IInv'
<1> DEFINE u == request.uuid
<1>1. u \in Uuids /\ SingleFrame(u) \in Frame
  BY RequestUuid DEF ServeRequest
<1>2. /\ Begin("LOADING", u, SingleFrame(u)) \/ Begin("DELETE", u, SingleFrame(u))
      /\ tree' = tree \/ (tree' = tree \cup {u} /\ Path[u] \ {u} \subseteq tree)
           \/ tree' = tree \ Below(u)
  BY <1>1, ZenonT(60) DEF ServeRequest, IInv, TypeOK, ThreadType
<1>3. WalkType' /\ WalkInv'
  <2>1. cleaning' = NotCleaning
    BY <1>2 DEF Begin, ServeRequest, cleanVars, IInv, WalkInv
  <2> QED BY <1>1, <1>2, <2>1, BeginWalk, Zenon DEF RestModes
<1>4. AgentType'
  <2>1. tree' \subseteq Uuids /\ Closed(tree)'
    <3>1. tree \subseteq Uuids /\ Closed(tree)
      BY DEF IInv, TypeOK, AgentType
    <3>2. Closed(tree \ Below(u))
      BY <1>1, <3>1, ClosedWithout
    <3>3. Path[u] \ {u} \subseteq tree => Closed(tree \cup {u})
      BY <3>1 DEF Closed
    <3> QED BY <1>1, <1>2, <3>1, <3>2, <3>3, Zenon DEF Closed
  <2>2. queue' \in Seq([type: {"Add", "Remove", "Update"}, uuid: Uuids])
    <3> DEFINE N == [type: {"Add", "Remove", "Update"}, uuid: Uuids]
    <3>1. queue \in Seq(N) /\ [type |-> "Add", uuid |-> u] \in N /\ [type |-> "Remove", uuid |-> u] \in N
      BY <1>1, Zenon DEF IInv, TypeOK, AgentType
    <3>2. \/ queue' = queue
          \/ queue' = Append(queue, [type |-> "Add", uuid |-> u])
          \/ queue' = Append(queue, [type |-> "Remove", uuid |-> u])
      BY DEF ServeRequest, Notification
    <3> HIDE DEF N
    <3>3. queue' \in Seq(N)
      BY <3>1, <3>2
    <3> QED BY <3>3 DEF N
  <2> QED BY <2>1, <2>2 DEF ServeRequest, IInv, TypeOK, AgentType
<1>5. ServerType'
  BY DEF ServeRequest, IInv, TypeOK, ServerType
<1> QED BY <1>3, <1>4, <1>5, KeepsTypes DEF ServeRequest, IInv, TypeOK

LEMMA RequestUnreachableInv ==
    ASSUME IInv, RequestUnreachable
    PROVE  IInv'
<1> DEFINE f == [SingleFrame(request.uuid) EXCEPT !.kids = {}]
<1>1. request.uuid \in Uuids /\ f \in Frame
  BY RequestUuid DEF RequestUnreachable, Frame
<1>2. CASE failing = "old"
  <2>1. WalkType' /\ WalkInv'
    BY <1>1, <1>2, BeginWalk DEF RequestUnreachable, RestModes
  <2>2. CleanType'
    BY <1>2 DEF RequestUnreachable, IInv, TypeOK, CleanType
  <2> QED BY <1>2, <2>1, <2>2, KeepsTypes
        DEF RequestUnreachable, IInv, TypeOK, agentVars, threadVars
<1>3. CASE failing # "old"
  <2>1. ServerType' /\ ThreadType'
    BY <1>3 DEF RequestUnreachable, IInv, TypeOK, ServerType, ThreadType, NoRequest
  <2> QED BY <1>3, <2>1, KeepsTypes, KeepsWalk
        DEF RequestUnreachable, IInv, TypeOK, agentVars, cleanVars
<1> QED BY <1>2, <1>3

LEMMA DeleteFromModelInv ==
    ASSUME IInv, DeleteFromModel
    PROVE  IInv'
<1>1. TableType' /\ SubscriberType'
  BY RemoveResourceType DEF DeleteFromModel
<1>2. ThreadType'
  BY Zenon DEF DeleteFromModel, IInv, TypeOK, ThreadType, NoRequest
<1>3. WalkType' /\ WalkInv'
  BY EndsWalk DEF DeleteFromModel, IInv, WalkInv, cleanVars
<1> QED BY <1>1, <1>2, <1>3, KeepsTypes, Zenon DEF DeleteFromModel, IInv, TypeOK, agentVars

LEMMA StoreType ==
    ASSUME IInv, NEW u \in Uuids, NEW t \in {"parent", "None", "wrong"}, Store(u, t)
    PROVE  TableType'
BY DEF Store, IInv, TypeOK, TableType

(***************************************************************************)
(* The levels after a callback has stored u.                               *)
(***************************************************************************)
LEMMA TouchFacts ==
    ASSUME IInv, NEW u \in Uuids
    PROVE  /\ Touch(u) \in Seq(Frame) /\ DOMAIN Touch(u) = DOMAIN stack
           /\ \A i \in DOMAIN stack :
                 /\ Touch(u)[i].uuid = stack[i].uuid /\ Touch(u)[i].kinds = stack[i].kinds
                 /\ Touch(u)[i].kids = stack[i].kids /\ Touch(u)[i].skewed = stack[i].skewed
                 /\ Touch(u)[i].seen = IF stack[i].uuid = Parent[u] /\ Kind[u] \notin stack[i].kinds
                                       THEN stack[i].seen \cup {u} ELSE stack[i].seen
           /\ stack # <<>> => Touch(u) # <<>>
           /\ Len(Touch(u)) = Len(stack)
<1>1. stack \in Seq(Frame) /\ \A i \in DOMAIN stack : stack[i] \in Frame
  BY DEF IInv, TypeOK, WalkType
<1>2. DOMAIN Touch(u) = DOMAIN stack
  BY DEF Touch
<1>3. ASSUME NEW i \in DOMAIN stack
      PROVE  /\ Touch(u)[i] \in Frame
             /\ Touch(u)[i].uuid = stack[i].uuid /\ Touch(u)[i].kinds = stack[i].kinds
             /\ Touch(u)[i].kids = stack[i].kids /\ Touch(u)[i].skewed = stack[i].skewed
             /\ Touch(u)[i].seen = IF stack[i].uuid = Parent[u] /\ Kind[u] \notin stack[i].kinds
                                   THEN stack[i].seen \cup {u} ELSE stack[i].seen
  <2> DEFINE touched == stack[i].uuid = Parent[u] /\ Kind[u] \notin stack[i].kinds
             g == [stack[i] EXCEPT !.seen = stack[i].seen \cup {u}]
  <2>1. Touch(u)[i] = IF touched THEN g ELSE stack[i]
    BY DEF Touch
  <2>2. stack[i] \in Frame
    BY <1>1
  <2>3. /\ g \in Frame /\ g.uuid = stack[i].uuid /\ g.kinds = stack[i].kinds
        /\ g.kids = stack[i].kids /\ g.skewed = stack[i].skewed /\ g.seen = stack[i].seen \cup {u}
    BY <2>2 DEF Frame
  <2> HIDE DEF g, touched
  <2>4. CASE touched
    BY <2>1, <2>3, <2>4, Zenon DEF touched
  <2>5. CASE ~touched
    BY <2>1, <2>2, <2>5, Zenon DEF touched
  <2> QED BY <2>4, <2>5, Zenon
<1>4. \E n \in Nat : DOMAIN stack = 1..n
  BY <1>1
<1>5. Touch(u) \in Seq(Frame)
  <2>1. PICK n \in Nat : DOMAIN stack = 1..n
    BY <1>4
  <2>2. Touch(u) \in [1..n -> Frame]
    <3>1. Touch(u) = [i \in 1..n |-> Touch(u)[i]]
      BY <2>1 DEF Touch
    <3> QED BY <1>3, <2>1, <3>1, Zenon
  <2> QED BY <2>2
<1>6. stack # <<>> => Touch(u) # <<>>
  BY <1>1, <1>2, <1>5
<1>7. Len(Touch(u)) = Len(stack)
  BY <1>1, <1>2, <1>5
<1> QED BY <1>2, <1>3, <1>5, <1>6, <1>7, Zenon

(***************************************************************************)
(* A resource stored by a callback counts as touched at every level that   *)
(* has begun to fetch its collection.                                      *)
(***************************************************************************)
LEMMA LateInv ==
    ASSUME IInv, NEW u \in LateUuids, LateFetch(u) \/ LateStore(u)
    PROVE  IInv'
<1>0. u \in Uuids
  BY RequestAssumption
<1>1. CASE LateFetch(u)
  <2>1. ThreadType'
    BY <1>0, <1>1 DEF LateFetch, IInv, TypeOK, ThreadType
  <2>2. WithinBounds'
    BY <1>1, BoundsAssumption, SMTT(60) DEF LateFetch, IInv, TypeOK, WithinBounds
  <2> QED BY <1>1, <2>1, <2>2, KeepsTypes, KeepsWalk, Zenon DEF LateFetch, IInv, TypeOK, cleanVars
<1>2. CASE LateStore(u)
  <2>1. TableType'
    BY <1>0, <1>2, StoreType, Zenon DEF LateStore
  <2>2. ThreadType'
    BY <1>2, Zenon DEF LateStore, IInv, TypeOK, ThreadType
  <2>3. SubscriberType'
    BY <1>0, <1>2, NotifyType, KeepsTypes, SMTT(40) DEF LateStore, IInv, TypeOK
  <2>4. /\ stack' \in Seq(Frame) /\ DOMAIN stack' = DOMAIN stack
        /\ \A i \in DOMAIN stack :
              /\ stack'[i].uuid = stack[i].uuid /\ stack'[i].kinds = stack[i].kinds
              /\ stack'[i].kids = stack[i].kids
              /\ stack'[i].seen = IF stack[i].uuid = Parent[u] /\ Kind[u] \notin stack[i].kinds
                                  THEN stack[i].seen \cup {u} ELSE stack[i].seen
        /\ stack # <<>> => stack' # <<>>
    BY <1>0, <1>2, TouchFacts, ZenonT(60) DEF LateStore
  <2>5. WalkType'
    BY <1>0, <1>2, <2>4, ZenonT(60) DEF LateStore, IInv, TypeOK, WalkType, AgentType
  <2>6. steady' \subseteq tree'
    BY <1>2, Zenon DEF LateStore, agentVars, IInv, WalkInv
  <2>7. SteadyInSight'
    <3>1. SUFFICES ASSUME mode' = "POLLING", ~erred', NEW i \in DOMAIN stack, NEW v \in steady',
                          Parent[v] = stack[i].uuid
                   PROVE  Kind[v] \in stack[i].kinds \/ v \in stack[i].kids \/ v \in stack'[i].seen
      BY <2>4, ZenonT(60) DEF SteadyInSight
    <3>2. mode = "POLLING" /\ ~erred /\ (v \in steady \/ v = u)
      BY <1>2, <3>1, ZenonT(60) DEF LateStore
    <3>3. CASE v \in steady
      BY <2>4, <3>1, <3>2, <3>3, ZenonT(60) DEF IInv, WalkInv, SteadyInSight
    <3>4. CASE v = u
      BY <2>4, <3>1, <3>4, ZenonT(60)
    <3> QED BY <3>2, <3>3, <3>4, Zenon
  <2>8. WalkInv'
    BY <1>2, <2>4, <2>6, <2>7, ZenonT(60) DEF LateStore, cleanVars, IInv, WalkInv, NotCleaning
  <2> QED BY <1>2, <2>1, <2>2, <2>3, <2>5, <2>8, KeepsTypes, Zenon DEF LateStore, IInv, TypeOK, agentVars
<1> QED BY <1>1, <1>2

-----------------------------------------------------------------------------
(***************************************************************************)
(* The steps of a walk.  Most replace the innermost level by one that has  *)
(* every steady resource still in sight.                                   *)
(***************************************************************************)
InSight(f, u) == Kind[u] \in f.kinds \/ u \in f.kids \/ u \in f.seen

LEMMA CurrentInSight ==
    ASSUME IInv, mode = "POLLING", ~erred, NEW u \in steady, Parent[u] = Current.uuid
    PROVE  InSight(Current, u)
BY CurrentType, Zenon DEF IInv, WalkInv, SteadyInSight, Current, InSight

LEMMA ReplaceInv ==
    ASSUME IInv, mode # "idle", NEW f \in Frame, f.uuid = Current.uuid, stack' = Replace(f),
           UNCHANGED <<tree, mode, steady, cleaning>>, ~erred' => ~erred,
           mode = "POLLING" /\ ~erred' =>
               \A u \in steady : Parent[u] = Current.uuid => InSight(f, u)
    PROVE  WalkInv'
<1>1. SteadyInSight'
  <2>1. SUFFICES ASSUME mode = "POLLING", ~erred', NEW i \in DOMAIN stack, NEW u \in steady,
                        Parent[u] = stack'[i].uuid
                 PROVE  InSight(stack'[i], u)
    BY ReplaceType, Zenon DEF SteadyInSight, InSight
  <2>2. CASE i = Len(stack)
    BY <2>1, <2>2, ReplaceType, ZenonT(60)
  <2>3. CASE i # Len(stack)
    <3>1. stack'[i] = stack[i]
      BY <2>3, ReplaceType, Zenon
    <3> QED BY <2>1, <3>1, Zenon DEF IInv, WalkInv, SteadyInSight, InSight
  <2> QED BY <2>2, <2>3, Zenon
<1>2. stack' # <<>>
  BY ReplaceType, Zenon
<1>3. cleaning # NotCleaning /\ mode = "POLLING" => erred'
  BY Zenon DEF IInv, WalkInv
<1> QED BY <1>1, <1>2, <1>3 DEF IInv, WalkInv, NotCleaning

LEMMA DescendInv ==
    ASSUME IInv, mode # "idle", NEW f \in Frame, f.uuid = Current.uuid, NEW v \in Uuids,
           stack' = Append(Replace(f), NewFrame(v)),
           UNCHANGED <<tree, mode, steady, cleaning, erred>>,
           mode = "POLLING" /\ ~erred =>
               \A u \in steady : Parent[u] = Current.uuid => InSight(f, u)
    PROVE  stack' \in Seq(Frame) /\ WalkInv'
<1>1. NewFrame(v) \in Frame
  BY NewFrameType, Zenon
<1>2. /\ stack' \in Seq(Frame) /\ stack' # <<>>
      /\ \A i \in DOMAIN stack' : stack'[i] = NewFrame(v) \/ (i \in DOMAIN stack /\ stack'[i] = Replace(f)[i])
  BY <1>1, ReplaceType, SMTT(60)
<1>3. SteadyInSight'
  <2>1. SUFFICES ASSUME mode = "POLLING", ~erred, NEW i \in DOMAIN stack', NEW u \in steady,
                        Parent[u] = stack'[i].uuid
                 PROVE  InSight(stack'[i], u)
    BY Zenon DEF SteadyInSight, InSight
  <2>2. CASE stack'[i] = NewFrame(v)
    <3>1. u \in Uuids
      BY <2>1, Zenon DEF IInv, TypeOK, WalkType
    <3> QED BY <2>1, <2>2, <3>1, SMTT(120) DEF NewFrame, Collections, Children, InSight
  <2>3. CASE i \in DOMAIN stack /\ stack'[i] = f
    BY <2>1, <2>3, Zenon
  <2>4. CASE i \in DOMAIN stack /\ stack'[i] = stack[i]
    BY <2>1, <2>4, Zenon DEF IInv, WalkInv, SteadyInSight, InSight
  <2> QED BY <1>2, <2>2, <2>3, <2>4, ReplaceType, Zenon
<1> QED BY <1>2, <1>3, Zenon DEF IInv, WalkInv, NotCleaning

(***************************************************************************)
(* Members and lists are fetched or refused.  Without an error only what   *)
(* has left the tree is refused.                                           *)
(***************************************************************************)
LEMMA EntryFetchedInv ==
    ASSUME IInv, NEW v \in Uuids, EntryFetched(v)
    PROVE  IInv'
<1> DEFINE done == Touched(Skip(v), v)
<1>0. mode # "idle" /\ UNCHANGED <<tree, mode, steady, cleaning, erred>>
  BY Zenon DEF EntryFetched, Fetching, Walking, agentVars, historyVars, cleanVars
<1>1. /\ done \in Frame /\ done.uuid = Current.uuid /\ done.kinds = Current.kinds
      /\ done.kids = Current.kids \ {v} /\ done.seen = Current.seen \cup {v}
  BY <1>0, SkipType, SMTT(60) DEF Touched, Frame
<1>2. mode = "POLLING" /\ ~erred => \A u \in steady : Parent[u] = Current.uuid => InSight(done, u)
  BY <1>1, CurrentInSight, Zenon DEF InSight
<1>3. stack' = Replace(done) \/ stack' = Append(Replace(done), NewFrame(v))
  BY Zenon DEF EntryFetched
<1>4. stack' \in Seq(Frame) /\ WalkInv'
  BY <1>0, <1>1, <1>2, <1>3, ReplaceInv, ReplaceType, DescendInv, ZenonT(60)
<1>5. WalkType'
  BY <1>4, Zenon DEF EntryFetched, IInv, TypeOK, WalkType, historyVars
<1>6. TypeOfParent \in {"parent", "None", "wrong"}
  BY DEF TypeOfParent
<1>7. TableType'
  BY <1>6, StoreType, Zenon DEF EntryFetched
<1>8. SubscriberType'
  BY Zenon DEF EntryFetched, IInv, TypeOK, SubscriberType
<1>9. ServerType'
  BY Zenon DEF EntryFetched, IInv, TypeOK, ServerType
<1> QED BY <1>4, <1>5, <1>7, <1>8, <1>9, KeepsTypes, ZenonT(60) DEF EntryFetched, IInv, TypeOK, agentVars

LEMMA RefusedType ==
    ASSUME IInv, NEW u, Refused(u), UNCHANGED <<known, changes, downs>>
    PROVE  /\ ServerType' /\ WithinBounds' /\ erred' \in BOOLEAN
           /\ ~erred' => ~erred /\ u \notin tree \cup {Root}
<1>1. ServerType'
  BY DEF Refused, IInv, TypeOK, ServerType
<1>2. WithinBounds'
  BY BoundsAssumption DEF Refused, IInv, TypeOK, WithinBounds
<1>3. erred' \in BOOLEAN
  BY ZenonT(60) DEF Refused, IInv, TypeOK, WalkType
<1>4. ~erred' => ~erred /\ u \notin tree \cup {Root}
  BY DEF Refused
<1> QED BY <1>1, <1>2, <1>3, <1>4

LEMMA EntryRefusedInv ==
    ASSUME IInv, NEW v \in Uuids, EntryRefused(v)
    PROVE  IInv'
<1>0. mode # "idle" /\ UNCHANGED <<tree, mode, steady, cleaning, known, changes, downs>> /\ Refused(v)
  BY ZenonT(60) DEF EntryRefused, Fetching, Walking, agentVars, cleanVars
<1>1. /\ Skip(v) \in Frame /\ Skip(v).uuid = Current.uuid /\ Skip(v).kinds = Current.kinds
      /\ Skip(v).kids = Current.kids \ {v} /\ Skip(v).seen = Current.seen
  BY <1>0, SkipType, Zenon
<1>2. mode = "POLLING" /\ ~erred' => \A u \in steady : Parent[u] = Current.uuid => InSight(Skip(v), u)
  <2>1. ~erred' => v \notin steady /\ ~erred
    BY <1>0, RefusedType, SMTT(60) DEF IInv, WalkInv
  <2> QED BY <1>1, <2>1, CurrentInSight, Zenon DEF InSight
<1>3. WalkInv'
  BY <1>0, <1>1, <1>2, RefusedType, ReplaceInv, ZenonT(60) DEF EntryRefused
<1>4. WalkType'
  BY <1>0, <1>1, RefusedType, ReplaceType, ZenonT(60) DEF EntryRefused, IInv, TypeOK, WalkType
<1> QED BY <1>0, <1>3, <1>4, RefusedType, KeepsTypes, Zenon DEF EntryRefused, IInv, TypeOK, agentVars

LEMMA ListFetchedInv ==
    ASSUME IInv, NEW k \in Kinds, ListFetched(k)
    PROVE  IInv'
<1> DEFINE S == {v \in tree : Parent[v] = Current.uuid /\ Kind[v] = k}
<1>0. mode # "idle" /\ UNCHANGED <<tree, mode, steady, cleaning, erred>>
  BY ZenonT(60) DEF ListFetched, Listing, Walking, agentVars, historyVars, cleanVars
<1>1. S \in SUBSET Uuids
  BY SMTT(60) DEF IInv, TypeOK, AgentType
<1>2. /\ Listed(k, S) \in Frame /\ Listed(k, S).uuid = Current.uuid
      /\ Listed(k, S).kinds = Current.kinds \ {k}
      /\ Listed(k, S).kids = S /\ Listed(k, S).seen = Current.seen
  BY <1>0, <1>1, ListedType, ZenonT(60)
<1>3. mode = "POLLING" /\ ~erred => \A u \in steady : Parent[u] = Current.uuid => InSight(Listed(k, S), u)
  <2>1. SUFFICES ASSUME mode = "POLLING", ~erred, NEW u \in steady, Parent[u] = Current.uuid
                 PROVE  InSight(Listed(k, S), u)
    BY Zenon
  <2>2. InSight(Current, u) /\ u \in tree
    BY <2>1, CurrentInSight, Zenon DEF IInv, WalkInv
  <2>3. Current.kids = {}
    BY Zenon DEF ListFetched, Listing
  <2>4. Kind[u] = k => u \in S
    BY <2>1, <2>2, ZenonT(60)
  <2>5. CASE Kind[u] = k
    BY <1>2, <2>4, <2>5, ZenonT(60) DEF InSight
  <2>6. CASE Kind[u] # k
    <3>1. Kind[u] \in Current.kinds \/ u \in Current.seen
      BY <2>2, <2>3, Zenon DEF InSight
    <3> QED BY <1>2, <2>6, <3>1, Zenon DEF InSight
  <2> QED BY <2>5, <2>6, Zenon
<1>4. WalkInv'
  BY <1>0, <1>2, <1>3, ReplaceInv, ZenonT(60) DEF ListFetched
<1>5. WalkType'
  BY <1>0, <1>2, ReplaceType, ZenonT(60) DEF ListFetched, IInv, TypeOK, WalkType, historyVars
<1>6. ServerType'
  BY ZenonT(60) DEF ListFetched, IInv, TypeOK, ServerType
<1> QED BY <1>4, <1>5, <1>6, KeepsTypes, ZenonT(60) DEF ListFetched, IInv, TypeOK, agentVars

LEMMA ListRefusedInv ==
    ASSUME IInv, NEW k \in Kinds, ListRefused(k)
    PROVE  IInv'
<1>0. /\ mode # "idle" /\ UNCHANGED <<tree, mode, steady, cleaning, known, changes, downs>>
      /\ Refused(Current.uuid)
  BY ZenonT(60) DEF ListRefused, Listing, Walking, agentVars, cleanVars
<1>1. Listed(k, {}) \in Frame /\ Listed(k, {}).uuid = Current.uuid
  BY <1>0, ListedType, ZenonT(60)
<1>2. mode = "POLLING" /\ ~erred' => \A u \in steady : Parent[u] # Current.uuid
  <2>1. ~erred' => Current.uuid \notin tree \cup {Root}
    BY <1>0, RefusedType, ZenonT(60)
  <2>2. \A u \in steady : Parent[u] \in tree \cup {Root}
    BY TreeFacts, Zenon DEF IInv, WalkInv, TypeOK, AgentType, Closed
  <2> QED BY <2>1, <2>2, Zenon
<1>3. WalkInv'
  BY <1>0, <1>1, <1>2, RefusedType, ReplaceInv, ZenonT(60) DEF ListRefused
<1>4. WalkType'
  BY <1>0, <1>1, RefusedType, ReplaceType, ZenonT(60) DEF ListRefused, IInv, TypeOK, WalkType
<1> QED BY <1>0, <1>3, <1>4, RefusedType, KeepsTypes, Zenon DEF ListRefused, IInv, TypeOK, agentVars

(***************************************************************************)
(* A collection, then a level is complete.                                 *)
(***************************************************************************)
LEMMA CollectionFetchedInv ==
    ASSUME IInv, CollectionFetched
    PROVE  IInv'
<1> DEFINE f == [Current EXCEPT !.kind = NoKind]
<1>0. mode # "idle" /\ UNCHANGED <<tree, mode, steady, cleaning, erred>>
  BY DEF CollectionFetched, Walking, agentVars, historyVars, cleanVars
<1>1. /\ f \in Frame /\ f.uuid = Current.uuid /\ f.kinds = Current.kinds
      /\ f.kids = Current.kids /\ f.seen = Current.seen
  BY <1>0, CurrentType DEF Frame
<1>2. mode = "POLLING" /\ ~erred => \A u \in steady : Parent[u] = Current.uuid => InSight(f, u)
  BY <1>1, CurrentInSight DEF InSight
<1>3. WalkInv'
  BY <1>0, <1>1, <1>2, ReplaceInv, ZenonT(60) DEF CollectionFetched
<1>4. WalkType'
  BY <1>0, <1>1, ReplaceType DEF CollectionFetched, IInv, TypeOK, WalkType, historyVars
<1>5. TableType'
  <2>1. Current.uuid \in Uuids \cup {Root} /\ Current.kind \in Kinds
    BY <1>0, CurrentType DEF CollectionFetched, Frame
  <2>2. HandlerKind(Current.uuid) \in Kinds \cup {Root}
    BY <2>1, TreeFacts, Zenon DEF HandlerKind
  <2> QED BY <2>1, <2>2 DEF CollectionFetched, IInv, TypeOK, TableType
<1> QED BY <1>3, <1>4, <1>5, KeepsTypes DEF CollectionFetched, IInv, TypeOK, agentVars

(***************************************************************************)
(* The outer levels of the walk, skewed or not.                            *)
(***************************************************************************)
Outer == SubSeq(stack, 1, Len(stack) - 1)

LEMMA OuterFrames ==
    ASSUME IInv, mode # "idle", Len(stack) > 1, NEW t, t = Outer \/ t = Skewed(Outer)
    PROVE  /\ t \in Seq(Frame) /\ Len(t) = Len(stack) - 1 /\ DOMAIN t = 1..(Len(stack) - 1) /\ t # <<>>
           /\ \A i \in DOMAIN t :
                 /\ i \in DOMAIN stack
                 /\ t[i].uuid = stack[i].uuid /\ t[i].kinds = stack[i].kinds
                 /\ t[i].kids = stack[i].kids /\ t[i].seen = stack[i].seen
                 /\ t = Outer => t[i] = stack[i]
<1> DEFINE outer == Outer
<1>1. stack \in Seq(Frame)
  BY DEF IInv, TypeOK, WalkType
<1>2. /\ outer \in Seq(Frame) /\ Len(outer) = Len(stack) - 1 /\ DOMAIN outer = 1..(Len(stack) - 1)
      /\ \A i \in DOMAIN outer : i \in DOMAIN stack /\ outer[i] = stack[i]
  BY <1>1, CurrentType DEF Outer
<1>3. \A i \in DOMAIN outer :
        /\ Skewed(outer)[i] \in Frame
        /\ Skewed(outer)[i].uuid = outer[i].uuid /\ Skewed(outer)[i].kinds = outer[i].kinds
        /\ Skewed(outer)[i].kids = outer[i].kids /\ Skewed(outer)[i].seen = outer[i].seen
  <2>1. SUFFICES ASSUME NEW i \in DOMAIN outer
                 PROVE  /\ Skewed(outer)[i] \in Frame
                        /\ Skewed(outer)[i].uuid = outer[i].uuid /\ Skewed(outer)[i].kinds = outer[i].kinds
                        /\ Skewed(outer)[i].kids = outer[i].kids /\ Skewed(outer)[i].seen = outer[i].seen
    BY Zenon
  <2>2. outer[i] \in Frame
    BY <1>2
  <2>3. Skewed(outer)[i] = [outer[i] EXCEPT !.skewed = TRUE]
    BY DEF Skewed
  <2> QED BY <2>2, <2>3, ZenonT(60) DEF Frame
<1>4. DOMAIN Skewed(outer) = DOMAIN outer /\ Skewed(outer) \in Seq(Frame)
  <2>1. DOMAIN Skewed(outer) = DOMAIN outer
    BY DEF Skewed
  <2>2. Len(stack) - 1 \in Nat /\ Skewed(outer) \in [1..(Len(stack) - 1) -> Frame]
    BY <1>2, <1>3, <2>1, CurrentType DEF Skewed
  <2> QED BY <2>1, <2>2
<1>5. t \in Seq(Frame) /\ DOMAIN t = 1..(Len(stack) - 1) /\ Len(stack) - 1 \in Nat
  <2>1. t \in Seq(Frame) /\ DOMAIN t = DOMAIN outer
    BY <1>2, <1>4, Zenon
  <2>2. Len(stack) - 1 \in Nat
    BY CurrentType
  <2> QED BY <1>2, <2>1, <2>2
<1>6. 1 \in DOMAIN t
  BY <1>5, CurrentType
<1>7. ASSUME NEW i \in DOMAIN t
      PROVE  /\ i \in DOMAIN stack
             /\ t[i].uuid = stack[i].uuid /\ t[i].kinds = stack[i].kinds
             /\ t[i].kids = stack[i].kids /\ t[i].seen = stack[i].seen
             /\ t = outer => t[i] = stack[i]
  <2>1. i \in DOMAIN outer
    BY <1>2, <1>5
  <2>2. i \in DOMAIN stack /\ outer[i] = stack[i]
    BY <1>2, <2>1
  <2> QED BY <1>3, <2>1, <2>2, Zenon
<1>8. t # <<>> /\ Len(t) = Len(stack) - 1
  BY <1>5, <1>6
<1> QED BY <1>5, <1>7, <1>8, Zenon

LEMMA OuterLevels ==
    ASSUME IInv, mode # "idle", Len(stack) > 1,
           stack' = Outer \/ stack' = Skewed(Outer),
           UNCHANGED <<tree, mode, steady, cleaning, erred>>
    PROVE  stack' \in Seq(Frame) /\ WalkInv'
<1>0. PICK t : t = stack'
  OBVIOUS
<1>1. /\ t \in Seq(Frame) /\ t # <<>>
      /\ \A i \in DOMAIN t :
            /\ i \in DOMAIN stack
            /\ t[i].uuid = stack[i].uuid /\ t[i].kinds = stack[i].kinds
            /\ t[i].kids = stack[i].kids /\ t[i].seen = stack[i].seen
  BY ONLY IInv, mode # "idle", Len(stack) > 1, stack' = Outer \/ stack' = Skewed(Outer), <1>0, OuterFrames
<1>2. SteadyInSight'
  BY <1>0, <1>1, Zenon DEF IInv, WalkInv, SteadyInSight
<1> QED BY <1>0, <1>1, <1>2 DEF IInv, WalkInv, NotCleaning

LEMMA LevelFetchedInv ==
    ASSUME IInv, LevelFetched
    PROVE  IInv'
<1> DEFINE pops == Len(stack) > 1 /\ ~(mode = "LOADING" /\ Len(stack) = 2 /\ Throws(Untouched))
<1>0. mode # "idle" /\ cleaning = NotCleaning /\ UNCHANGED <<tree, cleaning>>
  <2>1. Walking
    BY ZenonT(60) DEF LevelFetched
  <2>2. UNCHANGED agentVars /\ UNCHANGED cleanVars
    BY Zenon DEF LevelFetched
  <2> QED BY <2>1, <2>2, ZenonT(60) DEF Walking, agentVars, cleanVars
<1>1. PICK D \in DoRemove(Untouched) :
        /\ model' = model \ D
        /\ IF pops
           THEN /\ stack' = IF Throws(Untouched) THEN Skewed(Outer) ELSE Outer
                /\ removed' = removed \cup Announced(D)
                /\ untold' = untold \cup Silent(D)
                /\ UNCHANGED <<mode, top, added, historyVars, told, request>>
           ELSE /\ EndWalk
                /\ request' = IF mode = "LOADING" THEN NoRequest ELSE request
                /\ IF Len(stack) = 1
                   THEN Notify(added, removed \cup Announced(D), Silent(D))
                   ELSE Notify({}, {}, added \cup removed \cup D)
  BY ZenonT(60) DEF LevelFetched, Outer
<1>2. D \subseteq Uuids /\ Silent(D) \subseteq Uuids /\ Announced(D) \subseteq Uuids
  BY DoRemoveBelow, Zenon DEF IInv, TypeOK, TableType, Silent, Announced
<1>3. TableType'
  BY <1>1, ZenonT(60) DEF LevelFetched, IInv, TypeOK, TableType
<1>4. CASE pops
  <2>1. stack' \in Seq(Frame) /\ WalkInv'
    BY <1>0, <1>1, <1>4, OuterLevels, ZenonT(60) DEF historyVars
  <2>2. WalkType'
    BY <1>1, <1>2, <1>4, <2>1, Zenon DEF IInv, TypeOK, WalkType, historyVars
  <2>3. SubscriberType'
    BY <1>1, <1>2, <1>4, Zenon DEF IInv, TypeOK, SubscriberType
  <2>4. UNCHANGED threadVars
    BY <1>1, <1>4, ZenonT(60) DEF LevelFetched, threadVars
  <2> QED BY <1>3, <2>1, <2>2, <2>3, <2>4, KeepsTypes, ZenonT(60) DEF LevelFetched, IInv, TypeOK, agentVars
<1>5. CASE ~pops
  <2>1. WalkType' /\ WalkInv'
    BY <1>0, <1>1, <1>5, EndsWalk, Zenon
  <2>2. added \subseteq Uuids /\ removed \subseteq Uuids
    BY DEF IInv, TypeOK, WalkType
  <2>3. SubscriberType'
    BY <1>1, <1>2, <1>5, <2>2, NotifyType, Zenon
  <2>4. ThreadType'
    BY <1>1, <1>5, ZenonT(60) DEF LevelFetched, IInv, TypeOK, ThreadType, NoRequest
  <2> QED BY <1>3, <2>1, <2>3, <2>4, KeepsTypes, ZenonT(60) DEF LevelFetched, IInv, TypeOK, agentVars
<1> QED BY <1>4, <1>5, SMTT(60)

(***************************************************************************)
(* Calls that are not answered, and the removal of an agent's resources.   *)
(***************************************************************************)
LEMMA AbortInv ==
    ASSUME IInv, NEW E, Abort(E), cleaning' = NotCleaning, UNCHANGED <<parentType, learned, late>>
    PROVE  TableType' /\ WalkType' /\ WalkInv' /\ ThreadType' /\ SubscriberType'
<1>1. PICK D \in IF mode = "ADD" THEN DoRemove({top}) ELSE {{}} :
        model' = model \ D /\ Notify({}, E, added \cup removed \cup D)
  BY ZenonT(60) DEF Abort
<1>2. D \subseteq Uuids
  BY DoRemoveBelow, Zenon DEF IInv, TypeOK, TableType
<1>3. TableType'
  BY <1>1, Zenon DEF IInv, TypeOK, TableType
<1>4. WalkType' /\ WalkInv'
  BY EndsWalk, ZenonT(60) DEF Abort
<1>5. ThreadType'
  BY ZenonT(60) DEF Abort, IInv, TypeOK, ThreadType, NoRequest
<1>6. added \cup removed \cup D \subseteq Uuids
  BY <1>2, Zenon DEF IInv, TypeOK, WalkType
<1>7. SubscriberType'
  BY <1>1, <1>6, NotifyType, Zenon
<1> QED BY <1>3, <1>4, <1>5, <1>7

LEMMA UnreachableInv ==
    ASSUME IInv, Unreachable
    PROVE  IInv'
<1>0. mode \notin {"idle", "DELETE"} /\ cleaning = NotCleaning /\ UNCHANGED tree
  BY Zenon DEF Unreachable, Walking, agentVars
<1>1. PICK f \in {Skip(v) : v \in Current.kids}
                \cup {Listed(k, {}) : k \in {k \in Current.kinds : Listing(k)}} :
        IF failing = "old"
        THEN /\ cleaning' = Kinds /\ stack' = Replace(f) /\ erred' = TRUE
             /\ UNCHANGED <<failing, model, mode, top, added, removed, steady, present,
                            request, subscriberVars>>
        ELSE failing' = "recent" /\ Abort({}) /\ UNCHANGED cleaning
  BY ZenonT(60) DEF Unreachable
<1>2. f \in Frame
  <2>1. Current.kinds \subseteq Kinds
    BY <1>0, CurrentType, Zenon DEF Frame
  <2> QED BY <1>0, <2>1, SkipType, ListedType
<1>3. CASE failing = "old"
  <2>0. /\ cleaning' = Kinds /\ stack' = Replace(f) /\ erred' = TRUE
        /\ UNCHANGED <<failing, model, mode, top, added, removed, steady, present, request>>
        /\ UNCHANGED subscriberVars
    BY <1>1, <1>3, ZenonT(60)
  <2>6. UNCHANGED <<agentVars, known, parentType, learned, cleaned, late, errors>>
    BY ZenonT(60) DEF Unreachable
  <2>1. stack' \in Seq(Frame) /\ stack' # <<>>
    BY <1>0, <1>2, <2>0, ReplaceType, ZenonT(60)
  <2>2. WalkType'
    BY <2>0, <2>1, ZenonT(60) DEF IInv, TypeOK, WalkType
  <2>3. WalkInv'
    <3>1. SteadyInSight'
      BY <2>0, Zenon DEF SteadyInSight
    <3> QED BY <1>0, <2>0, <2>1, <3>1, Zenon DEF IInv, WalkInv
  <2>4. CleanType'
    BY <2>0, <2>6, Zenon DEF IInv, TypeOK, CleanType
  <2>5. UNCHANGED tableVars /\ UNCHANGED threadVars /\ UNCHANGED <<known, failing>>
    BY <2>0, <2>6, Zenon DEF tableVars, threadVars
  <2> QED BY <2>0, <2>2, <2>3, <2>4, <2>5, <2>6, KeepsTypes, ZenonT(60) DEF IInv, TypeOK, agentVars
<1>4. CASE failing # "old"
  <2>0. failing' = "recent" /\ Abort({}) /\ UNCHANGED cleaning
    BY <1>1, <1>4, ZenonT(60)
  <2>1. TableType' /\ WalkType' /\ WalkInv' /\ ThreadType' /\ SubscriberType'
    BY <1>0, <2>0, AbortInv, ZenonT(60) DEF Unreachable
  <2>4. UNCHANGED <<agentVars, known, parentType, learned, cleaned, late, errors>>
    BY ZenonT(60) DEF Unreachable
  <2>2. ServerType'
    BY <2>0, <2>4, Zenon DEF IInv, TypeOK, ServerType
  <2>3. UNCHANGED cleanVars
    BY <2>0, <2>4, ZenonT(60) DEF cleanVars
  <2> QED BY <2>1, <2>2, <2>3, <2>4, KeepsTypes, ZenonT(60) DEF IInv, TypeOK, agentVars
<1> QED BY <1>3, <1>4, ZenonT(60)

LEMMA CleanKindInv ==
    ASSUME IInv, NEW k \in Kinds, CleanKind(k)
    PROVE  IInv'
<1> DEFINE S == {v \in model : Kind[v] = k}
<1>1. PICK D \in DoRemove(S) :
        /\ model' = model \ D
        /\ IF Throws(S)
           THEN cleaning' = NotCleaning /\ cleaned' = {} /\ untold' = untold \cup cleaned \cup D
           ELSE /\ cleaning' = cleaning \ {k}
                /\ cleaned' = cleaned \cup Announced(D)
                /\ untold' = untold \cup Silent(D)
  BY ZenonT(60) DEF CleanKind
<1>2. D \subseteq Uuids /\ Silent(D) \subseteq Uuids /\ Announced(D) \subseteq Uuids
  BY DoRemoveBelow, Zenon DEF IInv, TypeOK, TableType, Silent, Announced
<1>3. TableType'
  BY <1>1, ZenonT(60) DEF CleanKind, IInv, TypeOK, TableType
<1>4. CleanType'
  BY <1>1, <1>2, ZenonT(60) DEF CleanKind, IInv, TypeOK, CleanType
<1>5. SubscriberType'
  BY <1>1, <1>2, ZenonT(60) DEF CleanKind, IInv, TypeOK, SubscriberType, CleanType
<1>6. WalkInv'
  <2>1. cleaning # NotCleaning
    BY ZenonT(60) DEF CleanKind
  <2>2. SteadyInSight'
    BY ZenonT(60) DEF CleanKind, IInv, WalkInv, SteadyInSight, walkVars, historyVars
  <2> QED BY <2>1, <2>2, ZenonT(60) DEF CleanKind, IInv, WalkInv, walkVars, historyVars, agentVars
<1> QED BY <1>3, <1>4, <1>5, <1>6, KeepsTypes, Zenon DEF CleanKind, IInv, TypeOK, agentVars

LEMMA UnregisterInv ==
    ASSUME IInv, Unregister
    PROVE  IInv'
<1>1. TableType' /\ WalkType' /\ WalkInv' /\ ThreadType' /\ SubscriberType'
  BY AbortInv, Zenon DEF Unregister
<1>2. ServerType' /\ CleanType'
  BY ZenonT(60) DEF Unregister, IInv, TypeOK, ServerType, CleanType
<1> QED BY <1>1, <1>2, KeepsTypes, Zenon DEF Unregister, IInv, TypeOK, agentVars

-----------------------------------------------------------------------------
(***************************************************************************)
(* The invariant holds in every reachable state: the types, and a poll     *)
(* without failed calls keeps every steady resource in sight.              *)
(***************************************************************************)
THEOREM Invariance == Spec => []IInv
<1>1. Init => IInv
  <2>1. SUFFICES ASSUME Init PROVE IInv
    OBVIOUS
  <2>2. <<>> \in Seq(Frame) /\ <<>> \in Seq([type: {"Add", "Remove", "Update"}, uuid: Uuids])
    OBVIOUS
  <2>3. AgentType /\ ServerType /\ TableType
    BY <2>1, <2>2, Zenon DEF Init, AgentType, ServerType, TableType
  <2>4. WalkType /\ CleanType
    BY <2>1, <2>2, ZenonT(60) DEF Init, WalkType, CleanType
  <2>5. ThreadType /\ SubscriberType /\ WithinBounds
    BY <2>1, BoundsAssumption DEF Init, ThreadType, SubscriberType, WithinBounds
  <2>6. WalkInv
    BY <2>1, Zenon DEF Init, WalkInv, SteadyInSight
  <2> QED BY <2>3, <2>4, <2>5, <2>6 DEF IInv, TypeOK
<1>2. IInv /\ [Next]_vars => IInv'
  <2>1. SUFFICES ASSUME IInv, [Next]_vars PROVE IInv'
    OBVIOUS
  <2>2. CASE AgentStep
    BY <2>1, <2>2, AgentStepInv
  <2>3. CASE Age \/ Attach
    BY <2>1, <2>3, AgeInv
  <2>4. CASE WalkStep
    BY <2>1, <2>4, EntryFetchedInv, EntryRefusedInv, ListFetchedInv, ListRefusedInv,
       CleanKindInv, CollectionFetchedInv, LevelFetchedInv, UnreachableInv, UnregisterInv, Zenon
    DEF WalkStep
  <2>5. CASE WatcherStep
    BY <2>1, <2>5, WatcherStepInv
  <2>6. CASE RestStep
    BY <2>1, <2>6, RequestInv, ServeRequestInv, RequestUnreachableInv, DeleteFromModelInv, LateInv, SMTT(60)
    DEF RestStep
  <2>7. CASE UNCHANGED vars
    BY <2>1, <2>7, KeepsTypes, KeepsWalk, Zenon DEF vars, agentVars, cleanVars, IInv, TypeOK
  <2> QED BY <2>1, <2>2, <2>3, <2>4, <2>5, <2>6, <2>7 DEF Next
<1> QED BY <1>1, <1>2, PTL DEF Spec

(***************************************************************************)
(* In a step of a poll without failed calls only remove_untouched takes    *)
(* resources out of the tables, and only below a resource that is not      *)
(* steady.                                                                 *)
(***************************************************************************)
LEMMA UntouchedNotSteady ==
    ASSUME IInv, mode = "POLLING", ~erred, LevelFetched, NEW u \in model \ model'
    PROVE  ~(Path[u] \subseteq steady)
<1>1. PICK D \in DoRemove(Untouched) : model' = model \ D
  BY ZenonT(60) DEF LevelFetched
<1>2. PICK v \in Untouched : v \in Path[u]
  BY <1>1, DoRemoveBelow, Zenon
<1>3. Parent[v] = Current.uuid /\ v \notin Current.seen
  BY <1>2, ZenonT(60) DEF Untouched
<1>4. v \notin steady
  BY <1>3, CurrentInSight, ZenonT(60) DEF InSight, LevelFetched
<1> QED BY <1>2, <1>4, Zenon

LEMMA PollStepRemoves ==
    ASSUME IInv, Next, mode = "POLLING", ~erred, NEW u \in model \ model'
    PROVE  LevelFetched
<1>1. cleaning = NotCleaning
  BY SMTT(60) DEF IInv, WalkInv
<1>2. ~AgentStep /\ ~Age /\ ~Attach
  BY ZenonT(60) DEF AgentStep, AgentAdds, AgentRemoves, AgentUpdates, GoDown, ComeUp, Age, Attach, tableVars
<1>3. ~WatcherStep
  BY ZenonT(60) DEF WatcherStep, StartPoll, IgnoreNotification, HandleAddOrUpdate, HandleRemove, Take, Begin,
         WatcherModes
<1>4. ~RestStep
  BY ZenonT(60) DEF RestStep, Request, RequestFails, ServeRequest, RequestUnreachable, DeleteFromModel,
         LateFetch, LateStore, Store, Begin, tableVars
<1>5. ~Unreachable
  BY ZenonT(60) DEF Unreachable, Abort
<1>6. \A v \in Uuids : ~EntryFetched(v) /\ ~EntryRefused(v)
  BY ZenonT(60) DEF EntryFetched, EntryRefused, Store, tableVars
<1>7. \A k \in Kinds : ~ListFetched(k) /\ ~ListRefused(k) /\ ~CleanKind(k)
  BY <1>1, ZenonT(60) DEF ListFetched, ListRefused, CleanKind, tableVars
<1>8. ~CollectionFetched /\ ~Unregister
  BY <1>1 DEF CollectionFetched, Unregister, NotCleaning
<1> QED BY <1>2, <1>3, <1>4, <1>5, <1>6, <1>7, <1>8 DEF Next, WalkStep

(***************************************************************************)
(* For every tree of resources, every interleaving of the agent, the       *)
(* watcher, REST threads and completion callbacks, and any number of them: *)
(* a poll in which no call fails never removes a resource that the agent   *)
(* has had, with its ancestors, all along.                                 *)
(***************************************************************************)
THEOREM PollsAreSafe == Spec => NoSpuriousRemoval
<1>1. IInv /\ [Next]_vars =>
        [mode = "POLLING" /\ ~erred => \A u \in model \ model' : ~(Path[u] \subseteq steady)]_vars
  BY UntouchedNotSteady, PollStepRemoves
<1> QED BY <1>1, Invariance, PTL DEF Spec, NoSpuriousRemoval

(***************************************************************************)
(* Every variable keeps its type.                                          *)
(***************************************************************************)
THEOREM TypesCorrect == Spec => []TypeOK
<1>1. IInv => TypeOK
  BY DEF IInv
<1> QED BY <1>1, Invariance, PTL
=============================================================================
