------------------------ MODULE ResourceWalk_proofs ------------------------
(***************************************************************************)
(* Further proofs about ResourceModel, for every tree of resources and all *)
(* bounds: between transactions the subscribers know what is in the        *)
(* tables, and a poll without failed calls makes the tables a copy of what *)
(* the agent has.  Both rest on the levels of the walk being a path of the *)
(* tree.                                                                   *)
(***************************************************************************)
EXTENDS ResourceModel_proofs

(***************************************************************************)
(* The member c of the level f is still to be fetched, or its collection.  *)
(***************************************************************************)
Ahead(f, c) == c \in f.kids \/ Kind[c] \in f.kinds

(***************************************************************************)
(* A level fetches its own members, of collections it has begun; it has    *)
(* touched members of those only, and what it has touched and still        *)
(* fetches was touched by a callback.                                      *)
(***************************************************************************)
LevelInv(f) ==
    /\ \A c \in f.kids : Parent[c] = f.uuid /\ Kind[c] \notin f.kinds
    /\ \A c \in f.seen : Kind[c] \notin f.kinds
    /\ f.kids \cap f.seen \subseteq LateUuids

(***************************************************************************)
(* The levels s lead down the tree: each one is that of a member of the    *)
(* level above, which has been touched and will not be fetched again.      *)
(***************************************************************************)
Leads(s) ==
    /\ \A i \in DOMAIN s : LevelInv(s[i])
    /\ \A i \in 2..Len(s) :
         /\ s[i].uuid \in s[i - 1].seen /\ Parent[s[i].uuid] = s[i - 1].uuid
         /\ ~Ahead(s[i - 1], s[i].uuid)
         /\ Collections(s[i].uuid) # {}
    /\ \A i \in 2..Len(s) : \A j \in 2..i : s[j].uuid \in Path[s[i].uuid]

(***************************************************************************)
(* No event, of the resources A added or R removed, is about anything      *)
(* below a member that the level f has still to fetch, and none has been   *)
(* added below a member that has not been touched.                         *)
(***************************************************************************)
Behind(f, A, R) ==
    \A c \in Uuids : Parent[c] = f.uuid =>
        \A u \in A \cup R : c \in Path[u] => ~Ahead(f, c) /\ (u \in A => c \in f.seen)

EventsBehind(s, A, R) == \A i \in DOMAIN s : Behind(s[i], A, R)

(***************************************************************************)
(* A walk has no events before its first answered call, so none when it    *)
(* cleans up.                                                              *)
(***************************************************************************)
QuietBefore ==
    /\ mode \in {"idle", "DELETE"} \/ failing # "no" \/ cleaning # NotCleaning =>
           added = {} /\ removed = {}
    /\ mode # "idle" /\ Len(stack) > 1 => failing = "no" /\ cleaning = NotCleaning
    /\ cleaning = NotCleaning => cleaned = {}

(***************************************************************************)
(* What the subscribers know of u, up to the events still collected.       *)
(***************************************************************************)
Follow(u) ==
    /\ u \in added => u \in model /\ u \notin removed
    /\ u \in removed \cup cleaned => u \notin model
    /\ u \notin added \cup removed \cup cleaned \cup untold => (u \in told <=> u \in model)

EventInv ==
    /\ Leads(stack) /\ EventsBehind(stack, added, removed) /\ QuietBefore
    /\ \A u \in Uuids \ LateUuids : Follow(u)

-----------------------------------------------------------------------------
(***************************************************************************)
(* Paths of the tree.                                                      *)
(***************************************************************************)
LEMMA PathFacts ==
    ASSUME NEW u \in Uuids, NEW a \in Path[u]
    PROVE  /\ a \in Uuids /\ Path[a] \subseteq Path[u]
           /\ Parent[a] # Root => Parent[a] \in Path[u] /\ a \notin Path[Parent[a]]
           /\ \A b \in Path[u] : Parent[a] = Parent[b] => a = b
<1>1. a \in Uuids /\ Path[a] \subseteq Path[u]
  BY TreeAssumption
<1>2. Parent[a] # Root => Parent[a] \in Path[a] /\ a \notin Path[Parent[a]]
  BY <1>1, TreeAssumption
<1> QED BY <1>1, <1>2, ChainAssumption

(***************************************************************************)
(* A resource below the innermost level is, at every outer level, below    *)
(* the member whose level is the next one.                                 *)
(***************************************************************************)
LEMMA OnTheWay ==
    ASSUME NEW s \in Seq(Frame), Leads(s), NEW n, n = Len(s), NEW u \in Uuids,
           NEW w \in Path[u], Parent[w] = s[n].uuid,
           NEW i \in DOMAIN s, i # n, NEW c \in Path[u], Parent[c] = s[i].uuid
    PROVE  i + 1 \in DOMAIN s /\ c = s[i + 1].uuid /\ ~Ahead(s[i], c) /\ c \in s[i].seen
<1>1. n \in Nat /\ i \in 1..n /\ i + 1 \in 2..n /\ i + 1 \in DOMAIN s /\ (i + 1) - 1 = i /\ n \in 2..n
  OBVIOUS
<1> DEFINE d == s[i + 1].uuid
           e == s[n].uuid
<1>2. Parent[d] = s[i].uuid /\ ~Ahead(s[i], d) /\ d \in s[i].seen /\ d \in Path[e]
  BY <1>1 DEF Leads
<1>3. s[i] \in Frame /\ s[n - 1] \in Frame
  BY <1>1
<1>4. e \in Uuids
  <2>1. e \in s[n - 1].seen
    BY <1>1 DEF Leads
  <2> QED BY <1>3, <2>1 DEF Frame
<1>5. e # Root
  BY <1>4, TreeAssumption
<1>6. e \in Path[u]
  BY <1>5, PathFacts
<1>7. d \in Path[u]
  BY <1>2, <1>6, PathFacts
<1>8. c = d
  BY <1>2, <1>7, PathFacts
<1> QED BY <1>1, <1>2, <1>8

(***************************************************************************)
(* Levels that go on: less lies ahead of them and more has been touched.   *)
(***************************************************************************)
GoesOn(f, g) ==
    /\ g.uuid = f.uuid /\ f.seen \subseteq g.seen
    /\ \A c \in Uuids : Parent[c] = f.uuid /\ Ahead(g, c) => Ahead(f, c)

LEMMA BehindGoesOn ==
    ASSUME NEW f, NEW g, GoesOn(f, g), NEW A, NEW R, Behind(f, A, R)
    PROVE  Behind(g, A, R)
BY DEF GoesOn, Behind

LEMMA LeadsGoesOn ==
    ASSUME NEW s \in Seq(Frame), Leads(s), NEW t \in Seq(Frame), Len(t) = Len(s),
           \A i \in DOMAIN s : LevelInv(t[i]) /\ GoesOn(s[i], t[i])
    PROVE  Leads(t)
<1>1. DOMAIN t = DOMAIN s /\ DOMAIN s = 1..Len(s) /\ Len(s) \in Nat
  OBVIOUS
<1>2. \A i \in DOMAIN s : t[i].uuid = s[i].uuid
  BY DEF GoesOn
<1>3. ASSUME NEW i \in 2..Len(t)
      PROVE  /\ t[i].uuid \in t[i - 1].seen /\ Parent[t[i].uuid] = t[i - 1].uuid
             /\ ~Ahead(t[i - 1], t[i].uuid)
             /\ Collections(t[i].uuid) # {}
  <2>1. i \in 2..Len(s) /\ i \in DOMAIN s /\ i - 1 \in DOMAIN s
    BY <1>1
  <2>2. /\ s[i].uuid \in s[i - 1].seen /\ Parent[s[i].uuid] = s[i - 1].uuid
        /\ ~Ahead(s[i - 1], s[i].uuid)
        /\ Collections(s[i].uuid) # {}
    BY <2>1 DEF Leads
  <2>3. s[i - 1] \in Frame
    BY <2>1
  <2>4. s[i].uuid \in Uuids
    BY <2>2, <2>3 DEF Frame
  <2>5. GoesOn(s[i - 1], t[i - 1]) /\ t[i].uuid = s[i].uuid
    BY <1>2, <2>1, Zenon
  <2> QED BY <2>2, <2>4, <2>5, Zenon DEF GoesOn
<1>4. ASSUME NEW i \in 2..Len(t), NEW j \in 2..i PROVE t[j].uuid \in Path[t[i].uuid]
  <2>1. i \in 2..Len(s) /\ i \in DOMAIN s /\ j \in DOMAIN s
    BY <1>1
  <2> QED BY <1>2, <2>1 DEF Leads
<1> QED BY <1>1, <1>3, <1>4, Zenon DEF Leads

(***************************************************************************)
(* The walk goes down into a member it has touched, and comes back.        *)
(***************************************************************************)
LEMMA NewLevel ==
    ASSUME NEW v \in Uuids \cup {Root}
    PROVE  LevelInv(NewFrame(v))
BY DEF LevelInv, NewFrame

LEMMA LeadsDown ==
    ASSUME NEW s \in Seq(Frame), Leads(s), NEW n, n = Len(s), n # 0, NEW v \in Uuids,
           v \in s[n].seen, Parent[v] = s[n].uuid, ~Ahead(s[n], v), Collections(v) # {}
    PROVE  Leads(Append(s, NewFrame(v)))
<1> DEFINE t == Append(s, NewFrame(v))
<1>1. /\ n \in Nat /\ n \in DOMAIN s /\ DOMAIN s = 1..n /\ Len(t) = n + 1 /\ DOMAIN t = 1..(n + 1)
      /\ t[n + 1] = NewFrame(v) /\ \A i \in 1..n : t[i] = s[i]
  BY NewFrameType
<1>2. NewFrame(v).uuid = v
  BY DEF NewFrame
<1> HIDE DEF t
<1>3. \A i \in DOMAIN t : LevelInv(t[i])
  BY <1>1, NewLevel DEF Leads
<1>4. ASSUME NEW i \in 2..Len(t)
      PROVE  /\ t[i].uuid \in t[i - 1].seen /\ Parent[t[i].uuid] = t[i - 1].uuid
             /\ ~Ahead(t[i - 1], t[i].uuid)
             /\ Collections(t[i].uuid) # {}
  <2>1. CASE i = n + 1
    BY <1>1, <1>2, <2>1
  <2>2. CASE i # n + 1
    <3>1. i \in 2..n /\ i \in 1..n /\ i - 1 \in 1..n
      BY <1>1, <2>2
    <3> QED BY <1>1, <3>1, Zenon DEF Leads
  <2> QED BY <2>1, <2>2, Zenon
<1>5. ASSUME NEW i \in 2..Len(t), NEW j \in 2..i PROVE t[j].uuid \in Path[t[i].uuid]
  <2>1. CASE i # n + 1
    <3>1. i \in 2..n /\ i \in 1..n /\ j \in 1..n
      BY <1>1, <2>1
    <3> QED BY <1>1, <3>1 DEF Leads
  <2>2. CASE i = n + 1 /\ j = n + 1
    BY <1>1, <1>2, <2>2, TreeFacts
  <2>3. CASE i = n + 1 /\ j # n + 1
    <3>1. j \in 2..n /\ n \in 2..n /\ j \in 1..n
      BY <1>1, <2>3
    <3>2. s[j].uuid \in Path[s[n].uuid]
      BY <1>1, <3>1 DEF Leads
    <3>3. s[n].uuid \in s[n - 1].seen /\ s[n - 1] \in Frame
      BY <1>1, <3>1 DEF Leads
    <3>4. s[n].uuid \in Uuids /\ s[n].uuid # Root
      BY <3>3, TreeAssumption, ZenonT(40) DEF Frame
    <3>5. s[n].uuid \in Path[v]
      BY <3>4, TreeFacts
    <3>6. s[j].uuid \in Path[v]
      BY <3>2, <3>5, PathFacts
    <3> QED BY <1>1, <1>2, <2>3, <3>1, <3>6
  <2> QED BY <2>1, <2>2, <2>3
<1> QED BY <1>3, <1>4, <1>5, Zenon DEF Leads, t

LEMMA LeadsUp ==
    ASSUME NEW s \in Seq(Frame), Leads(s), NEW t \in Seq(Frame), Len(t) = Len(s) - 1, Len(s) > 0,
           \A i \in DOMAIN t :
               /\ t[i].uuid = s[i].uuid /\ t[i].kinds = s[i].kinds
               /\ t[i].kids = s[i].kids /\ t[i].seen = s[i].seen
    PROVE  Leads(t) /\ \A i \in DOMAIN t : i \in DOMAIN s /\ GoesOn(s[i], t[i])
<1>1. Len(s) \in Nat /\ DOMAIN t = 1..(Len(s) - 1) /\ DOMAIN s = 1..Len(s)
  OBVIOUS
<1>2. ASSUME NEW i \in DOMAIN t PROVE i \in DOMAIN s /\ LevelInv(t[i]) /\ GoesOn(s[i], t[i])
  <2>1. i \in DOMAIN s
    BY <1>1
  <2>2. /\ t[i].uuid = s[i].uuid /\ t[i].kinds = s[i].kinds
        /\ t[i].kids = s[i].kids /\ t[i].seen = s[i].seen
    OBVIOUS
  <2>3. LevelInv(s[i])
    BY <2>1 DEF Leads
  <2> QED BY <2>1, <2>2, <2>3, Zenon DEF LevelInv, GoesOn, Ahead
<1>3. ASSUME NEW i \in 2..Len(t)
      PROVE  /\ t[i].uuid \in t[i - 1].seen /\ Parent[t[i].uuid] = t[i - 1].uuid
             /\ ~Ahead(t[i - 1], t[i].uuid)
             /\ Collections(t[i].uuid) # {}
  <2>1. i \in 2..Len(s) /\ i \in DOMAIN t /\ i - 1 \in DOMAIN t
    BY <1>1
  <2>2. /\ s[i].uuid \in s[i - 1].seen /\ Parent[s[i].uuid] = s[i - 1].uuid
        /\ ~Ahead(s[i - 1], s[i].uuid)
        /\ Collections(s[i].uuid) # {}
    BY <2>1, Zenon DEF Leads
  <2> QED BY <2>1, <2>2, Zenon DEF Ahead
<1>4. ASSUME NEW i \in 2..Len(t), NEW j \in 2..i PROVE t[j].uuid \in Path[t[i].uuid]
  <2>1. i \in 2..Len(s) /\ i \in DOMAIN t /\ j \in DOMAIN t
    BY <1>1
  <2> QED BY <2>1, Zenon DEF Leads
<1> QED BY <1>2, <1>3, <1>4, Zenon DEF Leads

(***************************************************************************)
(* Events about a resource below the innermost level are behind all outer  *)
(* levels.                                                                 *)
(***************************************************************************)
LEMMA OuterBehind ==
    ASSUME NEW s \in Seq(Frame), Leads(s), NEW n, n = Len(s), NEW i \in DOMAIN s, i # n,
           NEW A, NEW R, Behind(s[i], A, R), NEW B \in SUBSET Uuids, NEW Q \in SUBSET Uuids,
           \A u \in B \cup Q : \E w \in Path[u] : Parent[w] = s[n].uuid
    PROVE  Behind(s[i], A \cup B, R \cup Q)
<1>1. ASSUME NEW c \in Uuids, Parent[c] = s[i].uuid, NEW u \in A \cup B \cup R \cup Q, c \in Path[u]
      PROVE  ~Ahead(s[i], c) /\ (u \in A \cup B => c \in s[i].seen)
  <2>1. CASE u \in B \cup Q
    <3>1. PICK w \in Path[u] : Parent[w] = s[n].uuid
      BY <2>1
    <3>2. u \in Uuids
      BY <2>1
    <3> QED BY <1>1, <3>1, <3>2, OnTheWay
  <2>2. CASE u \notin B \cup Q
    BY <1>1, <2>2 DEF Behind
  <2> QED BY <2>1, <2>2
<1> QED BY <1>1 DEF Behind

-----------------------------------------------------------------------------
(***************************************************************************)
(* Steps that leave the walk, the tables and the subscribers alone.        *)
(***************************************************************************)
LEMMA QuietEvents ==
    ASSUME EventInv,
           UNCHANGED <<mode, stack, added, removed, cleaning, cleaned, model, told, untold>>,
           failing' # "no" => failing # "no" \/ mode = "idle"
    PROVE  EventInv'
<1>1. QuietBefore'
  BY DEF EventInv, QuietBefore, NotCleaning
<1>2. \A u \in Uuids \ LateUuids : Follow(u)'
  BY DEF EventInv, Follow
<1> QED BY <1>1, <1>2 DEF EventInv

(***************************************************************************)
(* A transaction begins without events.                                    *)
(***************************************************************************)
LEMMA BeginEvents ==
    ASSUME IInv, EventInv, NEW md \in WatcherModes \cup RestModes, NEW u, NEW f \in Frame, LevelInv(f),
           Begin(md, u, f), UNCHANGED <<cleaned, model, told, untold>>
    PROVE  EventInv'
<1>1. /\ mode = "idle" /\ stack' = <<f>> /\ added' = {} /\ removed' = {} /\ mode' = md
  BY DEF Begin
<1>2. added = {} /\ removed = {} /\ cleaning = NotCleaning /\ cleaned = {}
  BY <1>1 DEF IInv, WalkInv, EventInv, QuietBefore
<1>3. Len(<<f>>) = 1 /\ DOMAIN <<f>> = 1..1 /\ <<f>>[1] = f /\ 2..1 = {}
  OBVIOUS
<1>4. Leads(<<f>>)
  BY <1>3 DEF Leads
<1>5. EventsBehind(<<f>>, {}, {})
  BY DEF EventsBehind, Behind
<1>6. QuietBefore'
  BY <1>1, <1>2, <1>3 DEF QuietBefore
<1>7. \A w \in Uuids \ LateUuids : Follow(w)'
  BY <1>1, <1>2 DEF EventInv, Follow
<1> QED BY <1>1, <1>4, <1>5, <1>6, <1>7 DEF EventInv

LEMMA SingleLevel ==
    ASSUME NEW u \in Uuids
    PROVE  /\ LevelInv(SingleFrame(u))
           /\ LevelInv([SingleFrame(u) EXCEPT !.kids = {}])
BY DEF LevelInv, SingleFrame

(***************************************************************************)
(* remove on its own, for a notification or a request: the events of what  *)
(* it takes out of the tables are sent, or lost as a whole.                *)
(***************************************************************************)
LEMMA RemoveEvents ==
    ASSUME IInv, EventInv, mode \in {"idle", "DELETE"}, NEW u, RemoveResource(u),
           UNCHANGED cleanVars,
           mode' = "idle" /\ (UNCHANGED <<stack, added, removed>> \/ EndWalk)
    PROVE  EventInv'
<1>1. added = {} /\ removed = {} /\ cleaning = NotCleaning /\ cleaned = {}
  BY DEF IInv, WalkInv, EventInv, QuietBefore
<1>2. added' = {} /\ removed' = {} /\ cleaning' = NotCleaning /\ cleaned' = {}
  BY <1>1 DEF EndWalk, cleanVars
<1>3. PICK D \in DoRemove({u}) :
        /\ model' = model \ D
        /\ Notify({}, {}, D) \/ Notify({}, Announced(D), Silent(D))
  BY DEF RemoveResource
<1>4. D \subseteq model /\ D = Announced(D) \cup Silent(D)
  BY DoRemoveBelow DEF Announced, Silent
<1>5. ASSUME NEW w \in Uuids \ LateUuids PROVE Follow(w)'
  <2>1. w \notin untold => (w \in told <=> w \in model)
    BY <1>1 DEF EventInv, Follow
  <2>2. w \notin untold' => (w \in told' <=> w \in model')
    BY <1>3, <1>4, <2>1 DEF Notify
  <2> QED BY <1>2, <2>2 DEF Follow
<1>6. stack' = stack \/ stack' = <<>>
  BY DEF EndWalk
<1>7. Leads(<<>>)
  BY DEF Leads
<1>8. Leads(stack') /\ EventsBehind(stack', {}, {})
  BY <1>6, <1>7 DEF EventInv, EventsBehind, Behind
<1>9. QuietBefore'
  BY <1>2 DEF QuietBefore
<1> QED BY <1>2, <1>5, <1>8, <1>9 DEF EventInv

-----------------------------------------------------------------------------
(***************************************************************************)
(* The innermost level goes on.                                            *)
(***************************************************************************)
LEMMA ReplaceLeads ==
    ASSUME IInv, EventInv, mode # "idle", NEW f \in Frame, LevelInv(f), GoesOn(Current, f)
    PROVE  Leads(Replace(f)) /\ EventsBehind(Replace(f), added, removed)
<1>1. /\ stack \in Seq(Frame) /\ Replace(f) \in Seq(Frame) /\ Len(Replace(f)) = Len(stack)
      /\ DOMAIN Replace(f) = DOMAIN stack
      /\ \A i \in DOMAIN stack : Replace(f)[i] = IF i = Len(stack) THEN f ELSE stack[i]
  BY ReplaceType, Zenon DEF IInv, TypeOK, WalkType
<1>2. Leads(stack) /\ EventsBehind(stack, added, removed)
  BY DEF EventInv
<1>3. ASSUME NEW i \in DOMAIN stack PROVE LevelInv(Replace(f)[i]) /\ GoesOn(stack[i], Replace(f)[i])
  <2>1. CASE i = Len(stack)
    BY <1>1, <2>1 DEF Current
  <2>2. CASE i # Len(stack)
    <3>1. Replace(f)[i] = stack[i]
      BY <1>1, <2>2, Zenon
    <3> QED BY <1>2, <3>1, Zenon DEF Leads, GoesOn
  <2> QED BY <2>1, <2>2
<1>4. Leads(Replace(f))
  BY <1>1, <1>2, <1>3, LeadsGoesOn
<1>5. EventsBehind(Replace(f), added, removed)
  BY <1>1, <1>2, <1>3, BehindGoesOn, Zenon DEF EventsBehind
<1> QED BY <1>4, <1>5

LEMMA ReplaceEvents ==
    ASSUME IInv, EventInv, Walking, NEW f \in Frame, LevelInv(f), GoesOn(Current, f),
           stack' = Replace(f), UNCHANGED <<mode, added, removed, cleaned, model, told, untold>>,
           failing' \in {"no", failing}, cleaning' = cleaning \/ failing # "no"
    PROVE  EventInv'
<1>1. mode # "idle" /\ cleaning = NotCleaning
  BY DEF Walking
<1>2. Leads(stack') /\ EventsBehind(stack', added', removed')
  BY <1>1, ReplaceLeads
<1>3. Len(stack') = Len(stack)
  BY <1>1, ReplaceType
<1>4. QuietBefore'
  BY <1>1, <1>3 DEF EventInv, QuietBefore
<1>5. \A u \in Uuids \ LateUuids : Follow(u)'
  BY DEF EventInv, Follow
<1> QED BY <1>2, <1>4, <1>5 DEF EventInv

(***************************************************************************)
(* The frames of the calls of a walk go on.                                *)
(***************************************************************************)
LEMMA CurrentLevel ==
    ASSUME IInv, EventInv, mode # "idle"
    PROVE  LevelInv(Current) /\ Behind(Current, added, removed)
BY CurrentType, Zenon DEF EventInv, Leads, EventsBehind, Current

LEMMA SkipGoesOn ==
    ASSUME IInv, EventInv, mode # "idle", NEW v
    PROVE  Skip(v) \in Frame /\ LevelInv(Skip(v)) /\ GoesOn(Current, Skip(v))
BY SkipType, CurrentLevel, Zenon DEF LevelInv, GoesOn, Ahead

LEMMA ListedGoesOn ==
    ASSUME IInv, EventInv, mode # "idle", NEW k \in Current.kinds, NEW S \in SUBSET Uuids,
           \A v \in S : Parent[v] = Current.uuid /\ Kind[v] = k
    PROVE  Listed(k, S) \in Frame /\ LevelInv(Listed(k, S)) /\ GoesOn(Current, Listed(k, S))
<1>1. k \in Kinds
  BY CurrentType DEF Frame
<1>2. /\ Listed(k, S) \in Frame
      /\ Listed(k, S).uuid = Current.uuid /\ Listed(k, S).kinds = Current.kinds \ {k}
      /\ Listed(k, S).kids = S /\ Listed(k, S).seen = Current.seen
  BY <1>1, ListedType, Zenon
<1>3. LevelInv(Current)
  BY CurrentLevel
<1> HIDE DEF Listed
<1>4. LevelInv(Listed(k, S))
  BY <1>2, <1>3, ZenonT(40) DEF LevelInv
<1>5. GoesOn(Current, Listed(k, S))
  BY <1>2 DEF GoesOn, Ahead
<1> QED BY <1>2, <1>4, <1>5, Zenon

LEMMA RefusedEvents ==
    ASSUME IInv, EventInv, NEW v, NEW k \in Kinds,
           EntryRefused(v) \/ ListFetched(k) \/ ListRefused(k) \/ CollectionFetched
    PROVE  EventInv'
<1>1. /\ Walking /\ UNCHANGED <<mode, added, removed, cleaned, cleaning, model, told, untold>>
      /\ failing' \in {"no", failing}
  <2>1. CASE EntryRefused(v)
    BY <2>1, Zenon DEF EntryRefused, Fetching, Refused, tableVars, cleanVars, subscriberVars
  <2>2. CASE ListFetched(k)
    BY <2>2, Zenon DEF ListFetched, Listing, tableVars, cleanVars, subscriberVars
  <2>3. CASE ListRefused(k)
    BY <2>3, Zenon DEF ListRefused, Listing, Refused, tableVars, cleanVars, subscriberVars
  <2>4. CASE CollectionFetched
    BY <2>4 DEF CollectionFetched, tableVars, cleanVars, subscriberVars
  <2> QED BY <2>1, <2>2, <2>3, <2>4, Zenon
<1>2. mode # "idle"
  BY <1>1 DEF Walking
<1>3. PICK f \in Frame : LevelInv(f) /\ GoesOn(Current, f) /\ stack' = Replace(f)
  <2>1. CASE EntryRefused(v)
    BY <1>2, <2>1, SkipGoesOn, Zenon DEF EntryRefused
  <2>2. CASE ListFetched(k)
    <3> DEFINE S == {w \in tree : Parent[w] = Current.uuid /\ Kind[w] = k}
    <3>1. S \in SUBSET Uuids /\ \A w \in S : Parent[w] = Current.uuid /\ Kind[w] = k
      BY Zenon DEF IInv, TypeOK, AgentType
    <3>2. k \in Current.kinds /\ stack' = Replace(Listed(k, S))
      BY <2>2, Zenon DEF ListFetched, Listing
    <3> HIDE DEF S
    <3> QED BY <1>2, <3>1, <3>2, ListedGoesOn, Zenon
  <2>3. CASE ListRefused(k)
    <3>1. k \in Current.kinds /\ stack' = Replace(Listed(k, {}))
      BY <2>3, Zenon DEF ListRefused, Listing
    <3> QED BY <1>2, <3>1, ListedGoesOn, Zenon
  <2>4. CASE CollectionFetched
    <3> DEFINE f == [Current EXCEPT !.kind = NoKind]
    <3>1. /\ f \in Frame /\ f.uuid = Current.uuid /\ f.kinds = Current.kinds
          /\ f.kids = Current.kids /\ f.seen = Current.seen
      BY <1>2, CurrentType DEF Frame
    <3>2. stack' = Replace(f)
      BY <2>4 DEF CollectionFetched
    <3> HIDE DEF f
    <3>3. LevelInv(f) /\ GoesOn(Current, f)
      BY <1>2, <3>1, CurrentLevel, Zenon DEF LevelInv, GoesOn, Ahead
    <3> QED BY <3>1, <3>2, <3>3
  <2> QED BY <2>1, <2>2, <2>3, <2>4
<1> QED BY <1>1, <1>3, ReplaceEvents

(***************************************************************************)
(* A member is fetched: its event is behind all levels, and nothing is     *)
(* known yet of what its own level will fetch.                             *)
(***************************************************************************)
LEMMA DoneGoesOn ==
    ASSUME IInv, EventInv, mode # "idle", NEW v \in Current.kids
    PROVE  LET done == Touched(Skip(v), v) IN
           /\ done \in Frame /\ LevelInv(done) /\ GoesOn(Current, done)
           /\ v \in Uuids /\ Parent[v] = Current.uuid /\ v \in done.seen /\ ~Ahead(done, v)
           /\ done.skewed = Current.skewed
<1> DEFINE done == Touched(Skip(v), v)
<1>1. Current \in Frame /\ v \in Uuids
  BY CurrentType DEF Frame
<1>2. /\ done \in Frame /\ done.uuid = Current.uuid /\ done.kinds = Current.kinds
      /\ done.kids = Current.kids \ {v} /\ done.seen = Current.seen \cup {v}
      /\ done.skewed = Current.skewed
  BY <1>1, Zenon DEF Touched, Skip, Frame
<1>3. LevelInv(Current)
  BY CurrentLevel, Zenon
<1> HIDE DEF done
<1>4. LevelInv(done)
  BY <1>2, <1>3, Zenon DEF LevelInv
<1>5. GoesOn(Current, done)
  BY <1>2 DEF GoesOn, Ahead
<1>6. Parent[v] = Current.uuid /\ v \in done.seen /\ ~Ahead(done, v)
  BY <1>2, <1>3, Zenon DEF LevelInv, Ahead
<1> QED BY <1>1, <1>2, <1>4, <1>5, <1>6, Zenon DEF done

LEMMA FetchedBehind ==
    ASSUME IInv, EventInv, mode # "idle", NEW v \in Current.kids, NEW A, A = added \/ A = added \cup {v}
    PROVE  LET t == Replace(Touched(Skip(v), v)) IN
           /\ Leads(t) /\ EventsBehind(t, A, removed)
           /\ Collections(v) # {} =>
                Leads(Append(t, NewFrame(v))) /\ EventsBehind(Append(t, NewFrame(v)), A, removed)
<1> DEFINE done == Touched(Skip(v), v)
           t == Replace(done)
           n == Len(stack)
<1>1. /\ done \in Frame /\ LevelInv(done) /\ GoesOn(Current, done)
      /\ v \in Uuids /\ Parent[v] = Current.uuid /\ v \in done.seen /\ ~Ahead(done, v)
  BY DoneGoesOn, Zenon
<1>2. Leads(t) /\ EventsBehind(t, added, removed)
  BY <1>1, ReplaceLeads, Zenon
<1>3. /\ t \in Seq(Frame) /\ DOMAIN t = DOMAIN stack /\ Len(t) = n /\ n \in DOMAIN t /\ n # 0
      /\ t[n] = done
  BY <1>1, ReplaceType, CurrentType, Zenon
<1> HIDE DEF t, done, n
<1>4. done.uuid = Parent[v]
  BY <1>1 DEF GoesOn
<1>5. {v} \in SUBSET Uuids /\ {} \in SUBSET Uuids /\ v \in Path[v]
  BY <1>1, TreeFacts, Zenon
<1>6. ASSUME NEW i \in DOMAIN t PROVE Behind(t[i], A, removed)
  <2>1. Behind(t[i], added, removed)
    BY <1>2 DEF EventsBehind
  <2>2. CASE i # n
    <3>1. Behind(t[i], added \cup {v}, removed \cup {})
      BY <1>2, <1>3, <1>4, <1>5, <2>1, <2>2, OuterBehind, Zenon
    <3> QED BY <2>1, <3>1, Zenon
  <2>3. CASE i = n
    <3>1. ASSUME NEW c \in Uuids, Parent[c] = done.uuid, NEW u \in A \cup removed, c \in Path[u]
          PROVE  ~Ahead(done, c) /\ (u \in A => c \in done.seen)
      <4>1. CASE u \in added \cup removed /\ u # v
        BY <1>3, <2>1, <2>3, <3>1, <4>1, Zenon DEF Behind
      <4>2. CASE u = v
        <5>1. c = v
          BY <1>1, <1>4, <1>5, <3>1, <4>2, PathFacts, Zenon
        <5> QED BY <1>1, <5>1, Zenon
      <4> QED BY <3>1, <4>1, <4>2
    <3> QED BY <1>3, <2>3, <3>1, Zenon DEF Behind
  <2> QED BY <2>2, <2>3
<1>7. ASSUME Collections(v) # {}
      PROVE  Leads(Append(t, NewFrame(v))) /\ EventsBehind(Append(t, NewFrame(v)), A, removed)
  <2>1. Leads(Append(t, NewFrame(v)))
    BY <1>1, <1>2, <1>3, <1>4, <1>7, LeadsDown, Zenon
  <2>2. Behind(NewFrame(v), A, removed)
    <3>1. ASSUME NEW c \in Uuids, Parent[c] = v, NEW u \in A \cup removed PROVE c \notin Path[u]
      <4>1. c \notin Path[v] /\ v \in Path[c]
        BY <1>1, <3>1, TreeAssumption, TreeFacts, ZenonT(40)
      <4>2. CASE u = v
        BY <4>1, <4>2, Zenon
      <4>3. CASE u # v
        <5>1. u \in added \cup removed /\ u \in Uuids
          BY <3>1, <4>3 DEF IInv, TypeOK, WalkType
        <5>2. v \notin Path[u]
          BY <1>1, <5>1, CurrentLevel, Zenon DEF Behind, Ahead
        <5> QED BY <4>1, <5>1, <5>2, PathFacts
      <4> QED BY <4>2, <4>3, Zenon
    <3> QED BY <3>1, Zenon DEF Behind, NewFrame
  <2>3. \A i \in DOMAIN Append(t, NewFrame(v)) :
           \/ Append(t, NewFrame(v))[i] = NewFrame(v)
           \/ i \in DOMAIN t /\ Append(t, NewFrame(v))[i] = t[i]
    BY <1>1, <1>3, NewFrameType
  <2> QED BY <1>6, <2>1, <2>2, <2>3, Zenon DEF EventsBehind
<1> QED BY <1>2, <1>6, <1>7, Zenon DEF EventsBehind, t, done

LEMMA EntryFetchedEvents ==
    ASSUME IInv, EventInv, NEW v \in Uuids, EntryFetched(v)
    PROVE  EventInv'
<1> DEFINE announced == v \notin model /\ ~InvalidUrl(v)' /\ ~NoUrl(v)'
<1>1. /\ mode \notin {"idle", "DELETE"} /\ cleaning = NotCleaning /\ v \in Current.kids
      /\ failing' = "no" /\ UNCHANGED <<mode, removed, cleaning, cleaned, told>>
      /\ model' = model \cup {v}
  BY Zenon DEF EntryFetched, Fetching, Walking, cleanVars, Store
<1>2. \/ stack' = Replace(Touched(Skip(v), v))
      \/ Collections(v) # {} /\ stack' = Append(Replace(Touched(Skip(v), v)), NewFrame(v))
  BY Zenon DEF EntryFetched
<1>3. /\ added' = IF announced THEN added \cup {v} ELSE added
      /\ untold' = IF v \in model \/ announced THEN untold ELSE untold \cup {v}
  BY Zenon DEF EntryFetched
<1>4. added' = added \/ added' = added \cup {v}
  BY <1>3
<1>5. Leads(stack') /\ EventsBehind(stack', added', removed')
  BY <1>1, <1>2, <1>4, FetchedBehind, Zenon
<1>6. QuietBefore'
  BY <1>1, Zenon DEF EventInv, QuietBefore
<1>7. v \notin added /\ v \notin removed /\ cleaned = {}
  <2>1. v \in Path[v] /\ Ahead(Current, v) /\ Parent[v] = Current.uuid
    BY <1>1, TreeFacts, DoneGoesOn, Zenon DEF Ahead
  <2>2. Behind(Current, added, removed)
    BY <1>1, CurrentLevel, Zenon
  <2> QED BY <1>1, <2>1, <2>2, Zenon DEF Behind, EventInv, QuietBefore
<1>8. ASSUME NEW u \in Uuids \ LateUuids PROVE Follow(u)'
  <2>1. Follow(u)
    BY DEF EventInv
  <2>2. CASE u # v
    BY <1>1, <1>3, <2>1, <2>2, Zenon DEF Follow
  <2>3. CASE u = v
    BY <1>1, <1>3, <1>7, <2>1, <2>3, Zenon DEF Follow
  <2> QED BY <2>2, <2>3
<1> QED BY <1>5, <1>6, <1>8 DEF EventInv

(***************************************************************************)
(* The end of a walk: the events are sent, or lost.                        *)
(***************************************************************************)
LEMMA EndEvents ==
    ASSUME EndWalk, cleaning' = NotCleaning, cleaned' = {},
           \A u \in Uuids \ LateUuids : u \notin untold' => (u \in told' <=> u \in model')
    PROVE  EventInv'
<1>1. Leads(<<>>) /\ EventsBehind(<<>>, {}, {})
  BY DEF Leads, EventsBehind
<1>2. mode' = "idle" /\ stack' = <<>> /\ added' = {} /\ removed' = {}
  BY DEF EndWalk
<1>3. QuietBefore'
  BY <1>2 DEF QuietBefore
<1>4. \A u \in Uuids \ LateUuids : Follow(u)'
  BY <1>2 DEF Follow
<1> QED BY <1>1, <1>2, <1>3, <1>4 DEF EventInv

(***************************************************************************)
(* remove_untouched takes nothing out of the tables that the same walk has *)
(* added.                                                                  *)
(***************************************************************************)
LEMMA UntouchedBehind ==
    ASSUME IInv, EventInv, mode # "idle", NEW D \in DoRemove(Untouched), NEW u \in D
    PROVE  /\ u \in model /\ u \in Uuids /\ u \notin added
           /\ \E w \in Path[u] : w \in model /\ Parent[w] = Current.uuid /\ w \notin Current.seen
<1>1. PICK w \in Untouched : w \in Path[u]
  BY DoRemoveBelow
<1>2. w \in model /\ Parent[w] = Current.uuid /\ w \notin Current.seen
  BY <1>1 DEF Untouched
<1>3. u \in model /\ model \subseteq Uuids
  BY DoRemoveBelow, Zenon DEF IInv, TypeOK, TableType
<1>4. u \notin added
  BY <1>1, <1>2, <1>3, CurrentLevel, Zenon DEF Behind
<1> QED BY <1>1, <1>2, <1>3, <1>4

LEMMA LevelFetchedEvents ==
    ASSUME IInv, EventInv, LevelFetched
    PROVE  EventInv'
<1> DEFINE pops == Len(stack) > 1 /\ ~(mode = "LOADING" /\ Len(stack) = 2 /\ Throws(Untouched))
<1>0. /\ mode \notin {"idle", "DELETE"} /\ cleaning = NotCleaning
      /\ UNCHANGED <<failing, cleaning, cleaned>>
  BY Zenon DEF LevelFetched, Walking, cleanVars
<1>1. PICK D \in DoRemove(Untouched) :
        /\ model' = model \ D
        /\ IF pops
           THEN /\ stack' = IF Throws(Untouched) THEN Skewed(Outer) ELSE Outer
                /\ removed' = removed \cup Announced(D)
                /\ untold' = untold \cup Silent(D)
                /\ UNCHANGED <<mode, added, told>>
           ELSE /\ EndWalk
                /\ IF Len(stack) = 1
                   THEN Notify(added, removed \cup Announced(D), Silent(D))
                   ELSE Notify({}, {}, added \cup removed \cup D)
  BY Zenon DEF LevelFetched, Outer
<1>2. /\ \A u \in D : u \in model /\ u \in Uuids /\ u \notin added
      /\ \A u \in D : \E w \in Path[u] : Parent[w] = Current.uuid
  BY <1>0, UntouchedBehind, Zenon
<1>3. D = Announced(D) \cup Silent(D)
  BY DEF Announced, Silent
<1>4. cleaned = {} /\ cleaned' = {}
  BY <1>0 DEF EventInv, QuietBefore
<1>5. CASE pops
  <2>1. /\ stack' = Skewed(Outer) \/ stack' = Outer
        /\ removed' = removed \cup Announced(D) /\ untold' = untold \cup Silent(D)
        /\ UNCHANGED <<mode, added, told>>
    BY <1>1, <1>5, Zenon
  <2>2. PICK t : t = stack'
    OBVIOUS
  <2>3. /\ t \in Seq(Frame) /\ Len(t) = Len(stack) - 1
        /\ \A i \in DOMAIN t :
              /\ i \in DOMAIN stack
              /\ t[i].uuid = stack[i].uuid /\ t[i].kinds = stack[i].kinds
              /\ t[i].kids = stack[i].kids /\ t[i].seen = stack[i].seen
    BY <1>0, <1>5, <2>1, <2>2, OuterFrames, ZenonT(40)
  <2>4. stack \in Seq(Frame) /\ Len(stack) \in Nat
    BY DEF IInv, TypeOK, WalkType
  <2>5. Leads(t) /\ \A i \in DOMAIN t : i \in DOMAIN stack /\ GoesOn(stack[i], t[i])
    BY <1>5, <2>3, <2>4, LeadsUp DEF EventInv
  <2>6. ASSUME NEW i \in DOMAIN t PROVE Behind(t[i], added, removed')
    <3>1. i # Len(stack) /\ i \in DOMAIN stack /\ GoesOn(stack[i], t[i])
      BY <2>3, <2>4, <2>5
    <3>2. Behind(stack[i], added, removed)
      BY <3>1, Zenon DEF EventInv, EventsBehind
    <3>3. {} \in SUBSET Uuids /\ Announced(D) \in SUBSET Uuids
      BY <1>2, <1>3, Zenon
    <3>4. \A u \in {} \cup Announced(D) : \E w \in Path[u] : Parent[w] = stack[Len(stack)].uuid
      BY <1>2, <1>3, Zenon DEF Current
    <3>5. Behind(stack[i], added \cup {}, removed \cup Announced(D))
      BY <2>4, <3>1, <3>2, <3>3, <3>4, OuterBehind, Zenon DEF EventInv
    <3>6. Behind(stack[i], added, removed')
      BY <2>1, <3>5, Zenon
    <3> QED BY <3>1, <3>6, BehindGoesOn, Zenon
  <2>7. EventsBehind(stack', added', removed')
    BY <2>1, <2>2, <2>6 DEF EventsBehind
  <2>8. QuietBefore'
    BY <1>0, <1>4, <1>5, <2>1, Zenon DEF EventInv, QuietBefore
  <2>9. ASSUME NEW u \in Uuids \ LateUuids PROVE Follow(u)'
    <3>1. Follow(u)
      BY DEF EventInv
    <3> QED BY <1>1, <1>2, <1>3, <1>4, <2>1, <3>1, Zenon DEF Follow
  <2> QED BY <2>2, <2>5, <2>7, <2>8, <2>9 DEF EventInv
<1>6. CASE ~pops
  <2>1. EndWalk /\ \/ Notify(added, removed \cup Announced(D), Silent(D))
                   \/ Notify({}, {}, added \cup removed \cup D)
    BY <1>1, <1>6, Zenon
  <2>2. ASSUME NEW u \in Uuids \ LateUuids, u \notin untold' PROVE u \in told' <=> u \in model'
    <3>1. Follow(u)
      BY DEF EventInv
    <3>2. CASE Notify(added, removed \cup Announced(D), Silent(D))
      BY <1>1, <1>2, <1>3, <1>4, <2>2, <3>1, <3>2, Zenon DEF Follow, Notify
    <3>3. CASE Notify({}, {}, added \cup removed \cup D)
      BY <1>1, <1>2, <1>3, <1>4, <2>2, <3>1, <3>3, Zenon DEF Follow, Notify
    <3> QED BY <2>1, <3>2, <3>3
  <2> QED BY <1>0, <1>4, <2>1, <2>2, EndEvents
<1> QED BY <1>5, <1>6

(***************************************************************************)
(* Calls that are not answered, and the removal of an agent's resources.   *)
(***************************************************************************)
LEMMA AbortEvents ==
    ASSUME IInv, EventInv, NEW E, E = cleaned \/ (E = {} /\ cleaned = {}), Abort(E),
           cleaning' = NotCleaning, cleaned' = {}
    PROVE  EventInv'
<1>1. PICK D \in IF mode = "ADD" THEN DoRemove({top}) ELSE {{}} :
        model' = model \ D /\ Notify({}, E, added \cup removed \cup D)
  BY Zenon DEF Abort
<1>2. EndWalk
  BY DEF Abort
<1>3. ASSUME NEW u \in Uuids \ LateUuids, u \notin untold' PROVE u \in told' <=> u \in model'
  <2>1. Follow(u)
    BY DEF EventInv
  <2> QED BY <1>1, <1>3, <2>1, Zenon DEF Follow, Notify
<1> QED BY <1>2, <1>3, EndEvents

LEMMA UnreachableEvents ==
    ASSUME IInv, EventInv, Unreachable
    PROVE  EventInv'
<1>0. Walking /\ mode # "idle" /\ cleaning = NotCleaning /\ cleaned' = cleaned
  BY Zenon DEF Unreachable, Walking
<1>1. PICK f \in {Skip(v) : v \in Current.kids}
                \cup {Listed(k, {}) : k \in {k \in Current.kinds : Listing(k)}} :
        IF failing = "old"
        THEN /\ cleaning' = Kinds /\ stack' = Replace(f)
             /\ UNCHANGED <<failing, model, mode, added, removed, subscriberVars>>
        ELSE failing' = "recent" /\ Abort({}) /\ UNCHANGED cleaning
  BY Zenon DEF Unreachable
<1>2. f \in Frame /\ LevelInv(f) /\ GoesOn(Current, f)
  <2>1. CASE f \in {Skip(v) : v \in Current.kids}
    BY <1>0, <2>1, SkipGoesOn, Zenon
  <2>2. CASE f \in {Listed(k, {}) : k \in {k \in Current.kinds : Listing(k)}}
    BY <1>0, <2>2, ListedGoesOn, Zenon
  <2> QED BY <1>1, <2>1, <2>2, Zenon
<1>3. CASE failing = "old"
  <2>1. /\ stack' = Replace(f) /\ UNCHANGED <<failing, model, mode, added, removed, told, untold>>
    BY <1>1, <1>3, Zenon DEF subscriberVars
  <2> QED BY <1>0, <1>2, <1>3, <2>1, ReplaceEvents, Zenon
<1>4. CASE failing # "old"
  <2>1. Abort({}) /\ UNCHANGED cleaning
    BY <1>1, <1>4, Zenon
  <2>2. cleaned = {}
    BY <1>0, Zenon DEF EventInv, QuietBefore
  <2> QED BY <1>0, <2>1, <2>2, AbortEvents, Zenon
<1> QED BY <1>3, <1>4, Zenon

LEMMA CleanKindEvents ==
    ASSUME IInv, EventInv, NEW k \in Kinds, CleanKind(k)
    PROVE  EventInv'
<1> DEFINE S == {v \in model : Kind[v] = k}
<1>1. PICK D \in DoRemove(S) :
        /\ model' = model \ D
        /\ IF Throws(S)
           THEN cleaning' = NotCleaning /\ cleaned' = {} /\ untold' = untold \cup cleaned \cup D
           ELSE /\ cleaning' = cleaning \ {k}
                /\ cleaned' = cleaned \cup Announced(D)
                /\ untold' = untold \cup Silent(D)
  BY Zenon DEF CleanKind
<1>2. cleaning # NotCleaning /\ UNCHANGED <<mode, stack, added, removed, failing, told>>
  BY Zenon DEF CleanKind, walkVars
<1>3. added = {} /\ removed = {} /\ cleaning \subseteq Kinds
  BY <1>2, Zenon DEF EventInv, QuietBefore, IInv, TypeOK, CleanType
<1>4. D \subseteq model /\ D = Announced(D) \cup Silent(D)
  BY DoRemoveBelow, Zenon DEF Announced, Silent
<1>5. QuietBefore'
  <2>1. cleaning' = NotCleaning => cleaned' = {}
    <3>1. cleaning \ {k} # NotCleaning
      BY <1>3, TreeAssumption, Zenon DEF NotCleaning
    <3> QED BY <1>1, <3>1, Zenon
  <2> QED BY <1>2, <1>3, <2>1, Zenon DEF EventInv, QuietBefore
<1>6. ASSUME NEW u \in Uuids \ LateUuids PROVE Follow(u)'
  <2>1. Follow(u)
    BY DEF EventInv
  <2> QED BY <1>1, <1>2, <1>3, <1>4, <2>1, ZenonT(40) DEF Follow
<1> QED BY <1>2, <1>5, <1>6, Zenon DEF EventInv

(***************************************************************************)
(* A callback stores a resource.  The levels go on, and only that resource *)
(* is told of.                                                             *)
(***************************************************************************)
LEMMA TouchLeads ==
    ASSUME IInv, EventInv, NEW u \in LateUuids
    PROVE  /\ Leads(Touch(u)) /\ EventsBehind(Touch(u), added, removed)
           /\ \A i \in DOMAIN stack : GoesOn(stack[i], Touch(u)[i])
<1>1. u \in Uuids
  BY RequestAssumption
<1>2. stack \in Seq(Frame) /\ Leads(stack) /\ EventsBehind(stack, added, removed)
  BY Zenon DEF IInv, TypeOK, WalkType, EventInv
<1>3. ASSUME NEW i \in DOMAIN stack PROVE LevelInv(Touch(u)[i]) /\ GoesOn(stack[i], Touch(u)[i])
  <2>1. PICK g : g = Touch(u)[i]
    OBVIOUS
  <2>2. /\ g.uuid = stack[i].uuid /\ g.kinds = stack[i].kinds /\ g.kids = stack[i].kids
        /\ g.seen = stack[i].seen \/ (g.seen = stack[i].seen \cup {u} /\ Kind[u] \notin stack[i].kinds)
    BY <1>1, <2>1, TouchFacts, Zenon
  <2>3. LevelInv(stack[i])
    BY <1>2, Zenon DEF Leads
  <2>4. LevelInv(g)
    BY <2>2, <2>3, Zenon DEF LevelInv
  <2>5. GoesOn(stack[i], g)
    BY <2>2, Zenon DEF GoesOn, Ahead
  <2> QED BY <2>1, <2>4, <2>5, Zenon
<1>4. Leads(Touch(u))
  BY <1>1, <1>2, <1>3, TouchFacts, LeadsGoesOn, Zenon
<1>5. EventsBehind(Touch(u), added, removed)
  BY <1>1, <1>2, <1>3, TouchFacts, BehindGoesOn, Zenon DEF EventsBehind
<1> QED BY <1>3, <1>4, <1>5, Zenon

LEMMA LateStoreEvents ==
    ASSUME IInv, EventInv, NEW u \in LateUuids, LateStore(u)
    PROVE  EventInv'
<1>1. /\ stack' = Touch(u) /\ model' = model \cup {u}
      /\ UNCHANGED <<mode, added, removed, failing, cleaning, cleaned>>
  BY Zenon DEF LateStore, Store, cleanVars
<1>2. \/ UNCHANGED <<told, untold>>
      \/ Notify({}, {}, {u}) \/ Notify({u}, {}, {})
  BY Zenon DEF LateStore, subscriberVars
<1>3. Leads(stack') /\ EventsBehind(stack', added', removed')
  BY <1>1, TouchLeads, Zenon
<1>4. Len(stack') = Len(stack)
  BY <1>1, TouchFacts, RequestAssumption, Zenon
<1>5. QuietBefore'
  BY <1>1, <1>4, Zenon DEF EventInv, QuietBefore
<1>6. ASSUME NEW w \in Uuids \ LateUuids PROVE Follow(w)'
  <2>1. Follow(w) /\ w # u
    BY DEF EventInv
  <2>2. (w \in told' <=> w \in told) /\ (w \in untold' <=> w \in untold) /\ (w \in model' <=> w \in model)
    BY <1>1, <1>2, <2>1 DEF Notify
  <2> QED BY <1>1, <2>1, <2>2, Zenon DEF Follow
<1> QED BY <1>3, <1>5, <1>6 DEF EventInv

-----------------------------------------------------------------------------
(***************************************************************************)
(* The steps of the agent, the watcher and the REST threads.               *)
(***************************************************************************)
LEMMA AgentEvents ==
    ASSUME IInv, EventInv, AgentStep \/ Age \/ Attach
    PROVE  EventInv'
<1>1. UNCHANGED <<mode, stack, added, removed, cleaning, cleaned, model, told, untold>>
  <2>1. CASE AgentStep
    BY <2>1, Zenon DEF AgentStep, AgentAdds, AgentRemoves, AgentUpdates, GoDown, ComeUp, walkVars,
                cleanVars, tableVars, subscriberVars
  <2>2. CASE Age \/ Attach
    BY <2>2, Zenon DEF Age, Attach, walkVars, cleanVars, tableVars, subscriberVars
  <2> QED BY <2>1, <2>2
<1>2. failing' # "no" => failing # "no"
  BY Zenon DEF AgentStep, AgentAdds, AgentRemoves, AgentUpdates, GoDown, ComeUp, Age, Attach
<1> QED BY <1>1, <1>2, QuietEvents

LEMMA WatcherEvents ==
    ASSUME IInv, EventInv, WatcherStep
    PROVE  EventInv'
<1>1. CASE StartPoll
  <2>1. NewFrame(Root) \in Frame /\ LevelInv(NewFrame(Root))
    BY NewFrameType, NewLevel
  <2>2. UNCHANGED <<cleaned, model, told, untold>> /\ Begin("POLLING", Root, NewFrame(Root))
    BY <1>1 DEF StartPoll, cleanVars, tableVars, subscriberVars
  <2> QED BY <2>1, <2>2, BeginEvents DEF WatcherModes
<1>2. CASE IgnoreNotification
  <2>1. /\ UNCHANGED <<mode, stack, added, removed, cleaning, cleaned, model, told, untold>>
        /\ UNCHANGED failing
    BY <1>2, Zenon DEF IgnoreNotification, Take, walkVars, cleanVars, tableVars, subscriberVars
  <2> QED BY <2>1, QuietEvents
<1>3. CASE HandleAddOrUpdate
  <2> DEFINE u == Head(queue).uuid
  <2>1. u \in Uuids
    <3> DEFINE N == [type: {"Add", "Remove", "Update"}, uuid: Uuids]
    <3>1. queue \in Seq(N) /\ queue # <<>>
      BY <1>3, Zenon DEF IInv, TypeOK, AgentType, Take, HandleAddOrUpdate
    <3>2. Head(queue) \in N
      <4> HIDE DEF N
      <4> QED BY <3>1
    <3> QED BY <3>2
  <2>2. SingleFrame(u) \in Frame /\ LevelInv(SingleFrame(u))
    BY <2>1, SingleFrameType, SingleLevel, Zenon
  <2>3. /\ Begin("ADD", u, SingleFrame(u)) \/ Begin("UPDATE", u, SingleFrame(u))
        /\ UNCHANGED <<cleaned, model, told, untold>>
    BY <1>3, Zenon DEF HandleAddOrUpdate, Take, cleanVars, tableVars, subscriberVars
  <2> HIDE DEF u
  <2> QED BY <2>2, <2>3, BeginEvents DEF WatcherModes
<1>4. CASE HandleRemove
  <2>1. /\ mode = "idle" /\ RemoveResource(Head(queue).uuid) /\ UNCHANGED cleanVars
        /\ mode' = "idle" /\ UNCHANGED <<stack, added, removed>>
    BY <1>4, Zenon DEF HandleRemove, Take, Ignored, walkVars
  <2> QED BY <2>1, RemoveEvents
<1> QED BY <1>1, <1>2, <1>3, <1>4 DEF WatcherStep

LEMMA RestEvents ==
    ASSUME IInv, EventInv, RestStep
    PROVE  EventInv'
<1>1. CASE (\E u \in Uuids, op \in RequestTypes : Request(op, u)) \/ RequestFails
              \/ \E u \in LateUuids : LateFetch(u)
  <2>1. /\ UNCHANGED <<mode, stack, added, removed, cleaning, cleaned, model, told, untold>>
        /\ UNCHANGED failing
    BY <1>1, Zenon DEF Request, RequestFails, LateFetch, walkVars, cleanVars, tableVars, subscriberVars
  <2> QED BY <2>1, QuietEvents
<1>2. CASE ServeRequest
  <2> DEFINE u == request.uuid
  <2>1. u \in Uuids /\ SingleFrame(u) \in Frame /\ LevelInv(SingleFrame(u))
    BY <1>2, RequestUuid, SingleLevel, Zenon DEF ServeRequest
  <2>2. /\ Begin("LOADING", u, SingleFrame(u)) \/ Begin("DELETE", u, SingleFrame(u))
        /\ UNCHANGED <<cleaned, model, told, untold>>
    <3>1. request.op \in {"create", "patch", "delete"}
      BY <1>2 DEF ServeRequest, IInv, TypeOK, ThreadType
    <3>2. Begin("LOADING", u, SingleFrame(u)) \/ Begin("DELETE", u, SingleFrame(u))
      BY <1>2, <3>1, Zenon DEF ServeRequest
    <3> QED BY <1>2, <3>2 DEF ServeRequest, cleanVars, tableVars, subscriberVars
  <2> HIDE DEF u
  <2> QED BY <2>1, <2>2, BeginEvents DEF RestModes
<1>3. CASE RequestUnreachable
  <2>1. CASE failing = "old"
    <3> DEFINE u == request.uuid
               f == [SingleFrame(u) EXCEPT !.kids = {}]
    <3>1. u \in Uuids /\ f \in Frame /\ LevelInv(f)
      BY <1>3, RequestUuid, SingleLevel DEF RequestUnreachable, Frame
    <3>2. Begin("LOADING", u, f) /\ UNCHANGED <<cleaned, model, told, untold>>
      BY <1>3, <2>1 DEF RequestUnreachable, tableVars, subscriberVars
    <3> HIDE DEF f, u
    <3> QED BY <3>1, <3>2, BeginEvents DEF RestModes
  <2>2. CASE failing # "old"
    <3>1. /\ UNCHANGED <<mode, stack, added, removed, cleaning, cleaned, model, told, untold>>
          /\ mode = "idle"
      BY <1>3, <2>2 DEF RequestUnreachable, walkVars, tableVars, subscriberVars
    <3> QED BY <3>1, QuietEvents
  <2> QED BY <2>1, <2>2
<1>4. CASE DeleteFromModel
  <2>1. /\ mode = "DELETE" /\ RemoveResource(top) /\ UNCHANGED cleanVars /\ EndWalk /\ mode' = "idle"
    BY <1>4, Zenon DEF DeleteFromModel, EndWalk
  <2> QED BY <2>1, RemoveEvents
<1>5. CASE \E u \in LateUuids : LateStore(u)
  BY <1>5, LateStoreEvents
<1> QED BY <1>1, <1>2, <1>3, <1>4, <1>5 DEF RestStep

LEMMA WalkEvents ==
    ASSUME IInv, EventInv, WalkStep
    PROVE  EventInv'
<1>1. ASSUME NEW v \in Uuids, EntryFetched(v) PROVE EventInv'
  BY <1>1, EntryFetchedEvents
<1>2. ASSUME NEW v \in Uuids, EntryRefused(v) PROVE EventInv'
  <2>1. Kinds # {}
    BY TreeFacts, Zenon
  <2> QED BY <1>2, <2>1, RefusedEvents
<1>3. ASSUME NEW k \in Kinds, ListFetched(k) \/ ListRefused(k) PROVE EventInv'
  BY <1>3, RefusedEvents
<1>4. ASSUME NEW k \in Kinds, CleanKind(k) PROVE EventInv'
  BY <1>4, CleanKindEvents
<1>5. CASE CollectionFetched
  <2>1. Current.kind \in Kinds
    BY <1>5, CurrentType DEF CollectionFetched, Walking, Frame
  <2> QED BY <1>5, <2>1, RefusedEvents
<1>6. CASE LevelFetched
  BY <1>6, LevelFetchedEvents
<1>7. CASE Unreachable
  BY <1>7, UnreachableEvents
<1>8. CASE Unregister
  BY <1>8, AbortEvents DEF Unregister
<1> QED BY <1>1, <1>2, <1>3, <1>4, <1>5, <1>6, <1>7, <1>8, Zenon DEF WalkStep

(***************************************************************************)
(* The invariant of the events holds in every reachable state: the levels  *)
(* of a walk lead down the tree, its events are behind them, and with the  *)
(* events still collected the subscribers know what is in the tables.      *)
(***************************************************************************)
THEOREM EventInvariance == Spec => []EventInv
<1>1. Init => EventInv
  <2>1. SUFFICES ASSUME Init PROVE EventInv
    OBVIOUS
  <2>2. Leads(<<>>) /\ EventsBehind(<<>>, {}, {})
    BY DEF Leads, EventsBehind
  <2>3. QuietBefore /\ \A u \in Uuids \ LateUuids : Follow(u)
    BY <2>1, Zenon DEF Init, QuietBefore, Follow
  <2> QED BY <2>1, <2>2, <2>3, Zenon DEF Init, EventInv
<1>2. IInv /\ EventInv /\ [Next]_vars => EventInv'
  <2>1. SUFFICES ASSUME IInv, EventInv, [Next]_vars PROVE EventInv'
    OBVIOUS
  <2>2. CASE UNCHANGED vars
    <3>1. /\ UNCHANGED <<mode, stack, added, removed, cleaning, cleaned, model, told, untold>>
          /\ UNCHANGED failing
      BY <2>2, Zenon DEF vars, walkVars, cleanVars, tableVars, subscriberVars
    <3> QED BY <2>1, <3>1, QuietEvents
  <2> QED BY <2>1, <2>2, AgentEvents, WalkEvents, WatcherEvents, RestEvents DEF Next
<1> QED BY <1>1, <1>2, Invariance, PTL DEF Spec

(***************************************************************************)
(* For every tree of resources and every interleaving of the agent, the    *)
(* watcher, REST threads and completion callbacks, whatever calls fail:    *)
(* between transactions subscribers know exactly the resources in the      *)
(* tables, up to those whose last event was lost with the walk that was to *)
(* send it, and those that callbacks load.                                 *)
(***************************************************************************)
THEOREM SubscribersInformed == Spec => []SubscribersFollow
<1>1. IInv /\ EventInv => SubscribersFollow
  <2>1. SUFFICES ASSUME IInv, EventInv, mode = "idle", NEW u \in Uuids \ (untold \cup LateUuids)
                 PROVE  u \in told <=> u \in model
    BY DEF SubscribersFollow
  <2>2. added = {} /\ removed = {} /\ cleaned = {}
    BY <2>1, Zenon DEF IInv, WalkInv, EventInv, QuietBefore
  <2> QED BY <2>1, <2>2, Zenon DEF EventInv, Follow
<1> QED BY <1>1, Invariance, EventInvariance, PTL

-----------------------------------------------------------------------------
(***************************************************************************)
(* What a poll leaves in the tables.  Two restrictions on the tree: the    *)
(* completion callbacks load resources without sub-resources (zones,       *)
(* volumes, drives, processors; not systems, whose late store can give an  *)
(* orphan its ancestors back behind the walk), and a resource created      *)
(* through REST has at most one level of sub-resources.                    *)
(***************************************************************************)
LeafCallbacks == \A u \in LateUuids : Children(u) = {}

ShallowCreates ==
    "create" \in RequestTypes =>
        \A u \in Uuids : Parent[u] # Root => \A c \in Children(u) : Children(c) = {}

(***************************************************************************)
(* No entry is ever stored with the wrong parent type.                     *)
(***************************************************************************)
Unskewed ==
    /\ \A u \in Uuids : parentType[u] # "wrong"
    /\ \A i \in DOMAIN stack : ~stack[i].skewed

(***************************************************************************)
(* A load for REST goes at most one level down, an update none.            *)
(***************************************************************************)
ShortLoads ==
    /\ request.op = "create" => "create" \in RequestTypes /\ Parent[request.uuid] # Root
    /\ mode \in RestModes => request # NoRequest
    /\ mode = "LOADING" => Len(stack) < 3 /\ (request.op = "create" => stack[1].uuid # Root)
    /\ mode = "UPDATE" => Len(stack) = 1

(***************************************************************************)
(* A poll is in levels of resources that have all their ancestors, and has *)
(* touched what the agent has had since it began, or a callback stored.    *)
(***************************************************************************)
PollLevels ==
    mode = "POLLING" =>
        /\ stack[1].uuid = Root
        /\ \A i \in 2..Len(stack) : Path[stack[i].uuid] \subseteq model
        /\ tree \subseteq present
        /\ \A i \in DOMAIN stack : stack[i].seen \subseteq present

(***************************************************************************)
(* The walk with levels s has still to fetch u, or something above it; or  *)
(* has at least not decided that it is there.                              *)
(***************************************************************************)
Pending(s, u) ==
    \E i \in DOMAIN s : \E c \in Path[u] : Parent[c] = s[i].uuid /\ Ahead(s[i], c)

Undecided(s, u) ==
    \E i \in DOMAIN s : \E c \in Path[u] :
        Parent[c] = s[i].uuid /\ (Ahead(s[i], c) \/ c \notin s[i].seen)

(***************************************************************************)
(* A poll without failed calls: what the agent has had all along is in the *)
(* tables or still to be fetched, and what it never had is not, or not     *)
(* with all its ancestors, or still to be decided about.                   *)
(***************************************************************************)
Reached ==
    mode = "POLLING" /\ ~erred =>
        \A u \in Uuids : Path[u] \subseteq steady => u \in model \/ Pending(stack, u)

Forgotten ==
    mode = "POLLING" /\ ~erred =>
        \A u \in Uuids : Path[u] \subseteq model => u \in present \/ Undecided(stack, u)

CopyInv == Unskewed /\ ShortLoads /\ PollLevels /\ Reached /\ Forgotten

(***************************************************************************)
(* A resource with all its ancestors, none of them stored with the wrong   *)
(* type, has a URL or no event.                                            *)
(***************************************************************************)
LEMMA RootedUrl ==
    ASSUME IInv, Unskewed, NEW v \in Uuids, Path[v] \subseteq model
    PROVE  ~InvalidUrl(v)
<1>1. SUFFICES ASSUME NEW x \in Path[v], Stops(x), parentType[x] # "None" PROVE FALSE
  BY Zenon DEF InvalidUrl, FirstStop
<1>2. x \in Uuids /\ Kind[x] \notin TopKinds
  BY <1>1, PathFacts, Zenon DEF Stops
<1>3. Parent[x] # Root
  BY <1>2, TopAssumption, Zenon
<1>4. Parent[x] \in model
  BY <1>3, PathFacts, Zenon
<1>5. parentType[x] = "parent"
  BY <1>1, <1>2, Zenon DEF Unskewed, IInv, TypeOK, TableType
<1> QED BY <1>1, <1>4, <1>5, Zenon DEF Stops

(***************************************************************************)
(* What a poll stores, it stores below what it has stored before; so       *)
(* remove_untouched does not throw in a poll.                              *)
(***************************************************************************)
LEMMA RootedLevel ==
    ASSUME IInv, PollLevels, mode = "POLLING", NEW c \in Uuids, Parent[c] = Current.uuid
    PROVE  Path[c] \ {c} \subseteq model
<1>1. Path[c] = {c} \cup (IF Parent[c] = Root THEN {} ELSE Path[Parent[c]])
  BY TreeAssumption, Zenon
<1>2. Len(stack) \in Nat \ {0}
  BY CurrentType
<1>3. CASE Len(stack) = 1
  BY <1>1, <1>3, Zenon DEF PollLevels, Current
<1>4. CASE Len(stack) # 1
  <2>1. Len(stack) \in 2..Len(stack)
    <3>1. \A n \in Nat \ {0} : n # 1 => n \in 2..n
      OBVIOUS
    <3> QED BY <1>2, <1>4, <3>1, Zenon
  <2>2. \A i \in 2..Len(stack) : Path[stack[i].uuid] \subseteq model
    BY Zenon DEF PollLevels
  <2>3. Path[Current.uuid] \subseteq model
    BY <2>1, <2>2, Zenon DEF Current
  <2> QED BY <1>1, <2>3, Zenon
<1> QED BY <1>3, <1>4, Zenon

LEMMA PollNeverThrows ==
    ASSUME IInv, Unskewed, PollLevels, mode = "POLLING"
    PROVE  ~Throws(Untouched)
<1>1. SUFFICES ASSUME NEW v \in Visited(Untouched) PROVE ~InvalidUrl(v)
  BY Zenon DEF Throws
<1>2. PICK u \in Untouched : v \in model \cap Below(u) /\ Linked(u, v)
  BY DEF Visited
<1>3. u \in model /\ Parent[u] = Current.uuid /\ u \in Uuids /\ v \in Uuids
  BY <1>2, Zenon DEF Untouched, IInv, TypeOK, TableType
<1>4. Path[u] \subseteq model
  BY <1>3, RootedLevel, Zenon
<1>5. Path[v] \subseteq model
  BY <1>2, <1>4 DEF Linked
<1> QED BY <1>3, <1>5, RootedUrl, Zenon

(***************************************************************************)
(* Steps that leave the levels and the tables alone.                       *)
(***************************************************************************)
LEMMA QuietCopy ==
    ASSUME IInv, CopyInv, UNCHANGED <<mode, stack, erred, model, parentType>>,
           \/ request' = request
           \/ request' = NoRequest /\ mode \notin RestModes
           \/ /\ request = NoRequest
              /\ request'.op = "create" => "create" \in RequestTypes /\ Parent[request'.uuid] # Root,
           mode = "POLLING" =>
               steady' \subseteq steady /\ present \subseteq present' /\ tree' \subseteq present'
    PROVE  CopyInv'
<1>1. Unskewed'
  BY Zenon DEF CopyInv, Unskewed
<1>2. ShortLoads'
  BY DEF CopyInv, ShortLoads, NoRequest, RestModes
<1>3. PollLevels'
  BY Zenon DEF CopyInv, PollLevels
<1>4. Reached'
  BY Zenon DEF CopyInv, Reached
<1>5. Forgotten'
  BY Zenon DEF CopyInv, Forgotten
<1> QED BY <1>1, <1>2, <1>3, <1>4, <1>5, Zenon DEF CopyInv

(***************************************************************************)
(* A walk ends, or another walk than a poll begins.                        *)
(***************************************************************************)
LEMMA EndCopy ==
    ASSUME CopyInv, EndWalk, parentType' = parentType, request' \in {request, NoRequest}
    PROVE  CopyInv'
<1>1. mode' = "idle" /\ stack' = <<>>
  BY DEF EndWalk
<1>2. Unskewed'
  BY <1>1 DEF CopyInv, Unskewed
<1>3. ShortLoads'
  BY <1>1 DEF CopyInv, ShortLoads, NoRequest, RestModes
<1> QED BY <1>1, <1>2, <1>3, Zenon DEF CopyInv, PollLevels, Reached, Forgotten

LEMMA BeginCopy ==
    ASSUME CopyInv, NEW md \in {"ADD", "UPDATE", "LOADING", "DELETE"}, NEW u, NEW f, ~f.skewed,
           Begin(md, u, f), UNCHANGED <<parentType, request>>,
           md \in RestModes => request # NoRequest /\ f.uuid = Parent[request.uuid]
    PROVE  CopyInv'
<1>1. mode' = md /\ stack' = <<f>> /\ Len(<<f>>) = 1 /\ DOMAIN <<f>> = 1..1 /\ <<f>>[1] = f
  BY DEF Begin
<1>2. Unskewed'
  BY <1>1 DEF CopyInv, Unskewed
<1>3. ShortLoads'
  BY <1>1 DEF CopyInv, ShortLoads, RestModes
<1> QED BY <1>1, <1>2, <1>3, Zenon DEF CopyInv, PollLevels, Reached, Forgotten

(***************************************************************************)
(* A poll begins with everything still to be fetched.                      *)
(***************************************************************************)
LEMMA PollBegins ==
    ASSUME IInv, CopyInv, Begin("POLLING", Root, NewFrame(Root)), UNCHANGED <<tree, parentType, request>>
    PROVE  CopyInv'
<1> DEFINE f == NewFrame(Root)
<1>1. /\ mode' = "POLLING" /\ stack' = <<f>> /\ steady' = tree /\ present' = tree
      /\ Len(<<f>>) = 1 /\ DOMAIN <<f>> = 1..1 /\ <<f>>[1] = f
  BY DEF Begin
<1>2. f.uuid = Root /\ f.kinds = Collections(Root) /\ f.seen = {} /\ f.skewed = FALSE
  BY Zenon DEF NewFrame
<1>3. ASSUME NEW u \in Uuids PROVE Pending(<<f>>, u)
  <2>1. PICK c \in Path[u] : Parent[c] = Root
    BY ChainAssumption, Zenon
  <2>2. Kind[c] \in Collections(Root)
    BY <2>1, PathFacts, Zenon DEF Collections, Children
  <2> QED BY <1>1, <1>2, <2>1, <2>2 DEF Pending, Ahead
<1> HIDE DEF f
<1>4. Unskewed'
  BY <1>1, <1>2 DEF CopyInv, Unskewed
<1>5. ShortLoads'
  BY <1>1, Zenon DEF CopyInv, ShortLoads, RestModes
<1>6. PollLevels'
  BY <1>1, <1>2 DEF PollLevels
<1>7. \A u \in Uuids : Undecided(<<f>>, u)
  BY <1>3, Zenon DEF Pending, Undecided
<1> QED BY <1>1, <1>3, <1>4, <1>5, <1>6, <1>7, Zenon DEF CopyInv, Reached, Forgotten

(***************************************************************************)
(* The innermost level goes on: nothing steady is lost sight of, and what  *)
(* is neither fetched nor still ahead has not been touched.                *)
(***************************************************************************)
LEMMA ReplaceCopy ==
    ASSUME IInv, CopyInv, mode # "idle", NEW f \in Frame, f.uuid = Current.uuid,
           f.skewed = Current.skewed, f.seen = Current.seen, stack' = Replace(f),
           UNCHANGED <<tree, mode, model, parentType, request, steady, present>>, ~erred' => ~erred,
           mode = "POLLING" /\ ~erred' =>
               \A u \in Uuids : \A c \in Path[u] : Parent[c] = Current.uuid /\ Ahead(Current, c) =>
                   /\ Path[u] \subseteq steady => Ahead(f, c)
                   /\ Path[u] \subseteq model => u \in present \/ Ahead(f, c) \/ c \notin f.seen
    PROVE  CopyInv'
<1>1. /\ DOMAIN stack' = DOMAIN stack /\ Len(stack') = Len(stack)
      /\ \A i \in DOMAIN stack : stack'[i] = IF i = Len(stack) THEN f ELSE stack[i]
      /\ Len(stack) \in Nat \ {0} /\ Len(stack) \in DOMAIN stack /\ DOMAIN stack = 1..Len(stack)
  BY ReplaceType, CurrentType DEF IInv, TypeOK, WalkType
<1>2. \A i \in DOMAIN stack :
        /\ stack'[i].uuid = stack[i].uuid /\ stack'[i].skewed = stack[i].skewed
        /\ stack'[i].seen = stack[i].seen
  BY <1>1, Zenon DEF Current
<1>3. Unskewed'
  BY <1>1, <1>2, Zenon DEF CopyInv, Unskewed
<1>4. 1 \in DOMAIN stack /\ \A i \in 2..Len(stack) : i \in DOMAIN stack
  BY ONLY <1>1
<1>5. ShortLoads'
  BY <1>1, <1>2, <1>4, Zenon DEF CopyInv, ShortLoads
<1>6. PollLevels'
  BY <1>1, <1>2, <1>4, Zenon DEF CopyInv, PollLevels
<1>7. ASSUME mode = "POLLING", ~erred', NEW u \in Uuids, Path[u] \subseteq steady, u \notin model
      PROVE  Pending(stack', u)
  <2>1. Pending(stack, u)
    BY <1>7, Zenon DEF CopyInv, Reached
  <2>2. PICK i \in DOMAIN stack : \E c \in Path[u] : Parent[c] = stack[i].uuid /\ Ahead(stack[i], c)
    BY <2>1, Zenon DEF Pending
  <2>3. PICK c \in Path[u] : Parent[c] = stack[i].uuid /\ Ahead(stack[i], c)
    BY <2>2, Zenon
  <2>4. Ahead(stack'[i], c)
    BY <1>1, <1>7, <2>3, Zenon DEF Current
  <2> QED BY <1>1, <1>2, <2>3, <2>4, Zenon DEF Pending
<1>8. ASSUME mode = "POLLING", ~erred', NEW u \in Uuids, Path[u] \subseteq model, u \notin present
      PROVE  Undecided(stack', u)
  <2>1. Undecided(stack, u)
    BY <1>8, Zenon DEF CopyInv, Forgotten
  <2>2. PICK i \in DOMAIN stack :
          \E c \in Path[u] : Parent[c] = stack[i].uuid /\ (Ahead(stack[i], c) \/ c \notin stack[i].seen)
    BY <2>1, Zenon DEF Undecided
  <2>3. PICK c \in Path[u] : Parent[c] = stack[i].uuid /\ (Ahead(stack[i], c) \/ c \notin stack[i].seen)
    BY <2>2, Zenon
  <2>4. Ahead(stack'[i], c) \/ c \notin stack'[i].seen
    <3>1. CASE i = Len(stack)
      <4>1. stack'[i] = f /\ stack[i] = Current
        BY <1>1, <3>1, Zenon DEF Current
      <4> QED BY <1>8, <2>3, <4>1, Zenon
    <3>2. CASE i # Len(stack)
      BY <1>1, <2>3, <3>2, Zenon
    <3> QED BY <3>1, <3>2, Zenon
  <2> QED BY <1>1, <1>2, <2>3, <2>4, Zenon DEF Undecided
<1>9. Reached'
  BY <1>7, Zenon DEF Reached
<1>10. Forgotten'
  BY <1>8, Zenon DEF Forgotten
<1> QED BY <1>3, <1>5, <1>6, <1>9, <1>10, Zenon DEF CopyInv

(***************************************************************************)
(* The children of an ancestor of u on the path to u.                      *)
(***************************************************************************)
LEMMA NextDown ==
    ASSUME NEW u \in Uuids, NEW v \in Path[u], u # v
    PROVE  \E b \in Path[u] : b \in Uuids /\ Parent[b] = v /\ b \in Children(v) /\ Kind[b] \in Collections(v)
<1>1. PICK b \in Path[u] : Parent[b] = v
  BY ChainAssumption, Zenon
<1>2. b \in Children(v)
  BY <1>1, PathFacts, Zenon DEF Children
<1>3. b \in Uuids
  BY PathFacts, Zenon
<1> QED BY <1>1, <1>2, <1>3, Zenon DEF Collections

LEMMA EntryRefusedCopy ==
    ASSUME LeafCallbacks, IInv, EventInv, CopyInv, NEW v \in Uuids, EntryRefused(v)
    PROVE  CopyInv'
<1>1. /\ mode # "idle" /\ v \in Current.kids /\ Refused(v)
      /\ UNCHANGED <<tree, mode, model, parentType, request, steady, present, known, changes, downs>>
      /\ stack' = Replace(Skip(v))
  BY Zenon DEF EntryRefused, Fetching, Walking, agentVars, tableVars, threadVars
<1>2. ~erred' => ~erred /\ v \notin tree \cup {Root}
  BY <1>1, RefusedType, Zenon
<1>3. /\ Skip(v) \in Frame /\ Skip(v).uuid = Current.uuid /\ Skip(v).skewed = Current.skewed
      /\ Skip(v).kinds = Current.kinds /\ Skip(v).kids = Current.kids \ {v}
      /\ Skip(v).seen = Current.seen
  BY <1>1, SkipType, Zenon
<1>4. ASSUME mode = "POLLING", ~erred', NEW u \in Uuids, NEW c \in Path[u],
             Parent[c] = Current.uuid, Ahead(Current, c)
      PROVE  /\ Path[u] \subseteq steady => Ahead(Skip(v), c)
             /\ Path[u] \subseteq model => u \in present \/ Ahead(Skip(v), c) \/ c \notin Skip(v).seen
  <2>1. CASE c # v
    BY <1>3, <1>4, <2>1, Zenon DEF Ahead
  <2>2. CASE c = v
    <3>1. ~(Path[u] \subseteq steady)
      BY <1>2, <1>4, <2>2, Zenon DEF IInv, WalkInv
    <3>2. ASSUME c \in Skip(v).seen PROVE u \in present
      <4>1. v \in LateUuids
        BY <1>1, <1>3, <2>2, <3>2, CurrentLevel, Zenon DEF LevelInv
      <4>2. u = v
        BY <2>2, <4>1, NextDown, Zenon DEF LeafCallbacks
      <4>3. Current.seen \subseteq present
        BY <1>1, <1>4, CurrentType, Zenon DEF CopyInv, PollLevels, Current
      <4> QED BY <1>3, <2>2, <3>2, <4>2, <4>3, Zenon
    <3> QED BY <3>1, <3>2, Zenon
  <2> QED BY <2>1, <2>2, Zenon
<1> QED BY <1>1, <1>2, <1>3, <1>4, ReplaceCopy, Zenon

LEMMA ListCopy ==
    ASSUME IInv, EventInv, CopyInv, NEW k \in Kinds, ListFetched(k) \/ ListRefused(k)
    PROVE  CopyInv'
<1>1. /\ mode # "idle" /\ Current.kids = {} /\ k \in Current.kinds
      /\ UNCHANGED <<tree, mode, model, parentType, request, steady, present, known, changes, downs>>
  <2>1. CASE ListFetched(k)
    BY <2>1, Zenon DEF ListFetched, Listing, Walking, agentVars, tableVars, threadVars, historyVars
  <2>2. CASE ListRefused(k)
    BY <2>2, Zenon DEF ListRefused, Listing, Walking, agentVars, tableVars, threadVars
  <2> QED BY <2>1, <2>2, Zenon
<1> DEFINE S == IF ListFetched(k) THEN {w \in tree : Parent[w] = Current.uuid /\ Kind[w] = k} ELSE {}
<1>2. S \in SUBSET Uuids
  BY Zenon DEF IInv, TypeOK, AgentType
<1>3. stack' = Replace(Listed(k, S))
  BY Zenon DEF ListFetched, ListRefused
<1>4. ~erred' => ~erred /\ (ListFetched(k) \/ Current.uuid \notin tree \cup {Root})
  <2>1. CASE ListFetched(k)
    BY <2>1, Zenon DEF ListFetched, historyVars
  <2>2. CASE ListRefused(k)
    BY <1>1, <2>2, RefusedType, Zenon DEF ListRefused
  <2> QED BY <2>1, <2>2, Zenon
<1>5. /\ Listed(k, S) \in Frame /\ Listed(k, S).uuid = Current.uuid
      /\ Listed(k, S).kinds = Current.kinds \ {k} /\ Listed(k, S).kids = S
      /\ Listed(k, S).seen = Current.seen /\ Listed(k, S).skewed = Current.skewed
  <2> HIDE DEF S
  <2> QED BY <1>1, <1>2, ListedType, ZenonT(40)
<1>6. ASSUME mode = "POLLING", ~erred', NEW u \in Uuids, NEW c \in Path[u],
             Parent[c] = Current.uuid, Ahead(Current, c)
      PROVE  /\ Path[u] \subseteq steady => Ahead(Listed(k, S), c)
             /\ Path[u] \subseteq model =>
                  u \in present \/ Ahead(Listed(k, S), c) \/ c \notin Listed(k, S).seen
  <2>1. Kind[c] \in Current.kinds
    BY <1>1, <1>6, Zenon DEF Ahead
  <2>2. c \notin Current.seen
    BY <1>1, <2>1, CurrentLevel, Zenon DEF LevelInv
  <2>3. ASSUME Path[u] \subseteq steady PROVE Ahead(Listed(k, S), c)
    <3>1. c \in tree /\ c \in Uuids
      BY <2>3, PathFacts, Zenon DEF IInv, WalkInv
    <3>2. Parent[c] \in tree \cup {Root}
      BY <3>1, TreeFacts, Zenon DEF IInv, TypeOK, AgentType, Closed
    <3>3. ListFetched(k)
      BY <1>4, <1>6, <3>2, Zenon
    <3>4. Kind[c] = k => c \in S
      BY <1>6, <3>1, <3>3, Zenon
    <3> QED BY <1>5, <2>1, <3>4, Zenon DEF Ahead
  <2> QED BY <1>5, <2>2, <2>3, Zenon
<1> HIDE DEF S
<1> QED BY <1>1, <1>3, <1>4, <1>5, <1>6, ReplaceCopy, Zenon

LEMMA CollectionFetchedCopy ==
    ASSUME IInv, CopyInv, CollectionFetched
    PROVE  CopyInv'
<1> DEFINE f == [Current EXCEPT !.kind = NoKind]
<1>1. /\ mode # "idle" /\ stack' = Replace(f)
      /\ UNCHANGED <<tree, mode, model, parentType, request, steady, present, erred>>
  BY DEF CollectionFetched, Walking, agentVars, threadVars, historyVars
<1>2. /\ f \in Frame /\ f.uuid = Current.uuid /\ f.kinds = Current.kinds
      /\ f.kids = Current.kids /\ f.seen = Current.seen /\ f.skewed = Current.skewed
  BY <1>1, CurrentType DEF Frame
<1> HIDE DEF f
<1>3. \A c : Ahead(Current, c) => Ahead(f, c)
  BY <1>2, Zenon DEF Ahead
<1> QED BY <1>1, <1>2, <1>3, ReplaceCopy, Zenon

(***************************************************************************)
(* A member is fetched.  In a poll its URL can be built, so the walk goes  *)
(* down into it if it has collections.                                     *)
(***************************************************************************)
LEMMA FetchedTypes ==
    ASSUME IInv, CopyInv, NEW v \in Uuids, EntryFetched(v)
    PROVE  /\ mode # "idle" /\ v \in Current.kids /\ v \in tree
           /\ model' = model \cup {v} /\ \A u \in Uuids : parentType'[u] # "wrong"
           /\ UNCHANGED <<tree, mode, request, steady, present, erred>>
<1>1. /\ mode # "idle" /\ v \in Current.kids /\ v \in tree /\ Store(v, TypeOfParent)
      /\ UNCHANGED <<tree, mode, request, steady, present, erred>>
  BY Zenon DEF EntryFetched, Fetching, Walking, agentVars, threadVars, historyVars
<1>2. ~Current.skewed
  BY <1>1, CurrentType, Zenon DEF CopyInv, Unskewed, Current
<1>3. TypeOfParent # "wrong"
  BY <1>2 DEF TypeOfParent
<1>4. \A u \in Uuids : parentType'[u] # "wrong"
  BY <1>1, <1>3, Zenon DEF Store, CopyInv, Unskewed, IInv, TypeOK, TableType
<1> QED BY <1>1, <1>4, Zenon DEF Store

LEMMA FetchedPath ==
    ASSUME IInv, EventInv, CopyInv, NEW v \in Uuids, EntryFetched(v), mode = "POLLING"
    PROVE  Path[v] \subseteq model' /\ ~InvalidUrl(v)'
<1>1. /\ v \in Current.kids /\ mode # "idle"
      /\ model' = model \cup {v} /\ \A u \in Uuids : parentType'[u] # "wrong"
  BY FetchedTypes, Zenon
<1>2. Parent[v] = Current.uuid
  BY <1>1, CurrentLevel, Zenon DEF LevelInv
<1>3. Path[v] \subseteq model'
  BY <1>1, <1>2, RootedLevel, Zenon DEF CopyInv
<1>4. ASSUME NEW x \in Path[v], Stops(x)', parentType'[x] # "None" PROVE FALSE
  <2>1. x \in Uuids /\ Kind[x] \notin TopKinds
    BY <1>4, PathFacts, Zenon DEF Stops
  <2>2. Parent[x] # Root
    BY <2>1, TopAssumption
  <2>3. Parent[x] \in model'
    BY <1>3, <2>2, PathFacts, Zenon
  <2>4. parentType'[x] \in {"parent", "None", "wrong"}
    <3>1. parentType' \in [Uuids -> {"parent", "None", "wrong"}]
      BY EntryFetchedInv, Zenon DEF IInv, TypeOK, TableType
    <3> QED BY <2>1, <3>1, Zenon
  <2>5. parentType'[x] = "parent"
    BY <1>1, <1>4, <2>1, <2>4, Zenon
  <2> QED BY <1>4, <2>3, <2>5, Zenon DEF Stops
<1>5. ~InvalidUrl(v)'
  BY <1>4, Zenon DEF InvalidUrl, FirstStop
<1> QED BY <1>3, <1>5, Zenon

LEMMA FetchedStack ==
    ASSUME IInv, EventInv, CopyInv, NEW v \in Uuids, EntryFetched(v)
    PROVE  LET done == Touched(Skip(v), v) IN
           /\ done \in Frame /\ done.uuid = Current.uuid /\ done.skewed = Current.skewed
           /\ done.kinds = Current.kinds /\ done.kids = Current.kids \ {v}
           /\ done.seen = Current.seen \cup {v}
           /\ DOMAIN stack = 1..Len(stack) /\ Len(stack) \in Nat \ {0}
           /\ \A i \in DOMAIN stack :
                 i \in DOMAIN stack' /\ stack'[i] = IF i = Len(stack) THEN done ELSE stack[i]
           /\ \/ DOMAIN stack' = DOMAIN stack /\ Len(stack') = Len(stack)
                 /\ (mode = "POLLING" => Collections(v) = {})
              \/ /\ DOMAIN stack' = DOMAIN stack \cup {Len(stack) + 1} /\ Len(stack') = Len(stack) + 1
                 /\ stack'[Len(stack) + 1] = NewFrame(v)
                 /\ Recursive /\ Collections(v) # {}
<1> DEFINE done == Touched(Skip(v), v)
           n == Len(stack)
<1>1. mode # "idle"
  BY FetchedTypes, Zenon
<1>2. /\ done \in Frame /\ done.uuid = Current.uuid /\ done.skewed = Current.skewed
      /\ done.kinds = Current.kinds /\ done.kids = Current.kids \ {v}
      /\ done.seen = Current.seen \cup {v}
  BY <1>1, SkipType DEF Touched, Frame
<1>3. /\ \/ stack' = Replace(done)
         \/ Recursive /\ Collections(v) # {} /\ stack' = Append(Replace(done), NewFrame(v))
      /\ mode = "POLLING" /\ Collections(v) # {} => stack' = Append(Replace(done), NewFrame(v))
  <2>1. PICK throws \in IF ~InvalidUrl(v)' THEN {FALSE}
                       ELSE IF v \in model THEN BOOLEAN ELSE {TRUE} :
          stack' = IF throws \/ ~Recursive \/ Collections(v) = {}
                   THEN Replace(done) ELSE Append(Replace(done), NewFrame(v))
    BY Zenon DEF EntryFetched
  <2>2. mode = "POLLING" => ~throws /\ Recursive
    BY <2>1, FetchedPath, Zenon DEF Recursive
  <2> QED BY <2>1, <2>2, Zenon
<1> HIDE DEF done
<1>4. /\ Replace(done) \in Seq(Frame) /\ DOMAIN Replace(done) = DOMAIN stack /\ Len(Replace(done)) = n
      /\ \A i \in DOMAIN stack : Replace(done)[i] = IF i = n THEN done ELSE stack[i]
      /\ DOMAIN stack = 1..n /\ n \in Nat \ {0}
  <2>1. /\ Replace(done) \in Seq(Frame) /\ DOMAIN Replace(done) = DOMAIN stack /\ Len(Replace(done)) = n
        /\ \A i \in DOMAIN stack : Replace(done)[i] = IF i = n THEN done ELSE stack[i]
    BY <1>1, <1>2, ReplaceType, Zenon
  <2>2. stack \in Seq(Frame) /\ n \in Nat \ {0}
    BY <1>1, CurrentType, Zenon DEF IInv, TypeOK, WalkType
  <2>3. DOMAIN stack = 1..n
    BY ONLY <2>2
  <2> QED BY <2>1, <2>2, <2>3, Zenon
<1>5. CASE stack' = Replace(done)
  <2>1. DOMAIN stack' = DOMAIN stack /\ Len(stack') = n
    BY <1>4, <1>5, Zenon
  <2>2. mode = "POLLING" => Collections(v) = {}
    <3>1. Len(Append(Replace(done), NewFrame(v))) = n + 1
      <4>1. \A s \in Seq(Frame), g \in Frame : Len(Append(s, g)) = Len(s) + 1
        OBVIOUS
      <4> QED BY <1>4, <4>1, NewFrameType, Zenon
    <3>2. n + 1 # n
      <4>1. \A m \in Nat : m + 1 # m
        OBVIOUS
      <4> QED BY <1>4, <4>1, Zenon
    <3> QED BY <1>3, <2>1, <3>1, <3>2, Zenon
  <2> QED BY <1>2, <1>4, <1>5, <2>1, <2>2, Zenon DEF done
<1>6. CASE Recursive /\ Collections(v) # {} /\ stack' = Append(Replace(done), NewFrame(v))
  <2>0. NewFrame(v) \in Frame
    BY NewFrameType, Zenon
  <2>1. /\ Len(stack') = n + 1 /\ DOMAIN stack' = 1..(n + 1) /\ stack'[n + 1] = NewFrame(v)
        /\ \A i \in DOMAIN stack : stack'[i] = Replace(done)[i]
    BY ONLY <1>4, <1>6, <2>0
  <2>2. DOMAIN stack' = DOMAIN stack \cup {n + 1}
    BY ONLY <1>4, <2>1
  <2> QED BY <1>2, <1>4, <1>6, <2>1, <2>2, Zenon DEF done
<1> QED BY <1>3, <1>5, <1>6, Zenon

LEMMA EntryFetchedCopy ==
    ASSUME ShallowCreates, IInv, EventInv, CopyInv, NEW v \in Uuids, EntryFetched(v)
    PROVE  CopyInv'
<1> DEFINE done == Touched(Skip(v), v)
           n == Len(stack)
<1>1. /\ mode # "idle" /\ v \in Current.kids /\ v \in tree
      /\ model' = model \cup {v} /\ \A u \in Uuids : parentType'[u] # "wrong"
      /\ UNCHANGED <<tree, mode, request, steady, present, erred>>
  BY FetchedTypes, Zenon
<1>2. Parent[v] = Current.uuid /\ Current = stack[n]
  BY <1>1, CurrentLevel, Zenon DEF LevelInv, Current
<1>3. /\ done.uuid = Current.uuid /\ done.skewed = Current.skewed
      /\ done.kinds = Current.kinds /\ done.kids = Current.kids \ {v}
      /\ done.seen = Current.seen \cup {v}
      /\ DOMAIN stack = 1..n /\ n \in Nat \ {0}
      /\ \A i \in DOMAIN stack :
            i \in DOMAIN stack' /\ stack'[i] = IF i = n THEN done ELSE stack[i]
  BY FetchedStack, Zenon
<1>4. \/ DOMAIN stack' = DOMAIN stack /\ Len(stack') = n /\ (mode = "POLLING" => Collections(v) = {})
      \/ /\ DOMAIN stack' = DOMAIN stack \cup {n + 1} /\ Len(stack') = n + 1
         /\ stack'[n + 1] = NewFrame(v) /\ Recursive /\ Collections(v) # {}
  BY FetchedStack, Zenon
<1>5. NewFrame(v).uuid = v /\ NewFrame(v).seen = {} /\ NewFrame(v).skewed = FALSE
      /\ NewFrame(v).kinds = Collections(v)
  BY Zenon DEF NewFrame
<1> HIDE DEF done
<1>6. \A i \in DOMAIN stack : stack'[i].uuid = stack[i].uuid /\ stack'[i].skewed = stack[i].skewed
  BY <1>2, <1>3, Zenon
<1>7. Unskewed'
  <2>1. ASSUME NEW i \in DOMAIN stack' PROVE ~stack'[i].skewed
    BY <1>4, <1>5, <1>6, Zenon DEF CopyInv, Unskewed
  <2> QED BY <1>1, <2>1, Zenon DEF Unskewed
<1>8. 1 \in DOMAIN stack /\ stack'[1].uuid = stack[1].uuid
  BY ONLY <1>3, <1>6
<1>9. ShortLoads'
  <2>1. ASSUME mode = "LOADING", n = 2, Recursive PROVE Collections(v) = {}
    <3>1. request.op = "create"
      BY <2>1 DEF Recursive
    <3>2. "create" \in RequestTypes /\ stack[1].uuid # Root
      BY <2>1, <3>1, Zenon DEF CopyInv, ShortLoads
    <3>3. stack[2].uuid \in stack[1].seen /\ Parent[stack[2].uuid] = stack[1].uuid
      <4>1. 2 \in 2..Len(stack) /\ 2 - 1 = 1
        BY <2>1
      <4> QED BY <4>1, Zenon DEF EventInv, Leads
    <3>4. stack[1] \in Frame
      BY <1>8 DEF IInv, TypeOK, WalkType
    <3>5. stack[2].uuid \in Uuids
      BY <3>3, <3>4, Zenon DEF Frame
    <3>6. v \in Children(stack[2].uuid)
      BY <1>2, <2>1 DEF Children
    <3>7. Children(v) = {}
      BY <3>2, <3>3, <3>5, <3>6, Zenon DEF ShallowCreates
    <3> QED BY <3>7, Zenon DEF Collections
  <2>2. mode = "LOADING" => Len(stack') < 3
    <3>1. mode = "LOADING" => n < 3
      BY Zenon DEF CopyInv, ShortLoads
    <3>2. CASE Len(stack') = n
      BY <3>1, <3>2
    <3>3. CASE Len(stack') = n + 1 /\ Recursive /\ Collections(v) # {}
      <4>1. mode = "LOADING" => n # 2
        BY <2>1, <3>3
      <4> QED BY <1>3, <3>1, <3>3, <4>1
    <3> QED BY <1>4, <3>2, <3>3
  <2>3. mode = "UPDATE" => Len(stack') = 1
    <3>1. mode = "UPDATE" => n = 1 /\ ~Recursive
      BY Zenon DEF CopyInv, ShortLoads, Recursive
    <3> QED BY <1>4, <3>1
  <2> QED BY <1>1, <1>8, <2>2, <2>3, Zenon DEF CopyInv, ShortLoads
<1>10. PollLevels'
  <2>1. SUFFICES ASSUME mode = "POLLING"
                 PROVE  /\ stack'[1].uuid = Root
                        /\ \A i \in 2..Len(stack') : Path[stack'[i].uuid] \subseteq model'
                        /\ tree' \subseteq present'
                        /\ \A i \in DOMAIN stack' : stack'[i].seen \subseteq present'
    BY <1>1, Zenon DEF PollLevels
  <2>2. /\ stack[1].uuid = Root /\ \A i \in 2..n : Path[stack[i].uuid] \subseteq model
        /\ tree \subseteq present /\ \A i \in DOMAIN stack : stack[i].seen \subseteq present
    BY <2>1, Zenon DEF CopyInv, PollLevels
  <2>3. Path[v] \subseteq model'
    BY <2>1, FetchedPath
  <2>4. ASSUME NEW i \in 2..Len(stack') PROVE Path[stack'[i].uuid] \subseteq model'
    <3>1. CASE i \in 2..n
      <4>1. i \in DOMAIN stack
        BY <1>3, <3>1
      <4> QED BY <1>1, <1>6, <2>2, <3>1, <4>1, Zenon
    <3>2. CASE i \notin 2..n
      <4>1. i = n + 1 /\ stack'[i] = NewFrame(v)
        BY <1>3, <1>4, <3>2
      <4> QED BY <1>5, <2>3, <4>1, Zenon
    <3> QED BY <3>1, <3>2, Zenon
  <2>5. ASSUME NEW i \in DOMAIN stack' PROVE stack'[i].seen \subseteq present'
    <3>1. CASE i \in DOMAIN stack
      <4>1. stack'[i].seen \subseteq stack[i].seen \cup {v}
        BY <1>2, <1>3, <3>1, Zenon
      <4> QED BY <1>1, <2>2, <3>1, <4>1, Zenon
    <3>2. CASE i \notin DOMAIN stack
      BY <1>4, <1>5, <3>2, Zenon
    <3> QED BY <3>1, <3>2, Zenon
  <2> QED BY <1>1, <1>8, <2>2, <2>4, <2>5, Zenon
<1>11. ASSUME mode = "POLLING", NEW u \in Uuids, v \in Path[u], u # v PROVE Pending(stack', u)
  <2>1. PICK b \in Path[u] : Parent[b] = v /\ Kind[b] \in Collections(v)
    BY <1>11, NextDown, Zenon
  <2>2. n + 1 \in DOMAIN stack' /\ stack'[n + 1] = NewFrame(v)
    BY <1>4, <1>11, <2>1, Zenon
  <2> QED BY <1>5, <2>1, <2>2, Zenon DEF Pending, Ahead
<1>12. ASSUME NEW i \in DOMAIN stack, NEW c, c # v
       PROVE  /\ Ahead(stack[i], c) => Ahead(stack'[i], c)
              /\ c \notin stack[i].seen => c \notin stack'[i].seen
  BY <1>2, <1>3, <1>12, Zenon DEF Ahead
<1>13. Reached'
  <2>1. SUFFICES ASSUME mode = "POLLING", ~erred, NEW u \in Uuids, Path[u] \subseteq steady, u \notin model'
                 PROVE  Pending(stack', u)
    BY <1>1, Zenon DEF Reached
  <2>2. CASE v \in Path[u]
    BY <1>1, <1>11, <2>1, <2>2, Zenon
  <2>3. CASE v \notin Path[u]
    <3>1. Pending(stack, u)
      BY <1>1, <2>1, Zenon DEF CopyInv, Reached
    <3> QED BY <1>3, <1>6, <1>12, <2>3, <3>1, Zenon DEF Pending
  <2> QED BY <2>2, <2>3, Zenon
<1>14. Forgotten'
  <2>1. SUFFICES ASSUME mode = "POLLING", ~erred, NEW u \in Uuids, Path[u] \subseteq model', u \notin present
                 PROVE  Undecided(stack', u)
    BY <1>1, Zenon DEF Forgotten
  <2>2. CASE v \in Path[u]
    <3>1. v \in present
      BY <1>1, <2>1, Zenon DEF CopyInv, PollLevels
    <3>2. Pending(stack', u)
      BY <1>11, <2>1, <2>2, <3>1, Zenon
    <3> QED BY <3>2, Zenon DEF Pending, Undecided
  <2>3. CASE v \notin Path[u]
    <3>1. Path[u] \subseteq model
      BY <1>1, <2>1, <2>3, Zenon
    <3>2. Undecided(stack, u)
      BY <2>1, <3>1, Zenon DEF CopyInv, Forgotten
    <3> QED BY <1>3, <1>6, <1>12, <2>3, <3>2, Zenon DEF Undecided
  <2> QED BY <2>2, <2>3
<1> QED BY <1>7, <1>9, <1>10, <1>13, <1>14 DEF CopyInv

(***************************************************************************)
(* A level of a poll without failed calls is done: what is still to be     *)
(* fetched or to be decided is so at an outer level.                       *)
(***************************************************************************)
LEMMA PollLevelDone ==
    ASSUME IInv, CopyInv, mode = "POLLING", ~erred, LevelFetched, NEW u \in Uuids
    PROVE  /\ Path[u] \subseteq steady /\ u \notin model' =>
                \E i \in DOMAIN stack : i # Len(stack)
                    /\ \E c \in Path[u] : Parent[c] = stack[i].uuid /\ Ahead(stack[i], c)
           /\ Path[u] \subseteq model' /\ u \notin present =>
                \E i \in DOMAIN stack : i # Len(stack)
                    /\ \E c \in Path[u] : Parent[c] = stack[i].uuid
                                            /\ (Ahead(stack[i], c) \/ c \notin stack[i].seen)
<1>1. \A c \in Uuids : ~Ahead(Current, c)
  BY Zenon DEF LevelFetched, Ahead
<1>2. \A c \in Path[u] : c \in Uuids
  BY PathFacts, Zenon
<1>3. PICK D \in DoRemove(Untouched) : model' = model \ D
  BY Zenon DEF LevelFetched
<1>4. D = Visited(Untouched)
  BY PollNeverThrows, Zenon DEF DoRemove, CopyInv
<1>5. ASSUME NEW c \in Uuids, c \in model, Parent[c] = Current.uuid, c \notin Current.seen
      PROVE  c \notin model'
  <2>1. c \in Untouched
    BY <1>5, Zenon DEF Untouched
  <2>2. c \in Below(c) /\ Linked(c, c)
    BY TreeAssumption, Zenon DEF Below, Linked
  <2>3. c \in Visited(Untouched)
    BY <1>5, <2>1, <2>2 DEF Visited
  <2> QED BY <1>3, <1>4, <2>3
<1>6. ASSUME Path[u] \subseteq steady, u \notin model'
      PROVE  \E i \in DOMAIN stack : i # Len(stack)
                 /\ \E c \in Path[u] : Parent[c] = stack[i].uuid /\ Ahead(stack[i], c)
  <2>1. u \notin model
    BY <1>6, UntouchedNotSteady
  <2>2. Pending(stack, u)
    BY <1>6, <2>1, Zenon DEF CopyInv, Reached
  <2> QED BY <1>1, <1>2, <2>2, Zenon DEF Pending, Current
<1>7. ASSUME Path[u] \subseteq model', u \notin present
      PROVE  \E i \in DOMAIN stack : i # Len(stack)
                 /\ \E c \in Path[u] : Parent[c] = stack[i].uuid
                                         /\ (Ahead(stack[i], c) \/ c \notin stack[i].seen)
  <2>1. Path[u] \subseteq model
    BY <1>3, <1>7, Zenon
  <2>2. Undecided(stack, u)
    BY <1>7, <2>1, Zenon DEF CopyInv, Forgotten
  <2>3. PICK i \in DOMAIN stack : \E c \in Path[u] :
          Parent[c] = stack[i].uuid /\ (Ahead(stack[i], c) \/ c \notin stack[i].seen)
    BY <2>2, Zenon DEF Undecided
  <2>4. PICK c \in Path[u] : Parent[c] = stack[i].uuid /\ (Ahead(stack[i], c) \/ c \notin stack[i].seen)
    BY <2>3, Zenon
  <2>5. i # Len(stack)
    <3>1. SUFFICES ASSUME i = Len(stack) PROVE FALSE
      OBVIOUS
    <3>2. stack[i] = Current
      BY <3>1 DEF Current
    <3> QED BY <1>1, <1>2, <1>5, <1>7, <2>1, <2>4, <3>2, Zenon
  <2> QED BY <2>4, <2>5, Zenon
<1> QED BY <1>6, <1>7, Zenon

(***************************************************************************)
(* No exception leaves an extra entry on Context::stack.                   *)
(***************************************************************************)
LEMMA LevelEndsWell ==
    ASSUME IInv, CopyInv, LevelFetched,
           Len(stack) > 1, ~(mode = "LOADING" /\ Len(stack) = 2 /\ Throws(Untouched))
    PROVE  ~Throws(Untouched)
<1>1. mode \in {"POLLING", "ADD", "UPDATE", "LOADING"}
  BY Zenon DEF LevelFetched, Walking, IInv, TypeOK, WalkType, WatcherModes, RestModes
<1>2. CASE mode = "POLLING"
  BY <1>2, PollNeverThrows DEF CopyInv
<1>3. CASE mode = "ADD"
  BY <1>3, Zenon DEF Untouched, Throws, Visited
<1>4. CASE mode = "UPDATE"
  BY <1>4 DEF CopyInv, ShortLoads
<1>5. CASE mode = "LOADING"
  <2>1. Len(stack) \in Nat /\ Len(stack) < 3
    BY <1>5, CurrentType, Zenon DEF CopyInv, ShortLoads
  <2>2. \A n \in Nat : n > 1 /\ n < 3 => n = 2
    OBVIOUS
  <2>3. Len(stack) = 2
    BY <2>1, <2>2, Zenon
  <2> QED BY <1>5, <2>3
<1> QED BY <1>1, <1>2, <1>3, <1>4, <1>5

(***************************************************************************)
(* remove_untouched takes nothing on the way to the levels of the walk.    *)
(***************************************************************************)
LEMMA UntouchedBeside ==
    ASSUME IInv, EventInv, mode # "idle", NEW D \in DoRemove(Untouched), NEW i \in 2..Len(stack)
    PROVE  Path[stack[i].uuid] \cap D = {}
<1> DEFINE n == Len(stack)
           e == stack[i].uuid
<1>1. n \in Nat /\ n \in 2..n /\ n - 1 \in DOMAIN stack /\ i - 1 \in DOMAIN stack /\ i \in 2..n /\ stack[n] = Current
  <2>1. stack \in Seq(Frame)
    BY DEF IInv, TypeOK, WalkType
  <2> QED BY <2>1 DEF Current
<1>2. ASSUME NEW j \in DOMAIN stack PROVE stack[j].seen \subseteq Uuids
  <2>1. stack[j] \in Frame
    BY DEF IInv, TypeOK, WalkType
  <2> QED BY <2>1, Zenon DEF Frame
<1>3. e \in Uuids /\ Current.uuid \in Uuids /\ e \in Path[Current.uuid]
  <2>1. e \in stack[i - 1].seen /\ stack[n].uuid \in stack[n - 1].seen /\ e \in Path[stack[n].uuid]
    BY <1>1, Zenon DEF EventInv, Leads
  <2> QED BY <1>1, <1>2, <2>1, Zenon
<1>4. SUFFICES ASSUME NEW d \in D, d \in Path[e] PROVE FALSE
  BY Zenon
<1>5. PICK w \in Path[d] : Parent[w] = Current.uuid
  BY UntouchedBehind, Zenon
<1>6. w \in Path[Current.uuid]
  BY <1>3, <1>4, <1>5, PathFacts
<1>7. w \in Uuids /\ w \in Path[w] /\ Parent[w] # Root
  BY <1>3, <1>5, <1>6, TreeAssumption
<1> QED BY <1>5, <1>6, <1>7, PathFacts, Zenon

LEMMA LevelFetchedCopy ==
    ASSUME IInv, EventInv, CopyInv, LevelFetched
    PROVE  CopyInv'
<1> DEFINE pops == Len(stack) > 1 /\ ~(mode = "LOADING" /\ Len(stack) = 2 /\ Throws(Untouched))
<1>0. mode # "idle" /\ UNCHANGED <<tree, parentType>>
  BY Zenon DEF LevelFetched, Walking, agentVars
<1>1. PICK D \in DoRemove(Untouched) :
        /\ model' = model \ D
        /\ IF pops
           THEN /\ stack' = IF Throws(Untouched) THEN Skewed(Outer) ELSE Outer
                /\ UNCHANGED <<mode, historyVars, request>>
           ELSE EndWalk /\ request' = IF mode = "LOADING" THEN NoRequest ELSE request
  BY Zenon DEF LevelFetched, Outer
<1>2. CASE ~pops
  BY <1>0, <1>1, <1>2, EndCopy, Zenon
<1>3. CASE pops
  <2>1. stack' = Outer /\ UNCHANGED <<mode, steady, present, erred, request>>
    BY <1>1, <1>3, LevelEndsWell, Zenon DEF historyVars
  <2>2. PICK t : t = stack'
    OBVIOUS
  <2>3. /\ Len(t) = Len(stack) - 1 /\ DOMAIN t = 1..(Len(stack) - 1)
        /\ \A i \in DOMAIN t : i \in DOMAIN stack /\ t[i] = stack[i]
    BY <1>0, <1>3, <2>1, <2>2, OuterFrames, Zenon
  <2>4. /\ Len(stack) \in Nat /\ DOMAIN stack = 1..Len(stack) /\ 1 \in DOMAIN t /\ t[1] = stack[1]
        /\ \A i \in DOMAIN stack : i # Len(stack) => i \in DOMAIN t
        /\ \A i \in 2..Len(t) : i \in DOMAIN t /\ i \in 2..Len(stack)
    <3>1. Len(stack) \in Nat /\ DOMAIN stack = 1..Len(stack)
      BY DEF IInv, TypeOK, WalkType
    <3> QED BY <1>3, <2>3, <3>1
  <2>5. Unskewed'
    BY <1>0, <2>2, <2>3, Zenon DEF CopyInv, Unskewed
  <2>6. ShortLoads'
    <3>1. mode # "UPDATE"
      BY <1>3 DEF CopyInv, ShortLoads
    <3>2. mode = "LOADING" => Len(t) < 3
      BY <2>3, <2>4 DEF CopyInv, ShortLoads
    <3> QED BY <2>1, <2>2, <2>4, <3>1, <3>2, Zenon DEF CopyInv, ShortLoads
  <2>7. PollLevels'
    <3>1. ASSUME mode = "POLLING", NEW i \in 2..Len(t) PROVE Path[t[i].uuid] \subseteq model'
      <4>1. Path[stack[i].uuid] \subseteq model
        BY <2>4, <3>1, Zenon DEF CopyInv, PollLevels
      <4>2. i \in 2..Len(stack)
        BY <2>4, Zenon
      <4>3. Path[stack[i].uuid] \cap D = {}
        BY ONLY IInv, EventInv, <1>0, <1>1, <4>2, UntouchedBeside, Zenon
      <4> QED BY <1>1, <2>3, <2>4, <4>1, <4>3, Zenon
    <3> QED BY <1>0, <2>1, <2>2, <2>3, <2>4, <3>1, Zenon DEF CopyInv, PollLevels
  <2>8. Reached'
    <3>1. SUFFICES ASSUME mode = "POLLING", ~erred, NEW u \in Uuids, Path[u] \subseteq steady, u \notin model'
                   PROVE  Pending(t, u)
      BY <2>1, <2>2, Zenon DEF Reached
    <3>2. PICK i \in DOMAIN stack : i # Len(stack)
            /\ \E c \in Path[u] : Parent[c] = stack[i].uuid /\ Ahead(stack[i], c)
      BY <3>1, PollLevelDone, Zenon
    <3> QED BY <2>3, <2>4, <3>2, Zenon DEF Pending
  <2>9. Forgotten'
    <3>1. SUFFICES ASSUME mode = "POLLING", ~erred, NEW u \in Uuids, Path[u] \subseteq model', u \notin present
                   PROVE  Undecided(t, u)
      BY <2>1, <2>2, Zenon DEF Forgotten
    <3>2. PICK i \in DOMAIN stack : i # Len(stack)
            /\ \E c \in Path[u] : Parent[c] = stack[i].uuid
                                    /\ (Ahead(stack[i], c) \/ c \notin stack[i].seen)
      BY <3>1, PollLevelDone, Zenon
    <3> QED BY <2>3, <2>4, <3>2, Zenon DEF Undecided
  <2> QED BY <2>5, <2>6, <2>7, <2>8, <2>9 DEF CopyInv
<1> QED BY <1>2, <1>3

(***************************************************************************)
(* A callback stores a resource: a leaf, so nothing but itself comes to    *)
(* have all its ancestors.                                                 *)
(***************************************************************************)
LEMMA LateStoreCopy ==
    ASSUME LeafCallbacks, IInv, CopyInv, NEW w \in LateUuids, LateStore(w)
    PROVE  CopyInv'
<1>1. /\ w \in Uuids /\ stack' = Touch(w) /\ model' = model \cup {w}
      /\ parentType' = [parentType EXCEPT ![w] = "parent"]
      /\ mode = "POLLING" => steady' = steady \cup ({w} \cap tree) /\ present' = present \cup {w}
      /\ UNCHANGED <<tree, mode, erred, request>>
  BY RequestAssumption, Zenon DEF LateStore, Store, agentVars
<1>2. /\ DOMAIN stack' = DOMAIN stack /\ Len(stack') = Len(stack)
      /\ \A i \in DOMAIN stack :
            /\ stack'[i].uuid = stack[i].uuid /\ stack'[i].kinds = stack[i].kinds
            /\ stack'[i].kids = stack[i].kids /\ stack'[i].skewed = stack[i].skewed
            /\ stack'[i].seen \subseteq stack[i].seen \cup {w}
  BY <1>1, TouchFacts, Zenon
<1>3. stack \in Seq(Frame) /\ DOMAIN stack = 1..Len(stack) /\ Len(stack) \in Nat
  BY DEF IInv, TypeOK, WalkType
<1>4. mode # "idle" => 1 \in DOMAIN stack
  BY <1>3 DEF IInv, WalkInv
<1>5. \A i \in 2..Len(stack) : i \in DOMAIN stack
  BY <1>3
<1>6. ASSUME NEW u \in Uuids, w \in Path[u] PROVE u = w
  BY <1>6, NextDown, Zenon DEF LeafCallbacks
<1>7. Unskewed'
  BY <1>1, <1>2, Zenon DEF CopyInv, Unskewed, IInv, TypeOK, TableType
<1>8. ShortLoads'
  BY <1>1, <1>2, <1>4, Zenon DEF CopyInv, ShortLoads
<1>9. PollLevels'
  BY <1>1, <1>2, <1>4, <1>5, Zenon DEF CopyInv, PollLevels
<1>10. Reached'
  <2>1. SUFFICES ASSUME mode = "POLLING", ~erred, NEW u \in Uuids, Path[u] \subseteq steady', u \notin model'
                 PROVE  Pending(stack', u)
    BY <1>1, Zenon DEF Reached
  <2>2. w \notin Path[u]
    BY <1>1, <1>6, <2>1, Zenon
  <2>3. Pending(stack, u)
    BY <1>1, <2>1, <2>2, Zenon DEF CopyInv, Reached
  <2> QED BY <1>2, <2>3, Zenon DEF Pending, Ahead
<1>11. Forgotten'
  <2>1. SUFFICES ASSUME mode = "POLLING", ~erred, NEW u \in Uuids, Path[u] \subseteq model', u \notin present'
                 PROVE  Undecided(stack', u)
    BY <1>1, Zenon DEF Forgotten
  <2>2. w \notin Path[u]
    BY <1>1, <1>6, <2>1, Zenon
  <2>3. Undecided(stack, u)
    BY <1>1, <2>1, <2>2, Zenon DEF CopyInv, Forgotten
  <2>4. PICK i \in DOMAIN stack :
          \E c \in Path[u] : Parent[c] = stack[i].uuid /\ (Ahead(stack[i], c) \/ c \notin stack[i].seen)
    BY <2>3, Zenon DEF Undecided
  <2>5. PICK c \in Path[u] : Parent[c] = stack[i].uuid /\ (Ahead(stack[i], c) \/ c \notin stack[i].seen)
    BY <2>4, Zenon
  <2>6. Ahead(stack'[i], c) \/ c \notin stack'[i].seen
    BY <1>2, <2>2, <2>5, Zenon DEF Ahead
  <2> QED BY <1>2, <2>5, <2>6, Zenon DEF Undecided
<1> QED BY <1>7, <1>8, <1>9, <1>10, <1>11 DEF CopyInv

-----------------------------------------------------------------------------
(***************************************************************************)
(* Calls that are not answered, and the removal of an agent's resources.   *)
(***************************************************************************)
LEMMA UnreachableCopy ==
    ASSUME IInv, EventInv, CopyInv, Unreachable
    PROVE  CopyInv'
<1>0. Walking /\ mode # "idle" /\ UNCHANGED <<tree, parentType>>
  BY Zenon DEF Unreachable, Walking, agentVars
<1>1. PICK f \in {Skip(v) : v \in Current.kids}
                \cup {Listed(k, {}) : k \in {k \in Current.kinds : Listing(k)}} :
        IF failing = "old"
        THEN stack' = Replace(f) /\ erred' = TRUE /\ UNCHANGED <<model, mode, steady, present, request>>
        ELSE Abort({})
  BY Zenon DEF Unreachable
<1>2. CASE failing # "old"
  BY <1>0, <1>1, <1>2, EndCopy, Zenon DEF Abort
<1>3. CASE failing = "old"
  <2>1. Current \in Frame
    BY <1>0, CurrentType, Zenon
  <2>2. f \in Frame /\ f.uuid = Current.uuid /\ f.seen = Current.seen /\ f.skewed = Current.skewed
    <3>1. CASE f \in {Skip(v) : v \in Current.kids}
      BY <1>0, <2>1, <3>1, SkipType, Zenon
    <3>2. CASE f \in {Listed(k, {}) : k \in {k \in Current.kinds : Listing(k)}}
      <4>1. PICK k \in Current.kinds : f = Listed(k, {})
        BY <3>2
      <4>2. k \in Kinds /\ {} \subseteq Uuids
        BY <2>1 DEF Frame
      <4> QED BY <1>0, <4>1, <4>2, ListedType, ZenonT(40)
    <3> QED BY <1>1, <3>1, <3>2, Zenon
  <2> QED BY <1>0, <1>1, <1>3, <2>2, ReplaceCopy, Zenon
<1> QED BY <1>2, <1>3, Zenon

LEMMA CleanKindCopy ==
    ASSUME IInv, EventInv, CopyInv, NEW k \in Kinds, CleanKind(k)
    PROVE  CopyInv'
<1>1. /\ cleaning # NotCleaning
      /\ UNCHANGED <<tree, parentType, mode, stack, erred, steady, present, request>>
  BY Zenon DEF CleanKind, agentVars, walkVars, historyVars, threadVars
<1>2. Len(stack) \in Nat /\ ~(Len(stack) > 1)
  BY <1>1 DEF EventInv, QuietBefore, IInv, WalkInv, TypeOK, WalkType
<1>3. 2..Len(stack) = {}
  BY <1>2
<1>4. mode = "POLLING" => erred
  BY <1>1 DEF IInv, WalkInv
<1>5. Unskewed' /\ ShortLoads'
  BY <1>1, Zenon DEF CopyInv, Unskewed, ShortLoads
<1>6. PollLevels'
  BY <1>1, <1>3, Zenon DEF CopyInv, PollLevels
<1> QED BY <1>1, <1>4, <1>5, <1>6, Zenon DEF CopyInv, Reached, Forgotten

-----------------------------------------------------------------------------
(***************************************************************************)
(* The steps of the agent, the watcher and the REST threads.               *)
(***************************************************************************)
LEMMA AgentCopy ==
    ASSUME IInv, CopyInv, AgentStep \/ Age \/ Attach
    PROVE  CopyInv'
<1>1. UNCHANGED <<mode, stack, erred, model, parentType, request>>
  <2>1. CASE AgentStep
    BY <2>1, Zenon DEF AgentStep, AgentAdds, AgentRemoves, AgentUpdates, GoDown, ComeUp, walkVars,
                historyVars, tableVars, threadVars
  <2>2. CASE Age \/ Attach
    BY <2>2, Zenon DEF Age, Attach, walkVars, historyVars, tableVars, threadVars
  <2> QED BY <2>1, <2>2
<1>2. ASSUME mode = "POLLING"
      PROVE  steady' \subseteq steady /\ present \subseteq present' /\ tree' \subseteq present'
  <2>1. ASSUME NEW T, Change(T) PROVE steady' \subseteq steady /\ present \subseteq present' /\ tree' \subseteq present'
    BY <1>2, <2>1 DEF Change
  <2>2. CASE UNCHANGED <<tree, steady, present>>
    BY <1>2, <2>2, Zenon DEF CopyInv, PollLevels
  <2>3. CASE AgentStep
    <3>1. CASE \E u \in Uuids : AgentAdds(u) \/ AgentRemoves(u) \/ AgentUpdates(u)
      BY <2>1, <3>1, Zenon DEF AgentAdds, AgentRemoves, AgentUpdates
    <3>2. CASE GoDown \/ ComeUp
      BY <2>2, <3>2, Zenon DEF GoDown, ComeUp, walkVars, historyVars
    <3> QED BY <2>3, <3>1, <3>2 DEF AgentStep
  <2>4. CASE Age \/ Attach
    BY <2>2, <2>4, Zenon DEF Age, Attach, agentVars, walkVars, historyVars
  <2> QED BY <2>3, <2>4
<1> QED BY <1>1, <1>2, QuietCopy, Zenon

LEMMA IdleCopy ==
    ASSUME CopyInv, mode = "idle", mode' = "idle", UNCHANGED <<stack, parentType, request>>
    PROVE  CopyInv'
<1>1. Unskewed' /\ ShortLoads'
  BY Zenon DEF CopyInv, Unskewed, ShortLoads, RestModes
<1> QED BY <1>1, Zenon DEF CopyInv, PollLevels, Reached, Forgotten

LEMMA WatcherCopy ==
    ASSUME IInv, CopyInv, WatcherStep
    PROVE  CopyInv'
<1>1. CASE StartPoll
  BY <1>1, PollBegins, Zenon DEF StartPoll, agentVars, tableVars, threadVars
<1>2. CASE IgnoreNotification
  <2>1. UNCHANGED <<mode, stack, erred, model, parentType, request, tree, steady, present>>
    BY <1>2, Zenon DEF IgnoreNotification, Take, walkVars, historyVars, tableVars, threadVars
  <2>2. mode = "POLLING" => tree \subseteq present
    BY Zenon DEF CopyInv, PollLevels
  <2> QED BY <2>1, <2>2, QuietCopy, Zenon
<1>3. CASE HandleAddOrUpdate
  <2> DEFINE u == Head(queue).uuid
             f == SingleFrame(u)
  <2>1. ~f.skewed
    BY Zenon DEF SingleFrame
  <2>2. (Begin("ADD", u, f) \/ Begin("UPDATE", u, f)) /\ UNCHANGED <<parentType, request>>
    BY <1>3, Zenon DEF HandleAddOrUpdate, Take, tableVars, threadVars
  <2> HIDE DEF u, f
  <2>3. "ADD" \notin RestModes /\ "UPDATE" \notin RestModes
    BY DEF RestModes
  <2> QED BY <2>1, <2>2, <2>3, BeginCopy, Zenon
<1>4. CASE HandleRemove
  <2>1. mode = "idle" /\ mode' = mode /\ UNCHANGED <<stack, parentType, request>>
    BY <1>4, Zenon DEF HandleRemove, RemoveResource, Take, Ignored, walkVars, threadVars
  <2> QED BY <2>1, IdleCopy
<1> QED BY <1>1, <1>2, <1>3, <1>4 DEF WatcherStep

LEMMA RestCopy ==
    ASSUME LeafCallbacks, IInv, CopyInv, RestStep
    PROVE  CopyInv'
<1>0. mode = "POLLING" => tree \subseteq present
  BY Zenon DEF CopyInv, PollLevels
<1>1. ASSUME NEW u \in Uuids, NEW op \in RequestTypes, Request(op, u) PROVE CopyInv'
  <2>1. /\ UNCHANGED <<mode, stack, erred, model, parentType, tree, steady, present>>
        /\ request = NoRequest /\ request' = [op |-> op, uuid |-> u]
        /\ op = "create" => Parent[u] \in model
    BY <1>1, Zenon DEF Request, walkVars, historyVars, tableVars
  <2>2. op = "create" => Parent[u] # Root
    BY <2>1, TreeAssumption, Zenon DEF IInv, TypeOK, TableType
  <2> QED BY <1>0, <2>1, <2>2, QuietCopy, Zenon
<1>2. CASE RequestFails
  <2>1. /\ UNCHANGED <<mode, stack, erred, model, parentType, tree, steady, present>>
        /\ request' = NoRequest /\ mode \notin RestModes
    BY <1>2, Zenon DEF RequestFails, agentVars, walkVars, historyVars, tableVars
  <2> QED BY <1>0, <2>1, QuietCopy, Zenon
<1>3. CASE ServeRequest
  <2> DEFINE f == SingleFrame(request.uuid)
  <2>1. ~f.skewed /\ f.uuid = Parent[request.uuid]
    BY Zenon DEF SingleFrame
  <2>2. request # NoRequest /\ request.op \in {"create", "patch", "delete"}
    BY <1>3 DEF ServeRequest, IInv, TypeOK, ThreadType
  <2>3. /\ Begin("LOADING", request.uuid, f) \/ Begin("DELETE", request.uuid, f)
        /\ UNCHANGED <<parentType, request>>
    BY <1>3, <2>2, Zenon DEF ServeRequest, tableVars, threadVars
  <2> HIDE DEF f
  <2> QED BY <2>1, <2>2, <2>3, BeginCopy, Zenon
<1>4. CASE RequestUnreachable
  <2>1. CASE failing = "old"
    <3> DEFINE f == [SingleFrame(request.uuid) EXCEPT !.kids = {}]
    <3>1. ~f.skewed /\ f.uuid = Parent[request.uuid]
      BY DEF SingleFrame
    <3>2. request # NoRequest /\ Begin("LOADING", request.uuid, f) /\ UNCHANGED <<parentType, request>>
      BY <1>4, <2>1 DEF RequestUnreachable, tableVars
    <3> HIDE DEF f
    <3> QED BY <3>1, <3>2, BeginCopy, Zenon
  <2>2. CASE failing # "old"
    <3>1. /\ UNCHANGED <<mode, stack, erred, model, parentType, tree, steady, present>>
          /\ request' = NoRequest /\ mode = "idle"
      BY <1>4, <2>2 DEF RequestUnreachable, agentVars, walkVars, historyVars, tableVars
    <3> QED BY <3>1, QuietCopy, Zenon DEF RestModes
  <2> QED BY <2>1, <2>2
<1>5. CASE DeleteFromModel
  BY <1>5, EndCopy, Zenon DEF DeleteFromModel, RemoveResource
<1>6. ASSUME NEW u \in LateUuids, LateFetch(u) PROVE CopyInv'
  <2>1. UNCHANGED <<mode, stack, erred, model, parentType, tree, steady, present, request>>
    BY <1>6, Zenon DEF LateFetch, walkVars, historyVars, tableVars
  <2> QED BY <1>0, <2>1, QuietCopy, Zenon
<1>7. ASSUME NEW u \in LateUuids, LateStore(u) PROVE CopyInv'
  BY <1>7, LateStoreCopy
<1> QED BY <1>1, <1>2, <1>3, <1>4, <1>5, <1>6, <1>7 DEF RestStep

LEMMA WalkCopy ==
    ASSUME LeafCallbacks, ShallowCreates, IInv, EventInv, CopyInv, WalkStep
    PROVE  CopyInv'
<1>1. ASSUME NEW v \in Uuids, EntryFetched(v) PROVE CopyInv'
  BY <1>1, EntryFetchedCopy
<1>2. ASSUME NEW v \in Uuids, EntryRefused(v) PROVE CopyInv'
  BY <1>2, EntryRefusedCopy
<1>3. ASSUME NEW k \in Kinds, ListFetched(k) \/ ListRefused(k) PROVE CopyInv'
  BY <1>3, ListCopy
<1>4. ASSUME NEW k \in Kinds, CleanKind(k) PROVE CopyInv'
  BY <1>4, CleanKindCopy
<1>5. CASE CollectionFetched
  BY <1>5, CollectionFetchedCopy
<1>6. CASE LevelFetched
  BY <1>6, LevelFetchedCopy
<1>7. CASE Unreachable
  BY <1>7, UnreachableCopy
<1>8. CASE Unregister
  BY <1>8, EndCopy, Zenon DEF Unregister, Abort
<1> QED BY <1>1, <1>2, <1>3, <1>4, <1>5, <1>6, <1>7, <1>8, Zenon DEF WalkStep

(***************************************************************************)
(* The invariant of the polls holds in every reachable state: no entry is  *)
(* ever stored with the wrong parent type, loads for REST stay short, and  *)
(* a poll without failed calls has fetched, or has still to fetch, what    *)
(* the agent has had all along, and has found, or has still to find, what  *)
(* the agent never had.                                                    *)
(***************************************************************************)
THEOREM CopyInvariance ==
    ASSUME LeafCallbacks, ShallowCreates
    PROVE  Spec => []CopyInv
<1>1. Init => CopyInv
  <2>1. SUFFICES ASSUME Init PROVE CopyInv
    OBVIOUS
  <2>2. mode = "idle" /\ stack = <<>> /\ request.op = "none" /\ parentType = [u \in Uuids |-> "None"]
    BY <2>1, Zenon DEF Init, NoRequest
  <2>3. Unskewed /\ ShortLoads
    BY <2>2 DEF Unskewed, ShortLoads, RestModes
  <2> QED BY <2>2, <2>3, Zenon DEF CopyInv, PollLevels, Reached, Forgotten
<1>2. IInv /\ EventInv /\ CopyInv /\ [Next]_vars => CopyInv'
  <2>1. SUFFICES ASSUME IInv, EventInv, CopyInv, [Next]_vars PROVE CopyInv'
    OBVIOUS
  <2>2. CASE AgentStep \/ Age \/ Attach
    BY <2>1, <2>2, AgentCopy
  <2>3. CASE WalkStep
    BY <2>1, <2>3, WalkCopy
  <2>4. CASE WatcherStep
    BY <2>1, <2>4, WatcherCopy
  <2>5. CASE RestStep
    BY <2>1, <2>5, RestCopy
  <2>6. CASE UNCHANGED vars
    <3>1. UNCHANGED <<mode, stack, erred, model, parentType, tree, steady, present, request>>
      BY <2>6, Zenon DEF vars, agentVars, tableVars, walkVars, historyVars, threadVars
    <3>2. mode = "POLLING" => tree \subseteq present
      BY <2>1, Zenon DEF CopyInv, PollLevels
    <3> QED BY <2>1, <3>1, <3>2, QuietCopy, Zenon
  <2> QED BY <2>1, <2>2, <2>3, <2>4, <2>5, <2>6 DEF Next
<1> QED BY <1>1, <1>2, Invariance, EventInvariance, PTL DEF Spec

(***************************************************************************)
(* Only the end of its outermost level ends a poll that has fetched        *)
(* everything.                                                             *)
(***************************************************************************)
LEMMA PollEndsWith ==
    ASSUME IInv, Next, PollEnds, mode' = "idle"
    PROVE  LevelFetched
<1>1. mode = "POLLING" /\ cleaning = NotCleaning /\ Current.kinds = {} /\ Current.kids = {}
  BY Zenon DEF PollEnds
<1>2. ~AgentStep /\ ~Age /\ ~Attach
  BY <1>1, ZenonT(60) DEF AgentStep, AgentAdds, AgentRemoves, AgentUpdates, GoDown, ComeUp, Age, Attach, walkVars
<1>3. ~WatcherStep
  BY <1>1, ZenonT(60) DEF WatcherStep, StartPoll, IgnoreNotification, HandleAddOrUpdate, HandleRemove,
         Take, Begin, WatcherModes
<1>4. ~RestStep
  <2>1. ~ServeRequest /\ ~RequestUnreachable /\ ~DeleteFromModel
    <3>1. mode # "idle" /\ mode # "DELETE"
      BY <1>1
    <3>2. ASSUME NEW m, NEW u, NEW f, Begin(m, u, f) PROVE FALSE
      BY <3>1, <3>2 DEF Begin
    <3>3. ASSUME ServeRequest PROVE FALSE
      <4>1. request.op \in {"create", "patch", "delete"}
        BY <3>3 DEF ServeRequest, IInv, TypeOK, ThreadType
      <4> QED BY <3>2, <3>3, <4>1, Zenon DEF ServeRequest
    <3> QED BY <3>1, <3>3 DEF RequestUnreachable, DeleteFromModel
  <2> QED BY <1>1, <2>1, Zenon DEF RestStep, Request, RequestFails, LateFetch, LateStore, walkVars
<1>5. ~Unreachable
  <2>1. {Skip(v) : v \in Current.kids} \cup {Listed(k, {}) : k \in {k \in Current.kinds : Listing(k)}} = {}
    BY <1>1, Zenon
  <2> QED BY <2>1, Zenon DEF Unreachable
<1>6. \A v \in Uuids : ~EntryFetched(v) /\ ~EntryRefused(v)
  BY <1>1, Zenon DEF EntryFetched, EntryRefused, Fetching
<1>7. \A k \in Kinds : ~ListFetched(k) /\ ~ListRefused(k) /\ ~CleanKind(k)
  BY <1>1, Zenon DEF ListFetched, ListRefused, Listing, CleanKind
<1>8. ~CollectionFetched /\ ~Unregister
  BY <1>1 DEF CollectionFetched, Unregister, NotCleaning
<1> QED BY <1>2, <1>3, <1>4, <1>5, <1>6, <1>7, <1>8 DEF Next, WalkStep

(***************************************************************************)
(* A poll that runs to its end without a failed call leaves the tables     *)
(* with every resource the agent had all along and, of the resources with  *)
(* all their ancestors, no other than those the agent had, or a callback   *)
(* stored, at some time of the poll: the fetch_subcomponents recursion of  *)
(* load() meets every resource and remove_untouched misses none.           *)
(***************************************************************************)
THEOREM PollsCopy ==
    ASSUME LeafCallbacks, ShallowCreates
    PROVE  Spec => PollCopiesTree
<1>1. IInv /\ CopyInv /\ [Next]_vars =>
        [PollEnds /\ mode' = "idle" /\ ~erred =>
           /\ \A u \in Uuids : Path[u] \subseteq steady => u \in model'
           /\ Rooted(model)' \subseteq present]_vars
  <2>1. SUFFICES ASSUME IInv, CopyInv, Next, PollEnds, mode' = "idle", ~erred
                 PROVE  /\ \A u \in Uuids : Path[u] \subseteq steady => u \in model'
                        /\ Rooted(model)' \subseteq present
    BY Zenon
  <2>2. LevelFetched
    BY <2>1, PollEndsWith
  <2>3. mode = "POLLING" /\ Len(stack) = 1
    BY <2>1 DEF PollEnds
  <2>4. \A i \in DOMAIN stack : i = Len(stack)
    BY <2>1, <2>3 DEF IInv, TypeOK, WalkType
  <2>5. ASSUME NEW u \in Uuids
        PROVE  /\ Path[u] \subseteq steady => u \in model'
               /\ Path[u] \subseteq model' => u \in present
    BY <2>1, <2>2, <2>3, <2>4, PollLevelDone, Zenon
  <2>6. model' \subseteq Uuids
    BY <2>1, <2>2, LevelFetchedInv, Zenon DEF IInv, TypeOK, TableType
  <2>7. Rooted(model)' \subseteq present
    BY <2>5, <2>6 DEF Rooted
  <2> QED BY <2>5, <2>7, Zenon
<1> QED BY <1>1, Invariance, CopyInvariance, PTL DEF Spec, PollCopiesTree
============================================================================
