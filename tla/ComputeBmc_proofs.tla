------------------------- MODULE ComputeBmc_proofs -------------------------
(***************************************************************************)
(* Safety of one sled of the compute agent, for any set of indicators and  *)
(* any bounds.                                                             *)
(***************************************************************************)
EXTENDS ComputeBmc, TLAPS, SequenceTheorems

(***************************************************************************)
(* The transition table is deterministic: which events move the machine,   *)
(* and where to.                                                           *)
(***************************************************************************)
LEMMA FiresAt ==
    ASSUME NEW m, NEW e
    PROVE  Fires(m, e) <=> \/ m.state = "ABSENT" /\ e = "Inserted"
                           \/ m.state = "OFFLINE" /\ e \in {"BecameOnline", "Extracted"}
                           \/ m.state = "ONLINE" /\ e \in {"BecameOffline", "Extracted"}
BY DEF Fires, TransitionTable

LEMMA EndsAt ==
    ASSUME NEW m, NEW e, Fires(m, e)
    PROVE  EndState(m, e) = CASE e = "Extracted"    -> "ABSENT"
                              [] e = "BecameOnline" -> "ONLINE"
                              [] OTHER              -> "OFFLINE"
<1> DEFINE P(t) == t.init = m.state /\ t.event = e
<1>1. PICK t \in TransitionTable : P(t)
    BY DEF Fires
<1>2. (CHOOSE u \in TransitionTable : P(u)) \in TransitionTable
      /\ P(CHOOSE u \in TransitionTable : P(u))
    BY <1>1
<1>3. \A u \in TransitionTable : P(u) => u.end = CASE e = "Extracted"    -> "ABSENT"
                                                   [] e = "BecameOnline" -> "ONLINE"
                                                   [] OTHER              -> "OFFLINE"
    BY DEF TransitionTable
<1> QED BY <1>2, <1>3 DEF EndState

(***************************************************************************)
(* What update_state() does to the machine when the flags agree with the   *)
(* state and every action succeeds: it moves to the state that the         *)
(* hardware shows, and the flags move with it.                             *)
(***************************************************************************)
LEMMA UpdateSettles ==
    ASSUME TypeOK, FlagsTrackState, UpdateStateWith("true", "true")
    PROVE  TypeOK' /\ FlagsTrackState' /\ Settled'
<1> DEFINE p == UpdatePresence(Current, present, "true")
           m == UpdateOnlineState(p, online, "true")
<1>1. /\ p.state = IF ~present THEN "ABSENT" ELSE IF state = "ABSENT" THEN "OFFLINE" ELSE state
      /\ p.isPresent = present
      /\ p.isOnline = isOnline
      /\ p.threw = FALSE
      /\ p = [state |-> p.state, isPresent |-> p.isPresent, isOnline |-> p.isOnline,
              threw |-> p.threw]
    BY FiresAt, EndsAt, Zenon DEF TypeOK, FlagsTrackState, UpdatePresence, SendEvent, Current, BmcState
<1>2. /\ m.state = IF ~present THEN "ABSENT" ELSE IF online THEN "ONLINE" ELSE "OFFLINE"
      /\ m.isPresent = present
      /\ m.isOnline = (present /\ online)
  <2> HIDE DEF p
  <2>1. SendEvent(p, "BecameOnline", "true") =
            IF p.state = "OFFLINE" THEN [p EXCEPT !.state = "ONLINE", !.threw = FALSE] ELSE p
    <3>1. Fires(p, "BecameOnline") <=> p.state = "OFFLINE"
      BY FiresAt
    <3>2. Fires(p, "BecameOnline") => EndState(p, "BecameOnline") = "ONLINE"
      BY EndsAt
    <3> QED BY <3>1, <3>2, Zenon DEF SendEvent
  <2>2. SendEvent(p, "BecameOffline", "true") =
            IF p.state = "ONLINE" THEN [p EXCEPT !.state = "OFFLINE", !.threw = FALSE] ELSE p
    <3>1. Fires(p, "BecameOffline") <=> p.state = "ONLINE"
      BY FiresAt
    <3>2. Fires(p, "BecameOffline") => EndState(p, "BecameOffline") = "OFFLINE"
      BY EndsAt
    <3> QED BY <3>1, <3>2, Zenon DEF SendEvent
  <2> QED BY <1>1, <2>1, <2>2, Zenon DEF UpdateOnlineState, Forgotten, TypeOK, FlagsTrackState, BmcState
<1> HIDE DEF m
<1> QED BY <1>2 DEF UpdateStateWith, Updated, m, TypeOK, FlagsTrackState, BmcState, hwVars, Settled

(***************************************************************************)
(* The inductive invariant: besides the properties, a BMC that was never   *)
(* discovered has nothing in the tables, so that the empty uuid given to   *)
(* the remove_* functions misses nothing, and metrics live no longer than  *)
(* the telemetry service that removes them.                                *)
(***************************************************************************)
NothingUnclaimed ==
    /\ ~managerUuid => tree = {}
    /\ "metric" \in tree => telemetry

IInv ==
    /\ BmcTypeOK
    /\ FlagsTrackState
    /\ NothingUnclaimed
    /\ TreeMatchesState
    /\ EventsFollowTree
    /\ Monitored

LEMMA InitIInv == BmcInit => IInv
<1> SUFFICES ASSUME BmcInit PROVE IInv
    OBVIOUS
<1>1. TypeOK /\ FlagsTrackState
    BY Zenon DEF BmcInit, Init, TypeOK, FlagsTrackState, BmcState
<1>2. chains \in Seq([Regions -> Indicators \union {Unread}])
    BY DEF BmcInit
<1>3. changes \in 0..MaxChanges /\ faults \in 0..MaxFaults
    BY BoundsAssumption DEF BmcInit
<1> QED BY <1>1, <1>2, <1>3, Zenon DEF BmcInit, Init, IInv, BmcTypeOK, NothingUnclaimed,
        TreeMatchesState, EventsFollowTree, Monitored

LEMMA HardwareKeepsIInv == IInv /\ HardwareChange => IInv'
<1> SUFFICES ASSUME IInv, HardwareChange PROVE IInv'
    OBVIOUS
<1>1. UNCHANGED <<fsmVars, bmcVars, faults>> /\ changes' \in 0..MaxChanges
    BY BoundsAssumption DEF HardwareChange, Hardware, vars, fsmVars, IInv, BmcTypeOK
<1>2. mdr' \in [Regions -> Indicators]
    BY DEF HardwareChange, IInv, BmcTypeOK
<1>3. present' \in BOOLEAN /\ online' \in BOOLEAN
    BY DEF HardwareChange, Hardware, vars, IInv, BmcTypeOK, TypeOK
<1> QED BY <1>1, <1>2, <1>3 DEF IInv, BmcTypeOK, TypeOK, FlagsTrackState, NothingUnclaimed,
        TreeMatchesState, EventsFollowTree, Monitored, bmcVars, fsmVars

(***************************************************************************)
(* A dialogue stays within the bound on faults.                            *)
(***************************************************************************)
LEMMA DialogueBound ==
    ASSUME NEW ok \in BOOLEAN, faults \in 0..MaxFaults, Dialogue(ok)
    PROVE  faults' \in 0..MaxFaults
BY BoundsAssumption DEF Dialogue

LEMMA StateUpdateKeepsIInv == IInv /\ StateUpdate => IInv'
<1> SUFFICES ASSUME IInv, StateUpdate PROVE IInv'
    OBVIOUS
<1> USE DEF SystemKinds, ManagerKinds, Kinds, RemovedWithSystems, RemovedWithManager,
            RemovedWithTelemetry
<1>1. TypeOK' /\ FlagsTrackState' /\ UNCHANGED <<mdr, changes>>
    BY UpdateSettles DEF IInv, BmcTypeOK, StateUpdate
<1>2. state \in BmcState /\ state' \in BmcState
    BY <1>1 DEF IInv, BmcTypeOK, TypeOK
<1>3. CASE state' = "ONLINE" /\ state # "ONLINE"
  <2>1. PICK ok \in BOOLEAN : OnBecomeOnline(ok)
    BY <1>3 DEF StateUpdate
  <2>2. faults' \in 0..MaxFaults
    BY <2>1, DialogueBound DEF OnBecomeOnline, IInv, BmcTypeOK
  <2>3. /\ chains' \in Seq([Regions -> Indicators \union {Unread}])
        /\ ok => chains' # <<>>
    BY <2>1 DEF OnBecomeOnline, IInv, BmcTypeOK, FirstSaved
  <2> QED BY <1>1, <1>3, <2>1, <2>2, <2>3 DEF OnBecomeOnline, IInv, BmcTypeOK, NothingUnclaimed,
        TreeMatchesState, EventsFollowTree, Monitored
<1>4. CASE state' = "ABSENT" /\ state # "ABSENT"
  <2>1. OnExtraction
    BY <1>4 DEF StateUpdate
  <2> QED BY <1>1, <1>4, <2>1, Zenon DEF OnExtraction, IInv, BmcTypeOK, NothingUnclaimed,
        TreeMatchesState, EventsFollowTree, Monitored
<1>5. CASE state' = "OFFLINE" /\ state = "ONLINE"
  <2>1. OnBecomeOffline
    BY <1>5 DEF StateUpdate
  <2> QED BY <1>1, <1>5, <2>1, Zenon DEF OnBecomeOffline, OfflineStatus, IInv, BmcTypeOK,
        NothingUnclaimed, TreeMatchesState, EventsFollowTree, Monitored
<1>6. CASE state' = state \/ (state = "ABSENT" /\ state' = "OFFLINE")
  <2>1. UNCHANGED <<bmcVars, faults>>
    BY <1>6 DEF StateUpdate
  <2> QED BY <1>1, <1>6, <2>1 DEF bmcVars, IInv, BmcTypeOK, NothingUnclaimed,
        TreeMatchesState, EventsFollowTree, Monitored
<1> QED BY <1>2, <1>3, <1>4, <1>5, <1>6 DEF BmcState

LEMMA DiscoveryKeepsIInv == IInv /\ RunDiscovery => IInv'
<1> SUFFICES ASSUME IInv, NEW i \in DOMAIN chains, PeriodicDiscovery(i) PROVE IInv'
    BY DEF RunDiscovery
<1> DEFINE Saved == [Regions -> Indicators \union {Unread}]
<1>1. UNCHANGED <<vars, mdr, iface, telemetry, changes>>
    BY DEF PeriodicDiscovery
<1>2. chains \in Seq(Saved) /\ i \in 1..Len(chains)
    BY DEF IInv, BmcTypeOK
<1>3. CASE state = "ONLINE"
  <2>1. PICK rs \in SUBSET Regions, ok \in BOOLEAN :
          /\ Dialogue(rs = Regions /\ ((\E r \in rs : RegionUpdated(i, r)) /\ iface => ok))
          /\ chains' = Rescheduled(i, rs)
          /\ \/ Discover(ok)
             \/ UNCHANGED <<tree, status, told, managerUuid, missed>>
    BY <1>3, Zenon DEF PeriodicDiscovery
  <2>2. faults' \in 0..MaxFaults
    BY <2>1, DialogueBound, Zenon DEF IInv, BmcTypeOK
  <2>3. chains' \in Seq(Saved) /\ Len(chains') = Len(chains)
    BY <1>2, <2>1 DEF Rescheduled, IInv, BmcTypeOK
  <2>4. chains # <<>> /\ chains' # <<>>
    BY <1>2, <2>3
  <2>5. CASE Discover(ok)
    <3>1. TypeOK' /\ FlagsTrackState' /\ state' = "ONLINE"
      BY <1>1, <1>3 DEF IInv, BmcTypeOK, TypeOK, FlagsTrackState, vars
    <3>2. /\ tree' \subseteq Kinds
          /\ NothingUnclaimed'
          /\ EventsFollowTree'
      <4> USE DEF SystemKinds, ManagerKinds, Kinds
      <4>1. CASE ok
        <5>1. tree' = tree \union ManagerKinds \union (IF telemetry THEN {"metric"} ELSE {})
          BY <2>5, <4>1 DEF Discover
        <5>2. tree' \subseteq Kinds /\ {"manager", "system"} \subseteq tree'
          BY <5>1 DEF IInv, BmcTypeOK
        <5>3. NothingUnclaimed'
          BY <1>1, <2>5, <4>1, <5>1 DEF Discover, IInv, NothingUnclaimed
        <5>4. told' = {"manager", "system"}
          BY <2>5, <4>1 DEF Discover, AddEvents, IInv, EventsFollowTree
        <5> QED BY <5>2, <5>3, <5>4 DEF EventsFollowTree
      <4>2. CASE ~ok
        BY <1>1, <2>5, <4>2, Zenon DEF Discover, IInv, BmcTypeOK, NothingUnclaimed, EventsFollowTree
      <4> QED BY <4>1, <4>2
    <3>3. told' \subseteq {"manager", "system"}
      BY <3>2 DEF EventsFollowTree
    <3>4. /\ status' \in {"Enabled", "UnavailableOffline"}
          /\ managerUuid' \in BOOLEAN
          /\ missed' \in BOOLEAN
      BY <2>5, Zenon DEF Discover, IInv, BmcTypeOK
    <3> QED BY <1>1, <2>2, <2>3, <2>4, <3>1, <3>2, <3>3, <3>4
        DEF IInv, BmcTypeOK, TreeMatchesState, Monitored
  <2>6. CASE UNCHANGED <<tree, status, told, managerUuid, missed>>
    BY <1>1, <1>3, <2>2, <2>3, <2>4, <2>6 DEF IInv, BmcTypeOK, TypeOK, FlagsTrackState,
        NothingUnclaimed, TreeMatchesState, EventsFollowTree, vars, Monitored
  <2> QED BY <2>1, <2>5, <2>6
<1>4. CASE state # "ONLINE"
  <2>1. chains' = Finished(i) /\ UNCHANGED <<tree, status, told, managerUuid, missed, faults>>
    BY <1>4 DEF PeriodicDiscovery
  <2>2. chains' \in Seq(Saved)
    <3>1. /\ i \in Nat /\ 1 <= i /\ i <= Len(chains)
          /\ chains \in Seq(Saved)
      BY <1>2
    <3>2. SubSeq(chains, 1, i - 1) \in Seq(Saved)
      BY <3>1, SubSeqProperties
    <3>3. SubSeq(chains, i + 1, Len(chains)) \in Seq(Saved)
      BY <3>1, SubSeqProperties
    <3> HIDE DEF Saved
    <3>4. SubSeq(chains, 1, i - 1) \o SubSeq(chains, i + 1, Len(chains)) \in Seq(Saved)
      BY <3>2, <3>3, ConcatProperties
    <3> QED BY <2>1, <3>4 DEF Finished, Without
  <2> QED BY <1>1, <1>4, <2>1, <2>2 DEF IInv, BmcTypeOK, TypeOK, FlagsTrackState,
        NothingUnclaimed, TreeMatchesState, EventsFollowTree, Monitored, vars
<1> QED BY <1>3, <1>4

(***************************************************************************)
(* Every step of the worker thread and of the hardware keeps the inductive *)
(* invariant.                                                              *)
(***************************************************************************)
THEOREM Invariance == BmcSpec => []IInv
<1>1. IInv /\ [BmcNext]_allVars => IInv'
  <2> SUFFICES ASSUME IInv, [BmcNext]_allVars PROVE IInv'
    OBVIOUS
  <2>1. CASE HardwareChange BY <2>1, HardwareKeepsIInv
  <2>2. CASE StateUpdate BY <2>2, StateUpdateKeepsIInv
  <2>3. CASE RunDiscovery BY <2>3, DiscoveryKeepsIInv
  <2>4. CASE UNCHANGED allVars
    BY <2>4 DEF allVars, vars, bmcVars, IInv, BmcTypeOK, TypeOK, FlagsTrackState,
        NothingUnclaimed, TreeMatchesState, EventsFollowTree, Monitored
  <2> QED BY <2>1, <2>2, <2>3, <2>4 DEF BmcNext
<1> QED BY <1>1, InitIInv, PTL DEF BmcSpec

(***************************************************************************)
(* on_become_offline, on_extraction and discover() leave in the tables     *)
(* only what the state of the BMC allows, whatever the order of hardware   *)
(* changes, state updates and (leftover) discovery runs.                   *)
(***************************************************************************)
THEOREM TreeCorrect == BmcSpec => []TreeMatchesState
BY Invariance, PTL DEF IInv

(***************************************************************************)
(* A receiver of the Add and Remove events of the compute agent knows the  *)
(* managers and systems that the agent has.                                *)
(***************************************************************************)
THEOREM EventsCorrect == BmcSpec => []EventsFollowTree
BY Invariance, PTL DEF IInv

(***************************************************************************)
(* As no transition action of the compute agent fails, the flags of        *)
(* update_presence and update_online_state never drift from the state.     *)
(***************************************************************************)
THEOREM FlagsCorrect == BmcSpec => []FlagsTrackState
BY Invariance, PTL DEF IInv

(***************************************************************************)
(* PeriodicDiscovery never leaves a readable ONLINE BMC without a          *)
(* scheduled run.                                                          *)
(***************************************************************************)
THEOREM AlwaysMonitored == BmcSpec => []Monitored
BY Invariance, PTL DEF IInv
=============================================================================
