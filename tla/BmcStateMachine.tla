-------------------------- MODULE BmcStateMachine --------------------------
(***************************************************************************)
(* The state machine that every PSME agent keeps for a managed BMC         *)
(* (common/agent-framework/include/agent-framework/state_machine).  A      *)
(* worker thread calls update_state() periodically: it samples a presence  *)
(* pin and an "answers IPMI" probe, turns a change of either sample into   *)
(* an event, and the event may run a transition action of the derived      *)
(* class (on_insertion, on_extraction, on_become_online,                   *)
(* on_become_offline).                                                     *)
(***************************************************************************)
EXTENDS Naturals

VARIABLES
    present,     \* what m_read_presence() would return now
    online,      \* what m_read_online_status() would return now
    state,       \* EnumStateMachine::m_current_state
    isPresent,   \* BmcStateMachine::m_is_present
    isOnline     \* BmcStateMachine::m_is_online

hwVars == <<present, online>>
fsmVars == <<state, isPresent, isOnline>>
vars == <<present, online, state, isPresent, isOnline>>

BmcState == {"ABSENT", "OFFLINE", "ONLINE"}
BmcEvent == {"Inserted", "Extracted", "BecameOnline", "BecameOffline"}

Transition == [init: BmcState, event: BmcEvent, end: BmcState]

TransitionTable ==
    { [init |-> "ABSENT",  event |-> "Inserted",      end |-> "OFFLINE"],
      [init |-> "OFFLINE", event |-> "BecameOnline",  end |-> "ONLINE"],
      [init |-> "OFFLINE", event |-> "Extracted",     end |-> "ABSENT"],
      [init |-> "ONLINE",  event |-> "BecameOffline", end |-> "OFFLINE"],
      [init |-> "ONLINE",  event |-> "Extracted",     end |-> "ABSENT"] }

-----------------------------------------------------------------------------
(***************************************************************************)
(* The part of the machine that one update_state() call works on.  "threw" *)
(* records an exception on its way to the catch clause of update_state().  *)
(***************************************************************************)
Machine == [state: BmcState, isPresent: BOOLEAN, isOnline: BOOLEAN, threw: BOOLEAN]

FiresUnlessOnline(m, e) ==
    m.state # "ONLINE" /\ \E t \in TransitionTable : t.init = m.state /\ t.event = e
Fires(m, e) == \E t \in TransitionTable : t.init = m.state /\ t.event = e

EndState(m, e) ==
    (CHOOSE t \in TransitionTable : t.init = m.state /\ t.event = e).end

(***************************************************************************)
(* send_event: run the action of the matching transition; only an action   *)
(* that returns true moves the machine.  An event that matches no          *)
(* transition is ignored.  The outcome of an action is "true", "false"     *)
(* ("action failure") or "throw".                                          *)
(***************************************************************************)
SendEvent(m, e, outcome) ==
    IF ~Fires(m, e) THEN m
    ELSE [m EXCEPT !.state = IF outcome = "true" THEN EndState(m, e) ELSE @,
                   !.threw = (outcome = "throw")]

(***************************************************************************)
(* update_presence and update_online_state.  The sampled value is stored   *)
(* after send_event returns, whatever it returned; an exception skips the  *)
(* assignment and the rest of update_state().                              *)
(***************************************************************************)
UpdatePresence(m, sample, outcome) ==
    IF sample = m.isPresent THEN m
    ELSE LET sent == SendEvent(m, IF sample THEN "Inserted" ELSE "Extracted", outcome)
         IN  IF sent.threw THEN sent ELSE [sent EXCEPT !.isPresent = sample]

Forgotten(m) == [m EXCEPT !.isOnline = FALSE]

UpdateOnlineState(m, sample, outcome) ==
    CASE m.threw                  -> m
      [] ~m.threw /\ ~m.isPresent  -> Forgotten(m)
      [] ~m.threw /\ m.isPresent   ->
            IF sample = m.isOnline THEN m
            ELSE LET sent == SendEvent(m, IF sample THEN "BecameOnline"
                                                    ELSE "BecameOffline", outcome)
                 IN  IF sent.threw THEN sent ELSE [sent EXCEPT !.isOnline = sample]

Current == [state |-> state, isPresent |-> isPresent, isOnline |-> isOnline,
            threw |-> FALSE]

Updated(presenceOutcome, onlineOutcome) ==
    UpdateOnlineState(UpdatePresence(Current, present, presenceOutcome),
                      online, onlineOutcome)

-----------------------------------------------------------------------------
TypeOK ==
    /\ present \in BOOLEAN
    /\ online \in BOOLEAN
    /\ state \in BmcState
    /\ isPresent \in BOOLEAN
    /\ isOnline \in BOOLEAN

Init ==
    /\ present \in BOOLEAN
    /\ online \in BOOLEAN
    /\ state = "ABSENT"
    /\ isPresent = FALSE
    /\ isOnline = FALSE

(***************************************************************************)
(* The sled is inserted or pulled out, its BMC starts or stops answering.  *)
(***************************************************************************)
Hardware ==
    /\ present' \in BOOLEAN
    /\ online' \in BOOLEAN
    /\ UNCHANGED fsmVars

(***************************************************************************)
(* update_state(), given how the actions it may run end.  The agents that  *)
(* derive from the machine decide that: see ComputeBmc.                    *)
(***************************************************************************)
UpdateStateWith(presenceOutcome, onlineOutcome) ==
    LET m == Updated(presenceOutcome, onlineOutcome) IN
    /\ state' = m.state
    /\ isPresent' = m.isPresent
    /\ isOnline' = m.isOnline
    /\ UNCHANGED hwVars

-----------------------------------------------------------------------------
(***************************************************************************)
(* The two flags that decide which events are sent agree with the state    *)
(* the events led to: a BMC is taken for present exactly when it is not    *)
(* ABSENT, and for online exactly when it is ONLINE.  This is what the     *)
(* comments in update_presence and update_online_state promise: the flag   *)
(* changes only when the action succeeds and the state changed.            *)
(***************************************************************************)
FlagsTrackState ==
    /\ isPresent = (state # "ABSENT")
    /\ isOnline = (state = "ONLINE")

(***************************************************************************)
(* The state that describes what the hardware shows now.                   *)
(***************************************************************************)
Settled ==
    state = IF ~present THEN "ABSENT" ELSE IF online THEN "ONLINE" ELSE "OFFLINE"
=============================================================================
