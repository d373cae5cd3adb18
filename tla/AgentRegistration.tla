------------------------- MODULE AgentRegistration -------------------------
(***************************************************************************)
(* How PSME agents register with the REST service and how the service      *)
(* forgets them: AmcConnectionManager in the agents                        *)
(* (common/agent-framework/src/registration), the attach and heartBeat     *)
(* commands (application/src/registration) and the AgentManager with its   *)
(* JsonAgents (application/src/core/agent) in the service.                 *)
(*                                                                         *)
(* The registration server runs many threads and nothing serialises their  *)
(* handlers: handle_attach looks an address up and adds the agent in two   *)
(* calls of the AgentManager, and goes on when its caller has given up.    *)
(* A heart beat reads one thing in the service and is one step.            *)
(***************************************************************************)
EXTENDS Naturals

CONSTANTS
    Agents,       \* the agents, named by their gami_id
    Addresses,    \* pairs of ipv4 address and port
    Profiles,     \* what else an agent reports: vendor and capabilities
    Keys,         \* identities of JsonAgent objects
    Threads,      \* threads of the registration server
    Idle,         \* a thread that handles no attach request
    MaxStamp,     \* heart beat time stamps are counted up to this one
    MaxRestarts,  \* bound on restarts of the service and of agents
    MaxLost       \* bound on calls or replies lost by the network

ASSUME ConstantsAssumption ==
    /\ Addresses # {} /\ Profiles # {}
    /\ MaxStamp \in Nat /\ MaxRestarts \in Nat /\ MaxLost \in Nat

VARIABLES
    alive,      \* the agent process runs
    address,    \* where it listens
    profile,    \* what it reports
    state,      \* m_state; REGISTER during and after attach() is "CALLING", "ATTACHED"
    heartBeat,  \* m_heart_beat
    sending,    \* EventSender::m_is_enabled
    restUp,     \* the REST service runs
    handler,    \* the attach request that a thread of the server handles
    agents,     \* AgentManager::m_agents
    held,       \* JsonAgents that the polling task has still to call
    answered,   \* gami_ids whose answers are still to be stored
    started,    \* handle_heart_beat has initialised its start_time
    stamp,      \* seconds since start_time
    late,       \* some caller of attach() has given up since the service started
    data,       \* gami_ids whose resources the service holds
    restarts, lost

procVars == <<alive, address, profile>>
connVars == <<state, heartBeat, sending>>
restVars == <<restUp, handler, agents, held, answered, started, stamp, late, data>>
vars == <<procVars, connVars, restVars, restarts, lost>>

(***************************************************************************)
(* A JsonAgent.  error is m_connection_error_observed_at: not set, set     *)
(* less than REMOVE_AGENT_AFTER_SECONDS ago, or longer ago.                *)
(***************************************************************************)
JsonAgent == [key: Keys, id: Agents, address: Addresses, profile: Profiles,
              error: {"none", "recent", "old"}]

(***************************************************************************)
(* An attach request, before the look up of its address or between a look  *)
(* up that found nothing and add_agent.  waiting: the caller has not given *)
(* up.                                                                     *)
(***************************************************************************)
Request == [id: Agents, address: Addresses, profile: Profiles,
            step: {"lookup", "add"}, waiting: BOOLEAN]

ASSUME IdleAssumption == Idle \notin Request

At(x) == {e \in agents : e.address = x}
Known(a) == \E e \in agents : e.id = a
Answers(x) == \E a \in Agents : alive[a] /\ address[a] = x
Busy == {t \in Threads : handler[t] # Idle}

TypeOK ==
    /\ alive \in [Agents -> BOOLEAN]
    /\ address \in [Agents -> Addresses]
    /\ profile \in [Agents -> Profiles]
    /\ state \in [Agents -> {"REGISTER", "CALLING", "ATTACHED", "MONITOR"}]
    /\ heartBeat \in [Agents -> 0..MaxStamp]
    /\ sending \in [Agents -> BOOLEAN]
    /\ handler \in [Threads -> Request \union {Idle}]
    /\ agents \subseteq JsonAgent /\ held \subseteq JsonAgent
    /\ answered \subseteq Agents
    /\ restUp \in BOOLEAN /\ started \in BOOLEAN /\ late \in BOOLEAN
    /\ stamp \in 0..MaxStamp
    /\ data \subseteq Agents
    /\ restarts \in 0..MaxRestarts
    /\ lost \in 0..MaxLost

(* The address and profile of a process that does not run mean nothing. *)
UnsetAddress == CHOOSE x \in Addresses : TRUE
UnsetProfile == CHOOSE p \in Profiles : TRUE

Init ==
    /\ alive = [a \in Agents |-> FALSE]
    /\ address = [a \in Agents |-> UnsetAddress]
    /\ profile = [a \in Agents |-> UnsetProfile]
    /\ state = [a \in Agents |-> "REGISTER"]
    /\ heartBeat = [a \in Agents |-> 0]
    /\ sending = [a \in Agents |-> FALSE]
    /\ restUp = FALSE
    /\ handler = [t \in Threads |-> Idle]
    /\ agents = {} /\ held = {} /\ answered = {}
    /\ started = FALSE
    /\ stamp = 0 /\ late = FALSE
    /\ data = {}
    /\ restarts = 0
    /\ lost = 0

-----------------------------------------------------------------------------
(* How a call ends: handled and answered, handled but the reply is lost,   *)
(* or not handled.                                                         *)
Delivery == {"answered", "unanswered", "undelivered"}

Call(outcome) ==
    \/ outcome = "answered" /\ restUp /\ UNCHANGED lost
    \/ outcome = "undelivered" /\ ~restUp /\ UNCHANGED lost
    \/ outcome # "answered" /\ restUp /\ lost < MaxLost /\ lost' = lost + 1

(* The catch clause of update_connection_state. *)
RegisterKeepsState(a) ==
    /\ sending' = [sending EXCEPT ![a] = FALSE]
    /\ UNCHANGED <<state, heartBeat>>
Register(a) ==
    /\ state' = [state EXCEPT ![a] = "REGISTER"]
    /\ sending' = [sending EXCEPT ![a] = FALSE]
    /\ UNCHANGED heartBeat

(***************************************************************************)
(* State REGISTER of update_connection_state calls attach().  Threads that *)
(* are free are alike, and so are keys that are free.                      *)
(***************************************************************************)
SendAttach(a) ==
    /\ alive[a] /\ state[a] = "REGISTER"
    /\ \/ /\ restUp
          /\ Busy # Threads
          /\ handler' = [handler EXCEPT ![CHOOSE t \in Threads \ Busy : TRUE] =
                [id |-> a, address |-> address[a], profile |-> profile[a],
                 step |-> "lookup", waiting |-> TRUE]]
          /\ state' = [state EXCEPT ![a] = "CALLING"]
          /\ UNCHANGED <<heartBeat, sending, lost>>
       \/ Call("undelivered") /\ Register(a) /\ UNCHANGED handler
    /\ UNCHANGED <<procVars, restUp, agents, held, answered, started, stamp, data, restarts, late>>

(***************************************************************************)
(* The end of a handler: a caller that still waits gets the reply.         *)
(***************************************************************************)
Reply(t, s) ==
    /\ handler' = [handler EXCEPT ![t] = Idle]
    /\ state' = IF handler[t].waiting THEN [state EXCEPT ![handler[t].id] = s] ELSE state

(***************************************************************************)
(* handle_attach looks an agent up by address and port: another agent      *)
(* there, or the same one with another profile, is a conflict.  The code   *)
(* takes the first of several; any of them may be the first.               *)
(***************************************************************************)
Same(e, r) == e.id = r.id /\ e.profile = r.profile

NotFoundEver(r) == TRUE
NotFound(r) == At(r.address) = {}

Lookup(t) ==
    /\ t \in Busy /\ handler[t].step = "lookup"
    /\ \/ /\ NotFound(handler[t])
          /\ handler' = [handler EXCEPT ![t].step = "add"]
          /\ UNCHANGED state
       \/ \E e \in At(handler[t].address) :
              Reply(t, IF Same(e, handler[t]) THEN "ATTACHED" ELSE "REGISTER")
    /\ UNCHANGED <<procVars, heartBeat, sending, restUp, agents, held, answered, started,
                   stamp, data, restarts, lost, late>>

FreeKeys == Keys \ {e.key : e \in agents \union held}

New(r, k) == [key |-> k, id |-> r.id, address |-> r.address, profile |-> r.profile,
              error |-> "none"]

AddAgent(t) ==
    /\ t \in Busy /\ handler[t].step = "add"
    /\ FreeKeys # {}
    /\ agents' = agents \union {New(handler[t], CHOOSE k \in FreeKeys : TRUE)}
    /\ Reply(t, "ATTACHED")
    /\ UNCHANGED <<procVars, heartBeat, sending, restUp, held, answered, started, stamp,
                   data, restarts, lost, late>>

(* Nobody waits any more for the reply of a request of agent a. *)
Abandon(a) ==
    /\ late' = (late \/ state[a] = "CALLING")
    /\ handler' = [t \in Threads |-> IF t \in Busy /\ handler[t].id = a
                                THEN [handler[t] EXCEPT !.waiting = FALSE] ELSE handler[t]]

(* attach() takes too long, or its reply is lost. *)
TimeOut(a) ==
    /\ state[a] = "CALLING" /\ lost < MaxLost
    /\ lost' = lost + 1
    /\ Abandon(a)
    /\ Register(a)
    /\ UNCHANGED <<procVars, restUp, agents, held, answered, started, stamp, data, restarts>>

(***************************************************************************)
(* handle_heart_beat: the time since the first heart beat of an agent that *)
(* the service knew, 0 for an agent that it does not know.                 *)
(***************************************************************************)
TimeStamp(a) == IF Known(a) /\ started THEN stamp ELSE 0

RestartedIfEqual(a) == TimeStamp(a) <= heartBeat[a]
Restarted(a) == TimeStamp(a) < heartBeat[a]

(***************************************************************************)
(* The call of heart_beat() that completes a registration, and the one of  *)
(* state MONITOR.                                                          *)
(***************************************************************************)
HeartBeat(a) ==
    /\ alive[a]
    /\ state[a] \in {"ATTACHED", "MONITOR"}
    /\ \E outcome \in Delivery :
        /\ Call(outcome)
        /\ started' = (started \/ (outcome # "undelivered" /\ Known(a)))
        /\ IF outcome = "answered" /\ ~(state[a] = "MONITOR" /\ Restarted(a))
           THEN /\ heartBeat' = [heartBeat EXCEPT ![a] = TimeStamp(a)]
                /\ state' = [state EXCEPT ![a] = "MONITOR"]
                /\ sending' = [sending EXCEPT ![a] = @ \/ state[a] = "ATTACHED"]
           ELSE Register(a)
    /\ UNCHANGED <<procVars, restUp, handler, agents, held, answered, stamp, data, restarts, late>>

-----------------------------------------------------------------------------
(***************************************************************************)
(* PollingTask::execute calls the agents of a copy of the list: it goes on *)
(* with a JsonAgent that was removed in the meantime.                      *)
(***************************************************************************)
StartPolling ==
    /\ restUp /\ agents # {} /\ held = {} /\ answered = {}
    /\ held' = agents
    /\ UNCHANGED <<procVars, connVars, restUp, handler, agents, answered, started, stamp,
                   data, restarts, lost, late>>

(***************************************************************************)
(* JsonAgent::execute.  The call goes to an address, whoever answers       *)
(* there; it may get lost.  After a long enough series of failures every   *)
(* entry with the gami_id is removed, and the resources of the gami_id.    *)
(***************************************************************************)
Marked(S, e, error) == IF e \in S THEN (S \ {e}) \union {[e EXCEPT !.error = error]} ELSE S

Removed(e) == {f \in agents : f.id # e.id}

NotCleaned(e) == data
Cleaned(e) == data \ {e.id}

FailedOnce(e) == agents
Failed(e) == IF e.error = "none" THEN Marked(agents, e, "recent") ELSE agents

Execute(e) ==
    /\ answered = {}
    /\ held' = held \ {e}
    /\ \/ /\ Answers(e.address)
          /\ agents' = Marked(agents, e, "none")
          /\ answered' = {e.id}
          /\ UNCHANGED <<data, lost>>
       \/ /\ IF Answers(e.address) THEN lost < MaxLost /\ lost' = lost + 1 ELSE UNCHANGED lost
          /\ IF e.error = "old"
             THEN agents' = Removed(e) /\ data' = Cleaned(e)
             ELSE agents' = Failed(e) /\ UNCHANGED data
          /\ UNCHANGED answered
    /\ UNCHANGED <<procVars, connVars, restUp, handler, started, stamp, restarts, late>>

Poll == \E e \in held : Execute(e)

(* add_or_update_entry, after the call has returned. *)
Store ==
    /\ answered # {}
    /\ data' = data \union answered
    /\ answered' = {}
    /\ UNCHANGED <<procVars, connVars, restUp, handler, agents, held, started, stamp,
                   restarts, lost, late>>

(* REMOVE_AGENT_AFTER_SECONDS pass after a failure was observed. *)
FailureAges ==
    /\ \E e \in agents \union held :
        /\ e.error = "recent"
        /\ agents' = Marked(agents, e, "old")
        /\ held' = Marked(held, e, "old")
    /\ UNCHANGED <<procVars, connVars, restUp, handler, answered, started, stamp, data,
                   restarts, lost, late>>

Tick ==
    /\ started /\ stamp < MaxStamp
    /\ stamp' = stamp + 1
    /\ UNCHANGED <<procVars, connVars, restUp, handler, agents, held, answered, started, data,
                   restarts, lost, late>>

-----------------------------------------------------------------------------
(***************************************************************************)
(* Processes stop and start.  The service keeps nothing over a restart; an *)
(* agent keeps its gami_id, and may come back elsewhere or upgraded.       *)
(***************************************************************************)
RestStart ==
    /\ ~restUp
    /\ restUp' = TRUE
    /\ UNCHANGED <<procVars, connVars, handler, agents, held, answered, started, stamp, data,
                   restarts, lost, late>>

RestStop ==
    /\ restUp /\ restarts < MaxRestarts
    /\ restarts' = restarts + 1
    /\ restUp' = FALSE
    /\ handler' = [t \in Threads |-> Idle]
    /\ agents' = {} /\ held' = {} /\ answered' = {} /\ data' = {}
    /\ started' = FALSE /\ stamp' = 0 /\ late' = FALSE
    /\ state' = [a \in Agents |-> IF state[a] = "CALLING" THEN "REGISTER" ELSE state[a]]
    /\ UNCHANGED <<procVars, heartBeat, sending, lost>>

AgentStart(a) ==
    /\ ~alive[a]
    /\ \E x \in Addresses, p \in Profiles :
        /\ \A b \in Agents : alive[b] => address[b] # x
        /\ address' = [address EXCEPT ![a] = x]
        /\ profile' = [profile EXCEPT ![a] = p]
    /\ alive' = [alive EXCEPT ![a] = TRUE]
    /\ UNCHANGED <<connVars, restVars, restarts, lost>>

AgentStop(a) ==
    /\ alive[a] /\ restarts < MaxRestarts
    /\ restarts' = restarts + 1
    /\ alive' = [alive EXCEPT ![a] = FALSE]
    /\ state' = [state EXCEPT ![a] = "REGISTER"]
    /\ heartBeat' = [heartBeat EXCEPT ![a] = 0]
    /\ sending' = [sending EXCEPT ![a] = FALSE]
    /\ address' = [address EXCEPT ![a] = UnsetAddress]
    /\ profile' = [profile EXCEPT ![a] = UnsetProfile]
    /\ Abandon(a)
    /\ UNCHANGED <<restUp, agents, held, answered, started, stamp, data, lost>>

Next ==
    \/ \E a \in Agents : SendAttach(a) \/ TimeOut(a) \/ HeartBeat(a) \/ AgentStart(a) \/ AgentStop(a)
    \/ \E t \in Threads : Lookup(t) \/ AddAgent(t)
    \/ StartPolling \/ Poll \/ Store \/ FailureAges \/ Tick \/ RestStart \/ RestStop

(***************************************************************************)
(* The connection thread of a running agent loops for ever, threads of the *)
(* server finish their handlers, the polling task goes through its list    *)
(* and starts again, and time passes.  Nothing makes stopped processes     *)
(* start again.                                                            *)
(***************************************************************************)
Fairness ==
    /\ \A a \in Agents : WF_vars(SendAttach(a)) /\ WF_vars(HeartBeat(a))
    /\ \A t \in Threads : WF_vars(Lookup(t)) /\ WF_vars(AddAgent(t))
    /\ WF_vars(StartPolling) /\ WF_vars(Poll) /\ WF_vars(Store) /\ WF_vars(FailureAges)

Spec == Init /\ [][Next]_vars /\ Fairness

-----------------------------------------------------------------------------
(***************************************************************************)
(* handle_attach registers one agent for an address and port, however      *)
(* agents restart, move and register, as long as no caller has given up a  *)
(* request.  (A handler that outlives its caller may have looked the       *)
(* address up before another one adds its agent, and adds a second one.)   *)
(***************************************************************************)
OneAgentPerAddress ==
    ~late => \A e, f \in agents : e.address = f.address => e = f

(***************************************************************************)
(* Removing an agent leaves none of its resources behind: the service      *)
(* comes to show resources of an agent that it does not know only when an  *)
(* answer that a poll already had is stored after the removal.             *)
(***************************************************************************)
OrphansStoredLate ==
    [][\A a \in data' : ~Known(a)' => a \in answered \/ (a \in data /\ ~Known(a))]_vars

(***************************************************************************)
(* update_connection_state gives up a registration only for a reason: the  *)
(* service is not there, a call failed, or it does not know the agent any  *)
(* more.  In particular the time stamps that a known agent receives never  *)
(* go back.                                                                *)
(***************************************************************************)
NoNeedlessRegistration ==
    [][\A a \in Agents : state[a] = "MONITOR" /\ state'[a] = "REGISTER" =>
            ~alive'[a] \/ ~restUp \/ lost' # lost \/ ~Known(a)]_vars

(***************************************************************************)
(* JsonAgent::execute forgets an agent that answers at its address only    *)
(* because of another JsonAgent of its gami_id, left from an address that  *)
(* it moved away from or still held by a poll, or after a lost call.       *)
(***************************************************************************)
LiveAgentsKept ==
    [][\A e \in agents : Answers(e.address) /\ restUp' /\ ~(\E f \in agents' : f.key = e.key) =>
            lost' # lost \/ \E f \in agents \union held : f.id = e.id /\ f.key # e.key]_vars

(***************************************************************************)
(* An agent of MONITOR whose gami_id the service does not know: heart      *)
(* beats return 0, and 0 is not less than an m_heart_beat of 0.            *)
(***************************************************************************)
Stranded(a) == state[a] = "MONITOR" /\ heartBeat[a] = 0 /\ ~Known(a)

(* What a look up for the agent would find at its address. *)
Registered(a) ==
    state[a] = "MONITOR" /\ \E e \in At(address[a]) : e.id = a /\ e.profile = profile[a]
Conflict(a) == \E e \in At(address[a]) : e.id # a \/ e.profile # profile[a]

(***************************************************************************)
(* The only entries with the gami_id are of addresses the agent has left,  *)
(* where others answer: heart beats, which look for the gami_id alone, go  *)
(* on as if it were registered.                                            *)
(***************************************************************************)
Misplaced(a) ==
    /\ state[a] = "MONITOR" /\ Known(a)
    /\ \A e \in agents : e.id = a => e.address # address[a] /\ Answers(e.address)

(***************************************************************************)
(* An agent and a service that both keep running end up registered, with   *)
(* notifications enabled.  There are exactly three other ends: the address *)
(* is taken by an entry that somebody else's answers keep alive, somebody  *)
(* else's answers keep an entry of another address alive, and the heart    *)
(* beat of 0.                                                              *)
(***************************************************************************)
EndsRegistered ==
    \A a \in Agents : <>[](alive[a] /\ restUp) =>
        <>[]((Registered(a) /\ sending[a]) \/ Conflict(a) \/ Misplaced(a) \/ Stranded(a))

(***************************************************************************)
(* An agent that stays away is forgotten, unless another agent answers at  *)
(* one of its addresses.                                                   *)
(***************************************************************************)
DeadForgotten ==
    \A a \in Agents : <>[](restUp /\ ~alive[a]) =>
        <>[](\A e \in agents : e.id = a => Answers(e.address))

(***************************************************************************)
(* What the comment on HeartBeatResponse::get_timestamp promises: an agent *)
(* that talks to a service that has restarted repeats its registration.    *)
(***************************************************************************)
RestartNoticed ==
    \A a \in Agents : (state[a] = "MONITOR" /\ ~Known(a)) ~>
        (Known(a) \/ state[a] # "MONITOR")
=============================================================================
