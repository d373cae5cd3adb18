---------------------- MODULE AgentRegistration_proofs ----------------------
(***************************************************************************)
(* Safety of agent registration, for any agents, addresses, profiles,      *)
(* threads and bounds.                                                     *)
(***************************************************************************)
EXTENDS AgentRegistration, TLAPS

(* Two running agents never listen at one address and port. *)
AddressesDistinct ==
    \A a, b \in Agents : alive[a] /\ alive[b] /\ address[a] = address[b] => a = b

(***************************************************************************)
(* A handler whose caller waits is the only one of that agent, and the     *)
(* agent is still where it was when it called.                             *)
(***************************************************************************)
CallersWait ==
    \A t \in Busy : handler[t].waiting =>
        /\ alive[handler[t].id]
        /\ state[handler[t].id] = "CALLING"
        /\ handler[t].address = address[handler[t].id]
        /\ \A u \in Busy : handler[u].waiting /\ handler[u].id = handler[t].id => u = t

(***************************************************************************)
(* Unless a caller has given up, what the look up of a handler found is    *)
(* still so when the handler adds its agent.                               *)
(***************************************************************************)
LookupsFresh ==
    ~late => \A t \in Busy :
        handler[t].waiting /\ (handler[t].step = "add" => At(handler[t].address) = {})

(***************************************************************************)
(* An agent that monitors a service that knows it, or may come to know it  *)
(* through an old request, has never seen a time stamp above the present.  *)
(***************************************************************************)
StampsGoForward ==
    /\ ~started => stamp = 0
    /\ \A a \in Agents :
        state[a] = "MONITOR" /\ (Known(a) \/ \E t \in Busy : handler[t].id = a) =>
            heartBeat[a] <= stamp

IInv == /\ TypeOK /\ AddressesDistinct /\ CallersWait /\ LookupsFresh
        /\ OneAgentPerAddress /\ StampsGoForward

LEMMA TimeStampType ==
    ASSUME TypeOK, NEW a \in Agents
    PROVE  TimeStamp(a) \in 0..MaxStamp /\ TimeStamp(a) <= stamp
BY ConstantsAssumption DEF TypeOK, TimeStamp

LEMMA CallBound ==
    ASSUME TypeOK, NEW outcome, Call(outcome)
    PROVE  lost' \in 0..MaxLost
BY ConstantsAssumption DEF TypeOK, Call

LEMMA BusyType ==
    ASSUME TypeOK, NEW t \in Busy
    PROVE  /\ t \in Threads /\ handler[t] \in Request /\ handler[t].id \in Agents
           /\ handler[t].address \in Addresses /\ handler[t].profile \in Profiles
BY DEF TypeOK, Request, Busy

\* A step that leaves the handlers and the waiting callers alone (Registration).
LEMMA CallersKept ==
    ASSUME CallersWait, handler' = handler,
           \A t \in Busy : handler[t].waiting =>
               /\ alive'[handler[t].id] = alive[handler[t].id]
               /\ state'[handler[t].id] = state[handler[t].id]
               /\ address'[handler[t].id] = address[handler[t].id]
    PROVE  CallersWait'
<1>1. Busy' = Busy
    BY DEF Busy
<1> SUFFICES ASSUME NEW t \in Busy, handler[t].waiting
             PROVE  /\ alive'[handler[t].id]
                    /\ state'[handler[t].id] = "CALLING"
                    /\ handler[t].address = address'[handler[t].id]
                    /\ \A u \in Busy : handler[u].waiting /\ handler[u].id = handler[t].id => u = t
    BY <1>1 DEF CallersWait
<1> QED BY DEF CallersWait

LEMMA InitIInv == Init => IInv
<1> SUFFICES ASSUME Init PROVE IInv
    OBVIOUS
<1>1. UnsetAddress \in Addresses /\ UnsetProfile \in Profiles
    BY ConstantsAssumption DEF UnsetAddress, UnsetProfile
<1>2. TypeOK
  <2>1. 0 \in 0..MaxStamp /\ 0 \in 0..MaxRestarts /\ 0 \in 0..MaxLost
    BY ConstantsAssumption
  <2>2. address \in [Agents -> Addresses] /\ profile \in [Agents -> Profiles]
    BY <1>1 DEF Init
  <2>3. heartBeat \in [Agents -> 0..MaxStamp] /\ stamp \in 0..MaxStamp
    BY <2>1 DEF Init
  <2>4. /\ alive \in [Agents -> BOOLEAN] /\ sending \in [Agents -> BOOLEAN]
        /\ state \in [Agents -> {"REGISTER", "CALLING", "ATTACHED", "MONITOR"}]
    BY DEF Init
  <2>5. handler \in [Threads -> Request \union {Idle}]
    BY DEF Init
  <2> QED BY <2>1, <2>2, <2>3, <2>4, <2>5, ZenonT(60) DEF Init, TypeOK
<1>3. Busy = {}
    BY DEF Init, Busy
<1>4. AddressesDistinct /\ OneAgentPerAddress
    BY DEF Init, AddressesDistinct, OneAgentPerAddress
<1>5. CallersWait /\ LookupsFresh /\ StampsGoForward
    BY <1>3 DEF Init, CallersWait, LookupsFresh, StampsGoForward, Known
<1> QED BY <1>2, <1>4, <1>5 DEF IInv

-----------------------------------------------------------------------------
(***************************************************************************)
(* Steps of the polling task change the list of agents only: entries go,   *)
(* or are replaced by ones with the same gami_id and address.              *)
(***************************************************************************)
LEMMA MarkedType ==
    ASSUME NEW S \in SUBSET JsonAgent, NEW e \in JsonAgent, NEW x \in {"none", "recent", "old"}
    PROVE  Marked(S, e, x) \subseteq JsonAgent
BY DEF Marked, JsonAgent

LEMMA MarkedAgents ==
    ASSUME IInv, NEW e \in JsonAgent, NEW x \in {"none", "recent", "old"},
           agents' = Marked(agents, e, x), late' = late
    PROVE  /\ agents' \subseteq JsonAgent
           /\ \A f \in agents' : \E g \in agents : g.id = f.id /\ g.address = f.address
           /\ \A g \in agents : \E f \in agents' : g.id = f.id /\ g.address = f.address
           /\ OneAgentPerAddress'
<1> DEFINE m == [e EXCEPT !.error = x]
<1>1. m \in JsonAgent /\ m.id = e.id /\ m.address = e.address
    BY DEF JsonAgent
<1>2. agents' = IF e \in agents THEN (agents \ {e}) \union {m} ELSE agents
    BY DEF Marked
<1>3. agents \subseteq JsonAgent /\ OneAgentPerAddress
    BY DEF IInv, TypeOK
<1> HIDE DEF m
<1>4. agents' \subseteq JsonAgent
    BY <1>1, <1>2, <1>3
<1>5. \A f \in agents' : \E g \in agents : g.id = f.id /\ g.address = f.address
    BY <1>1, <1>2
<1>6. \A g \in agents : \E f \in agents' : g.id = f.id /\ g.address = f.address
    BY <1>1, <1>2
<1>7. OneAgentPerAddress'
    BY <1>1, <1>2, <1>3 DEF OneAgentPerAddress
<1> QED BY <1>4, <1>5, <1>6, <1>7

LEMMA PollingKeepsIInv ==
    ASSUME IInv, StartPolling \/ Poll \/ Store \/ FailureAges
    PROVE  IInv'
<1>1. /\ UNCHANGED <<alive, address, profile, state, heartBeat, sending, restUp, handler,
                      started, stamp, late, restarts>>
    BY DEF StartPolling, Poll, Execute, Store, FailureAges, procVars, connVars
<1>2. lost' \in 0..MaxLost
    BY ConstantsAssumption DEF StartPolling, Poll, Execute, Store, FailureAges, IInv, TypeOK
<1>3. /\ held' \subseteq JsonAgent /\ answered' \subseteq Agents /\ data' \subseteq Agents
      /\ agents' \subseteq JsonAgent
      /\ \A f \in agents' : \E g \in agents : g.id = f.id /\ g.address = f.address
      /\ OneAgentPerAddress'
  <2>1. CASE StartPolling
    BY <2>1, <1>1 DEF StartPolling, IInv, TypeOK, OneAgentPerAddress
  <2>2. CASE Store
    BY <2>2, <1>1 DEF Store, IInv, TypeOK, OneAgentPerAddress
  <2>3. CASE FailureAges
    <3>1. PICK e \in agents \union held : agents' = Marked(agents, e, "old") /\ held' = Marked(held, e, "old")
      BY <2>3 DEF FailureAges
    <3>2. e \in JsonAgent /\ agents \in SUBSET JsonAgent /\ held \in SUBSET JsonAgent
      BY DEF IInv, TypeOK
    <3>3. answered' = answered /\ data' = data
      BY <2>3 DEF FailureAges
    <3>4. held' \subseteq JsonAgent
      BY <3>1, <3>2, MarkedType
    <3>5. /\ agents' \subseteq JsonAgent
          /\ \A f \in agents' : \E g \in agents : g.id = f.id /\ g.address = f.address
          /\ OneAgentPerAddress'
      BY <1>1, <3>1, <3>2, MarkedAgents
    <3> QED BY <3>3, <3>4, <3>5 DEF IInv, TypeOK
  <2>4. CASE Poll
    <3>1. PICK e \in held : Execute(e)
      BY <2>4 DEF Poll
    <3>2. e \in JsonAgent /\ e.id \in Agents /\ agents \in SUBSET JsonAgent
      BY DEF IInv, TypeOK, JsonAgent
    <3>3. held' \subseteq JsonAgent /\ answered' \subseteq Agents /\ data' \subseteq Agents
      BY <3>1, <3>2 DEF Execute, Cleaned, IInv, TypeOK
    <3>4. \/ \E x \in {"none", "recent", "old"} : agents' = Marked(agents, e, x)
          \/ agents' \subseteq agents
      BY <3>1 DEF Execute, Failed, Removed
    <3>5. CASE \E x \in {"none", "recent", "old"} : agents' = Marked(agents, e, x)
      BY <1>1, <3>2, <3>3, <3>5, MarkedAgents
    <3>6. CASE agents' \subseteq agents
      BY <1>1, <3>2, <3>3, <3>6 DEF IInv, OneAgentPerAddress
    <3> QED BY <3>4, <3>5, <3>6
  <2> QED BY <2>1, <2>2, <2>3, <2>4
<1>4. TypeOK'
    BY <1>1, <1>2, <1>3 DEF IInv, TypeOK
<1>5. AddressesDistinct' /\ CallersWait'
    BY <1>1 DEF IInv, AddressesDistinct, CallersWait, Busy
<1>6. LookupsFresh'
    BY <1>1, <1>3 DEF IInv, LookupsFresh, At, Busy
<1>7. StampsGoForward'
  <2>1. \A a \in Agents : Known(a)' => Known(a)
    BY <1>3 DEF Known
  <2> QED BY <1>1, <2>1 DEF IInv, StampsGoForward, Busy
<1> QED BY <1>3, <1>4, <1>5, <1>6, <1>7 DEF IInv

LEMMA ServiceKeepsIInv ==
    ASSUME IInv, Tick \/ RestStart \/ RestStop
    PROVE  IInv'
<1>1. CASE Tick
  <2>1. stamp' = stamp + 1 /\ stamp' \in 0..MaxStamp /\ started
    BY <1>1, ConstantsAssumption DEF Tick, IInv, TypeOK
  <2>2. UNCHANGED <<alive, address, profile, state, heartBeat, sending, restUp, handler, agents,
                    held, answered, started, late, data, restarts, lost>>
    BY <1>1 DEF Tick, procVars, connVars
  <2>3. TypeOK'
    BY <2>1, <2>2 DEF IInv, TypeOK
  <2>4. AddressesDistinct' /\ CallersWait' /\ LookupsFresh' /\ OneAgentPerAddress'
    BY <2>2 DEF IInv, AddressesDistinct, CallersWait, LookupsFresh, At, OneAgentPerAddress, Busy
  <2>5. StampsGoForward'
    BY <2>1, <2>2 DEF IInv, TypeOK, StampsGoForward, Known, Busy
  <2> QED BY <2>3, <2>4, <2>5 DEF IInv
<1>2. CASE RestStart
  <2>1. restUp' = TRUE
    BY <1>2 DEF RestStart
  <2>2. UNCHANGED <<alive, address, profile, state, heartBeat, sending, handler, agents, held,
                    answered, started, stamp, late, data, restarts, lost>>
    BY <1>2 DEF RestStart, procVars, connVars
  <2> QED BY <2>1, <2>2 DEF IInv, TypeOK, AddressesDistinct, CallersWait, LookupsFresh, At,
        OneAgentPerAddress, StampsGoForward, Known, Busy
<1>3. CASE RestStop
  <2>1. /\ handler' = [t \in Threads |-> Idle] /\ agents' = {} /\ held' = {} /\ answered' = {}
        /\ data' = {} /\ started' = FALSE /\ stamp' = 0 /\ late' = FALSE /\ restUp' = FALSE
        /\ UNCHANGED <<alive, address, profile, heartBeat, sending, lost>>
    BY <1>3 DEF RestStop, procVars
  <2>2. restarts' \in 0..MaxRestarts /\ stamp' \in 0..MaxStamp
    BY <1>3, ConstantsAssumption DEF RestStop, IInv, TypeOK
  <2>3. state' \in [Agents -> {"REGISTER", "CALLING", "ATTACHED", "MONITOR"}]
    BY <1>3 DEF RestStop, IInv, TypeOK
  <2>4. handler' \in [Threads -> Request \union {Idle}] /\ Busy' = {}
    BY <2>1 DEF Busy
  <2>5. TypeOK'
    BY <2>1, <2>2, <2>3, <2>4, ZenonT(60) DEF IInv, TypeOK
  <2>6. AddressesDistinct' /\ OneAgentPerAddress'
    BY <2>1 DEF IInv, AddressesDistinct, OneAgentPerAddress
  <2>7. CallersWait' /\ LookupsFresh' /\ StampsGoForward'
    BY <2>1, <2>4 DEF CallersWait, LookupsFresh, StampsGoForward, Known
  <2> QED BY <2>5, <2>6, <2>7 DEF IInv
<1> QED BY <1>1, <1>2, <1>3

-----------------------------------------------------------------------------
LEMMA SendAttachKeepsIInv ==
    ASSUME IInv, NEW a \in Agents, SendAttach(a)
    PROVE  IInv'
<1>1. /\ alive[a] /\ state[a] = "REGISTER"
      /\ UNCHANGED <<alive, address, profile, restUp, agents, held, answered, started, stamp, data,
                      restarts, late, heartBeat>>
    BY DEF SendAttach, procVars, Register
<1>2. CASE /\ Busy # Threads
           /\ handler' = [handler EXCEPT ![CHOOSE t \in Threads \ Busy : TRUE] =
                [id |-> a, address |-> address[a], profile |-> profile[a],
                 step |-> "lookup", waiting |-> TRUE]]
           /\ state' = [state EXCEPT ![a] = "CALLING"]
           /\ UNCHANGED <<sending, lost>>
  <2> DEFINE r == [id |-> a, address |-> address[a], profile |-> profile[a],
                   step |-> "lookup", waiting |-> TRUE]
             t0 == CHOOSE t \in Threads \ Busy : TRUE
  <2>1. r \in Request /\ r.id = a /\ r.address = address[a] /\ r.step = "lookup" /\ r.waiting
    BY DEF Request, IInv, TypeOK
  <2>2. t0 \in Threads \ Busy
    BY <1>2, Zenon DEF Busy
  <2>3. handler' = [handler EXCEPT ![t0] = r]
    BY <1>2
  <2> HIDE DEF r, t0
  <2>4. handler \in [Threads -> Request \union {Idle}] /\ r # Idle
    BY <2>1, IdleAssumption DEF IInv, TypeOK
  <2>5. /\ Busy' = Busy \union {t0} /\ t0 \notin Busy
        /\ handler'[t0] = r /\ \A t \in Busy : handler'[t] = handler[t]
    BY <2>2, <2>3, <2>4 DEF Busy
  <2>6. TypeOK'
    <3>1. handler' \in [Threads -> Request \union {Idle}]
      BY <2>1, <2>3, <2>4, ZenonT(60)
    <3>2. state' \in [Agents -> {"REGISTER", "CALLING", "ATTACHED", "MONITOR"}]
      BY <1>2 DEF IInv, TypeOK
    <3> QED BY <1>1, <1>2, <3>1, <3>2, Zenon DEF IInv, TypeOK
  <2>7. \A t \in Busy : handler[t].waiting => handler[t].id # a
    <3>1. CallersWait
      BY Zenon DEF IInv
    <3>2. state[a] # "CALLING"
      BY ONLY <1>1
    <3> QED BY <3>1, <3>2, Zenon DEF CallersWait
  <2>8. state'[a] = "CALLING" /\ \A b \in Agents : b # a => state'[b] = state[b]
    BY <1>2 DEF IInv, TypeOK
  <2>9. \A t \in Busy : handler[t].id \in Agents
    BY BusyType DEF IInv
  <2>10. CallersWait'
    <3> SUFFICES ASSUME NEW t \in Busy', handler'[t].waiting
                 PROVE  /\ alive'[handler'[t].id]
                        /\ state'[handler'[t].id] = "CALLING"
                        /\ handler'[t].address = address'[handler'[t].id]
                        /\ \A u \in Busy' : handler'[u].waiting /\ handler'[u].id = handler'[t].id => u = t
      BY DEF CallersWait
    <3>1. CASE t = t0
      BY <1>1, <2>1, <2>5, <2>7, <2>8, <3>1, Zenon
    <3>2. CASE t \in Busy
      <4>1. /\ handler'[t] = handler[t] /\ handler[t].id # a /\ handler[t].id \in Agents
            /\ \A u \in Busy : handler'[u] = handler[u]
        BY <2>5, <2>7, <2>9, <3>2
      <4>2. /\ alive[handler[t].id] /\ state[handler[t].id] = "CALLING"
            /\ handler[t].address = address[handler[t].id]
            /\ \A u \in Busy : handler[u].waiting /\ handler[u].id = handler[t].id => u = t
        BY <3>2, <4>1, Zenon DEF IInv, CallersWait
      <4> QED BY <1>1, <2>1, <2>5, <2>8, <4>1, <4>2, ZenonT(40)
    <3> QED BY <2>5, <3>1, <3>2, Zenon
  <2>11. LookupsFresh'
    <3>1. LookupsFresh /\ UNCHANGED <<agents, late>>
      BY <1>1 DEF IInv
    <3> QED BY ONLY <2>1, <2>5, <3>1 DEF LookupsFresh, At
  <2>12. StampsGoForward'
    BY <1>1, <2>1, <2>5, <2>8, ZenonT(40) DEF IInv, StampsGoForward, Known
  <2>13. AddressesDistinct' /\ OneAgentPerAddress'
    BY <1>1, Zenon DEF IInv, AddressesDistinct, OneAgentPerAddress
  <2> QED BY <2>6, <2>10, <2>11, <2>12, <2>13 DEF IInv
<1>3. CASE Call("undelivered") /\ Register(a) /\ UNCHANGED handler
  <2>1. lost' \in 0..MaxLost
    BY <1>3, CallBound DEF IInv
  <2>2. state' = state /\ sending' \in [Agents -> BOOLEAN]
    BY <1>1, <1>3 DEF Register, IInv, TypeOK
  <2>3. TypeOK'
    BY <1>1, <1>3, <2>1, <2>2, Zenon DEF IInv, TypeOK
  <2>4. AddressesDistinct' /\ OneAgentPerAddress' /\ CallersWait' /\ LookupsFresh' /\ StampsGoForward'
    <3>1. AddressesDistinct' /\ OneAgentPerAddress'
      BY <1>1 DEF IInv, AddressesDistinct, OneAgentPerAddress
    <3>2. CallersWait'
      <4>1. CallersWait
        BY DEF IInv
      <4> QED BY <1>1, <1>3, <2>2, <4>1, CallersKept
    <3>3. LookupsFresh'
      BY <1>1, <1>3, Zenon DEF IInv, LookupsFresh, At, Busy
    <3>4. StampsGoForward'
      BY <1>1, <1>3, <2>2 DEF IInv, StampsGoForward, Known, Busy
    <3> QED BY <3>1, <3>2, <3>3, <3>4
  <2> QED BY <2>3, <2>4 DEF IInv
<1> QED BY <1>2, <1>3 DEF SendAttach

LEMMA HeartBeatKeepsIInv ==
    ASSUME IInv, NEW a \in Agents, HeartBeat(a)
    PROVE  IInv'
<1>1. /\ state[a] \in {"ATTACHED", "MONITOR"}
      /\ UNCHANGED <<alive, address, profile, restUp, handler, agents, held, answered, stamp, data,
                      restarts, late>>
    BY DEF HeartBeat, procVars
<1>2. PICK outcome \in Delivery :
        /\ Call(outcome)
        /\ started' = (started \/ (outcome # "undelivered" /\ Known(a)))
        /\ \/ /\ heartBeat' = [heartBeat EXCEPT ![a] = TimeStamp(a)]
              /\ state' = [state EXCEPT ![a] = "MONITOR"]
              /\ sending' = [sending EXCEPT ![a] = @ \/ state[a] = "ATTACHED"]
           \/ Register(a)
    BY DEF HeartBeat
<1>3. TypeOK'
  <2>1. started' \in BOOLEAN /\ lost' \in 0..MaxLost
    BY <1>2, CallBound DEF IInv, TypeOK
  <2>2. /\ heartBeat' \in [Agents -> 0..MaxStamp]
        /\ state' \in [Agents -> {"REGISTER", "CALLING", "ATTACHED", "MONITOR"}]
        /\ sending' \in [Agents -> BOOLEAN]
    <3>1. /\ heartBeat \in [Agents -> 0..MaxStamp] /\ sending \in [Agents -> BOOLEAN]
          /\ state \in [Agents -> {"REGISTER", "CALLING", "ATTACHED", "MONITOR"}]
      BY DEF IInv, TypeOK
    <3>2. TimeStamp(a) \in 0..MaxStamp
      BY TimeStampType DEF IInv
    <3>3. (sending[a] \/ state[a] = "ATTACHED") \in BOOLEAN
      OBVIOUS
    <3>4. CASE Register(a)
      BY <3>1, <3>4 DEF Register
    <3>5. CASE /\ heartBeat' = [heartBeat EXCEPT ![a] = TimeStamp(a)]
               /\ state' = [state EXCEPT ![a] = "MONITOR"]
               /\ sending' = [sending EXCEPT ![a] = @ \/ state[a] = "ATTACHED"]
      <4>1. heartBeat' \in [Agents -> 0..MaxStamp]
        BY <3>1, <3>2, <3>5
      <4>2. state' \in [Agents -> {"REGISTER", "CALLING", "ATTACHED", "MONITOR"}]
        BY <3>1, <3>5
      <4>3. sending' \in [Agents -> BOOLEAN]
        BY <3>1, <3>3, <3>5
      <4> QED BY <4>1, <4>2, <4>3
    <3> QED BY <1>2, <3>4, <3>5
  <2> QED BY <1>1, <2>1, <2>2 DEF IInv, TypeOK
<1>4. \A b \in Agents : b # a => state'[b] = state[b] /\ heartBeat'[b] = heartBeat[b]
    BY <1>2 DEF Register, IInv, TypeOK
<1>5. CallersWait'
  <2>1. \A t \in Busy : handler[t].waiting => handler[t].id # a /\ handler[t].id \in Agents
    BY <1>1, BusyType, Zenon DEF IInv, CallersWait
  <2>2. CallersWait
    BY DEF IInv
  <2> QED BY <1>1, <1>4, <2>1, <2>2, CallersKept, Zenon
<1>6. AddressesDistinct' /\ OneAgentPerAddress' /\ LookupsFresh'
    BY <1>1, Zenon DEF IInv, AddressesDistinct, OneAgentPerAddress, LookupsFresh, At, Busy
<1>7. StampsGoForward'
  <2>1. state'[a] = "MONITOR" => heartBeat'[a] = TimeStamp(a)
    BY <1>2, Zenon DEF Register, IInv, TypeOK
  <2>2. TimeStamp(a) <= stamp
    BY TimeStampType DEF IInv
  <2>3. ~started' => stamp' = 0
    BY <1>1, <1>2, ZenonT(60) DEF IInv, StampsGoForward
  <2> QED BY <1>1, <1>4, <2>1, <2>2, <2>3, Zenon DEF IInv, StampsGoForward, Known, Busy
<1> QED BY <1>3, <1>5, <1>6, <1>7 DEF IInv

(***************************************************************************)
(* A caller that gives up leaves its handler running and sets late.        *)
(***************************************************************************)
LEMMA AbandonedRequests ==
    ASSUME IInv, NEW a \in Agents, Abandon(a), NEW t \in Busy
    PROVE  /\ handler'[t].id = handler[t].id
           /\ handler'[t].address = handler[t].address
           /\ handler'[t].waiting = (handler[t].waiting /\ handler[t].id # a)
<1>1. handler[t] \in Request /\ t \in Threads
    BY BusyType DEF IInv
<1>2. handler'[t] = IF handler[t].id = a THEN [handler[t] EXCEPT !.waiting = FALSE] ELSE handler[t]
    BY <1>1 DEF Abandon
<1>3. CASE handler[t].id = a
    BY <1>1, <1>2, <1>3, ZenonT(60) DEF Request
<1>4. CASE handler[t].id # a
    BY <1>1, <1>2, <1>4 DEF Request
<1> QED BY <1>3, <1>4, Zenon

LEMMA AbandonKeeps ==
    ASSUME IInv, NEW a \in Agents, Abandon(a)
    PROVE  /\ handler' \in [Threads -> Request \union {Idle}] /\ Busy' = Busy
           /\ late' \in BOOLEAN /\ (~late' => ~late /\ handler' = handler)
<1>1. handler' = [t \in Threads |-> IF t \in Busy /\ handler[t].id = a
                                    THEN [handler[t] EXCEPT !.waiting = FALSE] ELSE handler[t]]
    BY DEF Abandon
<1>2. \A t \in Busy : handler[t] \in Request /\ t \in Threads
    BY BusyType DEF IInv
<1>3. \A t \in Busy : [handler[t] EXCEPT !.waiting = FALSE] \in Request
    BY <1>2, ZenonT(60) DEF Request
<1>4. handler' \in [Threads -> Request \union {Idle}] /\ Busy' = Busy
    BY <1>1, <1>3, IdleAssumption DEF IInv, TypeOK, Busy
<1>5. late' \in BOOLEAN
    BY DEF Abandon, IInv, TypeOK
<1>6. ASSUME ~late' PROVE ~late /\ handler' = handler
  <2>1. ~late /\ state[a] # "CALLING"
    BY <1>6, ZenonT(60) DEF Abandon, IInv, TypeOK
  <2>2. \A t \in Busy : handler[t].id # a
    BY <2>1 DEF IInv, LookupsFresh, CallersWait
  <2>3. handler' = [t \in Threads |-> handler[t]]
    BY <1>1, <2>2
  <2>4. handler = [t \in Threads |-> handler[t]]
    BY DEF IInv, TypeOK
  <2>5. handler' = handler
    BY ONLY <2>3, <2>4, Zenon
  <2> QED BY <2>1, <2>5
<1>7. ~late' => ~late /\ handler' = handler
    BY <1>6
<1> QED BY <1>4, <1>5, <1>7

LEMMA TimeOutKeepsIInv ==
    ASSUME IInv, NEW a \in Agents, TimeOut(a)
    PROVE  IInv'
<1>1. /\ Abandon(a) /\ state' = [state EXCEPT ![a] = "REGISTER"]
      /\ sending' = [sending EXCEPT ![a] = FALSE]
      /\ UNCHANGED <<alive, address, profile, heartBeat, restUp, agents, held, answered, started,
                      stamp, data, restarts>>
    BY DEF TimeOut, Register, procVars
<1>2. /\ handler' \in [Threads -> Request \union {Idle}]
      /\ late' \in BOOLEAN /\ (~late' => ~late /\ handler' = handler)
      /\ Busy' = Busy
    BY <1>1, AbandonKeeps
<1>a. \A t \in Busy : /\ handler'[t].id = handler[t].id
                     /\ handler'[t].address = handler[t].address
                     /\ handler'[t].waiting = (handler[t].waiting /\ handler[t].id # a)
    BY <1>1, AbandonedRequests, Zenon
<1>3. TypeOK'
  <2>1. lost' \in 0..MaxLost
    BY ConstantsAssumption DEF TimeOut, IInv, TypeOK
  <2>2. /\ state' \in [Agents -> {"REGISTER", "CALLING", "ATTACHED", "MONITOR"}]
        /\ sending' \in [Agents -> BOOLEAN]
    BY <1>1 DEF IInv, TypeOK
  <2> QED BY <1>1, <1>2, <2>1, <2>2, Zenon DEF IInv, TypeOK
<1>4. \A b \in Agents : (b # a => state'[b] = state[b]) /\ (b = a => state'[b] = "REGISTER")
    BY <1>1 DEF IInv, TypeOK
<1>5. \A t \in Busy : handler[t].id \in Agents
    BY BusyType DEF IInv
<1>6. CallersWait'
  <2> SUFFICES ASSUME NEW t \in Busy, handler'[t].waiting
               PROVE  /\ alive'[handler'[t].id]
                      /\ state'[handler'[t].id] = "CALLING"
                      /\ handler'[t].address = address'[handler'[t].id]
                      /\ \A u \in Busy : handler'[u].waiting /\ handler'[u].id = handler'[t].id => u = t
    BY <1>2, Zenon DEF CallersWait
  <2>1. /\ handler'[t].id = handler[t].id /\ handler'[t].address = handler[t].address
        /\ handler[t].waiting /\ handler[t].id # a /\ handler[t].id \in Agents
    BY <1>a, <1>5, ZenonT(60)
  <2>2. /\ alive[handler[t].id] /\ state[handler[t].id] = "CALLING"
        /\ handler[t].address = address[handler[t].id]
        /\ \A u \in Busy : handler[u].waiting /\ handler[u].id = handler[t].id => u = t
    BY <2>1, Zenon DEF IInv, CallersWait
  <2>3. \A u \in Busy : handler'[u].waiting /\ handler'[u].id = handler'[t].id => u = t
    BY <1>a, <2>1, <2>2, ZenonT(60)
  <2> QED BY <1>1, <1>4, <2>1, <2>2, <2>3, Zenon
<1>7. AddressesDistinct' /\ OneAgentPerAddress' /\ LookupsFresh'
    BY <1>1, <1>2, Zenon DEF IInv, AddressesDistinct, OneAgentPerAddress, LookupsFresh, At
<1>8. StampsGoForward'
  <2>1. \A b \in Agents : (\E t \in Busy' : handler'[t].id = b) => \E t \in Busy : handler[t].id = b
    BY <1>2, <1>a
  <2>2. \A b \in Agents : state'[b] = "MONITOR" => state[b] = "MONITOR" /\ heartBeat'[b] = heartBeat[b]
    BY <1>1, <1>4
  <2> QED BY <1>1, <2>1, <2>2, Zenon DEF IInv, StampsGoForward, Known
<1> QED BY <1>3, <1>6, <1>7, <1>8 DEF IInv

LEMMA AgentStartKeepsIInv ==
    ASSUME IInv, NEW a \in Agents, AgentStart(a)
    PROVE  IInv'
<1>1. PICK x \in Addresses, p \in Profiles :
        /\ \A b \in Agents : alive[b] => address[b] # x
        /\ address' = [address EXCEPT ![a] = x]
        /\ profile' = [profile EXCEPT ![a] = p]
    BY ZenonT(60) DEF AgentStart
<1>2. /\ ~alive[a] /\ alive' = [alive EXCEPT ![a] = TRUE]
      /\ UNCHANGED <<state, heartBeat, sending, restUp, handler, agents, held, answered, started,
                      stamp, late, data, restarts, lost>>
    BY DEF AgentStart, connVars, restVars
<1>3. TypeOK'
    BY <1>1, <1>2, Zenon DEF IInv, TypeOK
<1>4. /\ alive'[a] /\ address'[a] = x
      /\ \A b \in Agents : b # a => alive'[b] = alive[b] /\ address'[b] = address[b]
    BY <1>1, <1>2, Zenon DEF IInv, TypeOK
<1>5. AddressesDistinct'
  <2>1. AddressesDistinct /\ \A b \in Agents : alive[b] => address[b] # x
    BY <1>1 DEF IInv
  <2> QED BY ONLY <1>4, <2>1, Zenon DEF AddressesDistinct
<1>6. CallersWait'
  <2>1. \A t \in Busy : handler[t].waiting => handler[t].id # a /\ handler[t].id \in Agents
    BY <1>2, BusyType, Zenon DEF IInv, CallersWait
  <2>2. CallersWait
    BY DEF IInv
  <2> QED BY <1>2, <1>4, <2>1, <2>2, CallersKept, Zenon
<1>7. OneAgentPerAddress' /\ LookupsFresh' /\ StampsGoForward'
    BY <1>2, Zenon DEF IInv, OneAgentPerAddress, LookupsFresh, At, StampsGoForward, Known, Busy
<1> QED BY <1>3, <1>5, <1>6, <1>7 DEF IInv

LEMMA AgentStopKeepsIInv ==
    ASSUME IInv, NEW a \in Agents, AgentStop(a)
    PROVE  IInv'
<1>1. /\ Abandon(a) /\ alive' = [alive EXCEPT ![a] = FALSE]
      /\ state' = [state EXCEPT ![a] = "REGISTER"] /\ heartBeat' = [heartBeat EXCEPT ![a] = 0]
      /\ sending' = [sending EXCEPT ![a] = FALSE]
      /\ address' = [address EXCEPT ![a] = UnsetAddress]
      /\ profile' = [profile EXCEPT ![a] = UnsetProfile]
      /\ UNCHANGED <<restUp, agents, held, answered, started, stamp, data, lost>>
    BY DEF AgentStop
<1>2. /\ handler' \in [Threads -> Request \union {Idle}]
      /\ late' \in BOOLEAN /\ (~late' => ~late /\ handler' = handler)
      /\ Busy' = Busy
    BY <1>1, AbandonKeeps
<1>a. \A t \in Busy : /\ handler'[t].id = handler[t].id
                     /\ handler'[t].address = handler[t].address
                     /\ handler'[t].waiting = (handler[t].waiting /\ handler[t].id # a)
    BY <1>1, AbandonedRequests, Zenon
<1>3. TypeOK'
  <2>1. UnsetAddress \in Addresses /\ UnsetProfile \in Profiles
    BY ConstantsAssumption DEF UnsetAddress, UnsetProfile
  <2>2. restarts' \in 0..MaxRestarts /\ 0 \in 0..MaxStamp
    BY ConstantsAssumption DEF AgentStop, IInv, TypeOK
  <2>3. address' \in [Agents -> Addresses] /\ profile' \in [Agents -> Profiles]
    BY <1>1, <2>1, Zenon DEF IInv, TypeOK
  <2>4. alive' \in [Agents -> BOOLEAN] /\ sending' \in [Agents -> BOOLEAN]
    BY <1>1, Zenon DEF IInv, TypeOK
  <2>5. /\ state' \in [Agents -> {"REGISTER", "CALLING", "ATTACHED", "MONITOR"}]
        /\ heartBeat' \in [Agents -> 0..MaxStamp]
    BY <1>1, <2>2, Zenon DEF IInv, TypeOK
  <2> QED BY <1>1, <1>2, <2>2, <2>3, <2>4, <2>5, Zenon DEF IInv, TypeOK
<1>4. /\ ~alive'[a] /\ state'[a] = "REGISTER"
      /\ \A b \in Agents : b # a => /\ alive'[b] = alive[b] /\ address'[b] = address[b]
                                    /\ state'[b] = state[b] /\ heartBeat'[b] = heartBeat[b]
    BY <1>1, Zenon DEF IInv, TypeOK
<1>5. \A t \in Busy : handler[t].id \in Agents
    BY BusyType DEF IInv
<1>6. AddressesDistinct'
  <2>1. AddressesDistinct
    BY DEF IInv
  <2> QED BY ONLY <1>4, <2>1 DEF AddressesDistinct
<1>7. CallersWait'
  <2> SUFFICES ASSUME NEW t \in Busy, handler'[t].waiting
               PROVE  /\ alive'[handler'[t].id]
                      /\ state'[handler'[t].id] = "CALLING"
                      /\ handler'[t].address = address'[handler'[t].id]
                      /\ \A u \in Busy : handler'[u].waiting /\ handler'[u].id = handler'[t].id => u = t
    BY <1>2 DEF CallersWait
  <2>1. /\ handler'[t].id = handler[t].id /\ handler'[t].address = handler[t].address
        /\ handler[t].waiting /\ handler[t].id # a /\ handler[t].id \in Agents
    BY <1>a, <1>5, ZenonT(60)
  <2>2. /\ alive[handler[t].id] /\ state[handler[t].id] = "CALLING"
        /\ handler[t].address = address[handler[t].id]
        /\ \A u \in Busy : handler[u].waiting /\ handler[u].id = handler[t].id => u = t
    BY <2>1 DEF IInv, CallersWait
  <2>3. \A u \in Busy : handler'[u].waiting /\ handler'[u].id = handler'[t].id => u = t
    BY <1>a, <2>1, <2>2, ZenonT(60)
  <2>4. /\ alive'[handler[t].id] = alive[handler[t].id]
        /\ state'[handler[t].id] = state[handler[t].id]
        /\ address'[handler[t].id] = address[handler[t].id]
    BY <1>4, <2>1, Zenon
  <2> QED BY ONLY <2>1, <2>2, <2>3, <2>4, Zenon
<1>8. OneAgentPerAddress' /\ LookupsFresh'
  <2>1. agents' = agents
    BY <1>1
  <2>2. OneAgentPerAddress /\ LookupsFresh
    BY DEF IInv
  <2> QED BY ONLY <1>2, <2>1, <2>2 DEF OneAgentPerAddress, LookupsFresh, At
<1>9. StampsGoForward'
  <2>1. \A b \in Agents : (\E t \in Busy' : handler'[t].id = b) => \E t \in Busy : handler[t].id = b
    BY <1>2, <1>a
  <2>2. \A b \in Agents : state'[b] = "MONITOR" => state[b] = "MONITOR" /\ heartBeat'[b] = heartBeat[b]
    BY <1>1, <1>4
  <2> QED BY <1>1, <2>1, <2>2, Zenon DEF IInv, StampsGoForward, Known
<1> QED BY <1>3, <1>6, <1>7, <1>8, <1>9 DEF IInv

-----------------------------------------------------------------------------
(***************************************************************************)
(* A handler that ends leaves the others as they are; its caller, if it    *)
(* still waits, goes on.                                                   *)
(***************************************************************************)
LEMMA ReplyKeeps ==
    ASSUME IInv, NEW t \in Busy, NEW s \in {"REGISTER", "ATTACHED"}, Reply(t, s),
           UNCHANGED <<alive, address>>
    PROVE  /\ handler' \in [Threads -> Request \union {Idle}]
           /\ state' \in [Agents -> {"REGISTER", "CALLING", "ATTACHED", "MONITOR"}]
           /\ Busy' = Busy \ {t}
           /\ \A u \in Busy' : handler'[u] = handler[u]
           /\ \A b \in Agents : state'[b] = "MONITOR" => state[b] = "MONITOR"
           /\ CallersWait'
<1>1. handler \in [Threads -> Request \union {Idle}] /\ t \in Threads
    BY DEF IInv, TypeOK, Busy
<1>2. handler' = [handler EXCEPT ![t] = Idle]
    BY DEF Reply
<1>3. handler' \in [Threads -> Request \union {Idle}]
    BY <1>1, <1>2
<1>4. Busy' = Busy \ {t} /\ \A u \in Busy' : handler'[u] = handler[u]
    BY <1>1, <1>2 DEF Busy
<1>5. \A u \in Busy : handler[u].id \in Agents
    BY BusyType DEF IInv
<1>6. /\ state' \in [Agents -> {"REGISTER", "CALLING", "ATTACHED", "MONITOR"}]
      /\ \A b \in Agents : state'[b] = "MONITOR" => state[b] = "MONITOR"
    BY <1>5, Zenon DEF Reply, IInv, TypeOK
<1>7. \A b \in Agents : state'[b] = state[b] \/ (handler[t].waiting /\ b = handler[t].id)
    BY <1>5, SMTT(60) DEF Reply, IInv, TypeOK
<1>8. CallersWait'
  <2> SUFFICES ASSUME NEW u \in Busy', handler'[u].waiting
               PROVE  /\ alive'[handler'[u].id]
                      /\ state'[handler'[u].id] = "CALLING"
                      /\ handler'[u].address = address'[handler'[u].id]
                      /\ \A v \in Busy' : handler'[v].waiting /\ handler'[v].id = handler'[u].id => v = u
    BY Zenon DEF CallersWait
  <2>1. u \in Busy /\ u # t /\ handler'[u] = handler[u] /\ handler[u].waiting
    BY <1>4
  <2>2. /\ alive[handler[u].id] /\ state[handler[u].id] = "CALLING"
        /\ handler[u].address = address[handler[u].id]
        /\ \A v \in Busy : handler[v].waiting /\ handler[v].id = handler[u].id => v = u
    BY <2>1, Zenon DEF IInv, CallersWait
  <2>3. ~(handler[t].waiting /\ handler[u].id = handler[t].id)
    BY <2>1, <2>2, Zenon
  <2>4. state'[handler[u].id] = "CALLING"
    BY <1>5, <1>7, <2>1, <2>2, <2>3, Zenon
  <2> QED BY <1>4, <2>1, <2>2, <2>4, Zenon
<1> QED BY <1>3, <1>4, <1>6, <1>8

LEMMA LookupKeepsIInv ==
    ASSUME IInv, NEW t \in Threads, Lookup(t)
    PROVE  IInv'
<1>1. /\ t \in Busy /\ handler[t].step = "lookup"
      /\ UNCHANGED <<alive, address, profile, heartBeat, sending, restUp, agents, held, answered,
                      started, stamp, data, restarts, lost, late>>
    BY DEF Lookup, procVars
<1>2. AddressesDistinct' /\ OneAgentPerAddress'
    BY <1>1, Zenon DEF IInv, AddressesDistinct, OneAgentPerAddress
<1>3. CASE NotFound(handler[t]) /\ handler' = [handler EXCEPT ![t].step = "add"] /\ UNCHANGED state
  <2>1. handler[t] \in Request /\ handler \in [Threads -> Request \union {Idle}]
    BY <1>1, BusyType, Zenon DEF IInv, TypeOK
  <2> DEFINE r == [handler[t] EXCEPT !.step = "add"]
  <2>2. /\ r \in Request /\ r.id = handler[t].id /\ r.address = handler[t].address
        /\ r.waiting = handler[t].waiting /\ r.step = "add"
    BY <2>1 DEF Request
  <2>3. handler' = [handler EXCEPT ![t] = r]
    BY <1>3
  <2> HIDE DEF r
  <2>4. /\ handler' \in [Threads -> Request \union {Idle}] /\ Busy' = Busy
        /\ handler'[t] = r /\ \A u \in Busy : u # t => handler'[u] = handler[u]
    BY <1>1, <2>1, <2>2, <2>3, IdleAssumption, Zenon DEF Busy
  <2>5. TypeOK'
    BY <1>1, <1>3, <2>4 DEF IInv, TypeOK
  <2>6. \A u \in Busy : /\ handler'[u].id = handler[u].id
                       /\ handler'[u].address = handler[u].address
                       /\ handler'[u].waiting = handler[u].waiting
    BY <2>2, <2>4, Zenon
  <2>7. CallersWait'
    BY <1>1, <1>3, <2>4, <2>6 DEF IInv, CallersWait
  <2>8. LookupsFresh'
    BY <1>1, <1>3, <2>2, <2>4, <2>6 DEF IInv, LookupsFresh, NotFound, At
  <2>9. StampsGoForward'
    BY <1>1, <1>3, <2>4, <2>6 DEF IInv, StampsGoForward, Known
  <2> QED BY <1>2, <2>5, <2>7, <2>8, <2>9 DEF IInv
<1>4. CASE \E s \in {"REGISTER", "ATTACHED"} : Reply(t, s)
  <2>1. /\ handler' \in [Threads -> Request \union {Idle}]
        /\ state' \in [Agents -> {"REGISTER", "CALLING", "ATTACHED", "MONITOR"}]
        /\ Busy' = Busy \ {t}
        /\ \A u \in Busy' : handler'[u] = handler[u]
        /\ \A b \in Agents : state'[b] = "MONITOR" => state[b] = "MONITOR"
        /\ CallersWait'
    BY <1>1, <1>4, ReplyKeeps, Zenon
  <2>2. TypeOK'
    BY <1>1, <2>1, Zenon DEF IInv, TypeOK
  <2>3. LookupsFresh'
    <3> SUFFICES ASSUME ~late, NEW u \in Busy'
                 PROVE  /\ handler'[u].waiting
                        /\ handler'[u].step = "add" => At(handler[u].address)' = {}
      BY <1>1, Zenon DEF LookupsFresh
    <3>1. u \in Busy /\ handler'[u] = handler[u]
      BY <2>1
    <3>2. handler[u].waiting /\ (handler[u].step = "add" => At(handler[u].address) = {})
      BY <3>1, Zenon DEF IInv, LookupsFresh
    <3> QED BY <1>1, <3>1, <3>2, Zenon DEF At
  <2>4. StampsGoForward'
    BY <1>1, <2>1, Zenon DEF IInv, StampsGoForward, Known
  <2> QED BY <1>2, <2>1, <2>2, <2>3, <2>4 DEF IInv
<1> QED BY <1>3, <1>4 DEF Lookup

(***************************************************************************)
(* The look up of this handler found nothing and nobody has given up, so   *)
(* the address is still free; the other handlers have other addresses.     *)
(***************************************************************************)
LEMMA AddAgentKeepsIInv ==
    ASSUME IInv, NEW t \in Threads, AddAgent(t)
    PROVE  IInv'
<1> DEFINE n == New(handler[t], CHOOSE k \in FreeKeys : TRUE)
<1>1. /\ t \in Busy /\ handler[t].step = "add" /\ Reply(t, "ATTACHED") /\ agents' = agents \union {n}
      /\ UNCHANGED <<alive, address, profile, heartBeat, sending, restUp, held, answered, started,
                      stamp, data, restarts, lost, late>>
    BY ZenonT(60) DEF AddAgent, procVars
<1>2. n \in JsonAgent /\ n.id = handler[t].id /\ n.address = handler[t].address
  <2>1. (CHOOSE k \in FreeKeys : TRUE) \in Keys
    BY ZenonT(60) DEF AddAgent, FreeKeys
  <2> QED BY <1>1, <2>1, BusyType, ZenonT(60) DEF New, JsonAgent, IInv
<1> HIDE DEF n
<1>3. /\ handler' \in [Threads -> Request \union {Idle}]
      /\ state' \in [Agents -> {"REGISTER", "CALLING", "ATTACHED", "MONITOR"}]
      /\ Busy' = Busy \ {t}
      /\ \A u \in Busy' : handler'[u] = handler[u]
      /\ \A b \in Agents : state'[b] = "MONITOR" => state[b] = "MONITOR"
      /\ CallersWait'
    BY <1>1, ReplyKeeps, ZenonT(60)
<1>4. TypeOK'
  <2>1. TypeOK
    BY DEF IInv
  <2>2. agents' \subseteq JsonAgent
    BY <1>1, <1>2, <2>1, Zenon DEF TypeOK
  <2>3. /\ handler' \in [Threads -> Request \union {Idle}]
        /\ state' \in [Agents -> {"REGISTER", "CALLING", "ATTACHED", "MONITOR"}]
    BY <1>3, Zenon
  <2>4. UNCHANGED <<alive, address, profile, heartBeat, sending, restUp, held, answered, started,
                    stamp, data, restarts, lost, late>>
    BY <1>1, Zenon
  <2> QED BY ONLY <2>1, <2>2, <2>3, <2>4, Zenon DEF TypeOK
<1>5. AddressesDistinct'
    BY <1>1, ZenonT(60) DEF IInv, AddressesDistinct
<1>6. OneAgentPerAddress'
  <2>1. ~late => At(handler[t].address) = {}
    BY <1>1, Zenon DEF IInv, LookupsFresh
  <2> QED BY <1>1, <1>2, <2>1, Zenon DEF IInv, OneAgentPerAddress, At
<1>7. LookupsFresh'
  <2> SUFFICES ASSUME ~late, NEW u \in Busy'
               PROVE  /\ handler'[u].waiting
                      /\ handler'[u].step = "add" => At(handler[u].address)' = {}
    BY <1>1, Zenon DEF LookupsFresh
  <2>1. u \in Busy /\ u # t /\ handler'[u] = handler[u]
    BY <1>3
  <2>2. handler[u].waiting /\ (handler[u].step = "add" => At(handler[u].address) = {})
    BY <2>1, Zenon DEF IInv, LookupsFresh
  <2>3. handler[t].waiting
    <3>1. LookupsFresh /\ t \in Busy
      BY <1>1, Zenon DEF IInv
    <3> QED BY <3>1, Zenon DEF LookupsFresh
  <2>4. handler[t].id \in Agents /\ handler[u].id \in Agents /\ handler[t].id # handler[u].id
    BY <1>1, <2>1, <2>2, <2>3, BusyType, ZenonT(60) DEF IInv, CallersWait
  <2>5. handler[u].address # handler[t].address
    <3>1. alive[handler[t].id] /\ handler[t].address = address[handler[t].id]
      <4>1. CallersWait /\ t \in Busy
        BY <1>1, Zenon DEF IInv
      <4> QED BY ONLY <2>3, <4>1, Zenon DEF CallersWait
    <3>2. alive[handler[u].id] /\ handler[u].address = address[handler[u].id]
      BY <2>1, <2>2, Zenon DEF IInv, CallersWait
    <3>3. AddressesDistinct
      BY SMTT(60) DEF IInv
    <3> QED BY ONLY <2>4, <3>1, <3>2, <3>3, Zenon DEF AddressesDistinct
  <2> QED BY <1>1, <1>2, <2>1, <2>2, <2>5, Zenon DEF At
<1>8. StampsGoForward'
  <2>1. \A b \in Agents : Known(b)' => Known(b) \/ \E u \in Busy : handler[u].id = b
    BY <1>1, <1>2, Zenon DEF Known
  <2>2. \A b \in Agents : (\E u \in Busy' : handler'[u].id = b) => \E u \in Busy : handler[u].id = b
    BY <1>3, Zenon
  <2> QED BY <1>1, <1>3, <2>1, <2>2, ZenonT(60) DEF IInv, StampsGoForward
<1> QED BY <1>3, <1>4, <1>5, <1>6, <1>7, <1>8, SMTT(60) DEF IInv

-----------------------------------------------------------------------------
(***************************************************************************)
(* Every step of an agent, of the service and of the network keeps the     *)
(* inductive invariant.                                                    *)
(***************************************************************************)
THEOREM Invariance == Spec => []IInv
<1>1. IInv /\ [Next]_vars => IInv'
  <2> SUFFICES ASSUME IInv, [Next]_vars PROVE IInv'
    OBVIOUS
  <2>1. CASE UNCHANGED vars
    <3>1. UNCHANGED <<alive, address, profile, state, heartBeat, sending, restUp, handler, agents,
                      held, answered, started, stamp, late, data, restarts, lost>>
      BY <2>1 DEF vars, procVars, connVars, restVars
    <3>2. TypeOK' /\ AddressesDistinct' /\ OneAgentPerAddress'
      <4>1. TypeOK /\ AddressesDistinct /\ OneAgentPerAddress
        BY DEF IInv
      <4>2. TypeOK'
        BY ONLY <3>1, <4>1, Zenon DEF TypeOK
      <4> QED BY ONLY <3>1, <4>1, <4>2, Zenon DEF AddressesDistinct, OneAgentPerAddress
    <3>3. CallersWait'
      <4>1. CallersWait
        BY DEF IInv
      <4> QED BY <3>1, <4>1, CallersKept, Zenon
    <3>4. LookupsFresh'
      BY <3>1, ZenonT(60) DEF IInv, LookupsFresh, At, Busy
    <3>5. StampsGoForward'
      BY <3>1, Zenon DEF IInv, StampsGoForward, Known, Busy
    <3> QED BY <3>2, <3>3, <3>4, <3>5 DEF IInv
  <2>2. CASE Next
    BY <2>2, SendAttachKeepsIInv, TimeOutKeepsIInv, HeartBeatKeepsIInv, AgentStartKeepsIInv,
        AgentStopKeepsIInv, LookupKeepsIInv, AddAgentKeepsIInv, PollingKeepsIInv,
        ServiceKeepsIInv, Zenon DEF Next
  <2> QED BY <2>1, <2>2
<1> QED BY <1>1, InitIInv, PTL DEF Spec

(***************************************************************************)
(* handle_attach keeps addresses unique while no caller has given up, for  *)
(* any number of agents, threads and restarts.                             *)
(***************************************************************************)
THEOREM AddressesUnique == Spec => []OneAgentPerAddress
BY Invariance, PTL DEF IInv

\* What the service, the agents and the requests under way hold is of its type
\* (AgentManager, AmcConnectionManager).
THEOREM TypesCorrect == Spec => []TypeOK
BY Invariance, PTL DEF IInv

(***************************************************************************)
(* Resources of an agent that the service does not know come from an       *)
(* answer stored after JsonAgent::execute had removed the agent.           *)
(***************************************************************************)
THEOREM OrphansExplained == Spec => OrphansStoredLate
<1>1. IInv /\ [Next]_vars =>
        [\A a \in data' : ~Known(a)' => a \in answered \/ (a \in data /\ ~Known(a))]_vars
  <2> SUFFICES ASSUME IInv, Next, NEW a \in data', ~Known(a)', a \notin answered
               PROVE  a \in data /\ ~Known(a)
    OBVIOUS
  <2>1. CASE Poll
    <3>1. PICK e \in held : Execute(e)
      BY <2>1 DEF Poll
    <3>2. e \in JsonAgent /\ late' = late
      BY <3>1, Zenon DEF Execute, IInv, TypeOK
    <3>3. CASE agents' = Removed(e) /\ data' = Cleaned(e)
      BY <3>3 DEF Removed, Cleaned, Known
    <3>4. CASE data' = data /\ \E x \in {"none", "recent", "old"} : agents' = Marked(agents, e, x)
      <4>1. \A g \in agents : \E f \in agents' : g.id = f.id /\ g.address = f.address
        BY <3>2, <3>4, MarkedAgents, Zenon
      <4> QED BY <3>4, <4>1, SMTT(60) DEF Known
    <3>5. CASE data' = data /\ agents' = agents
      BY <3>5 DEF Known
    <3> QED BY <3>1, <3>3, <3>4, <3>5, Zenon DEF Execute, Failed
  <2>2. CASE FailureAges
    <3>1. PICK e \in agents \union held : agents' = Marked(agents, e, "old")
      BY <2>2 DEF FailureAges
    <3>2. e \in JsonAgent /\ late' = late /\ data' = data
      BY <2>2, Zenon DEF FailureAges, IInv, TypeOK
    <3>3. \A g \in agents : \E f \in agents' : g.id = f.id /\ g.address = f.address
      BY <3>1, <3>2, MarkedAgents
    <3> QED BY <3>2, <3>3, Zenon DEF Known
  <2>3. CASE RestStop
    BY <2>3 DEF RestStop
  <2>4. CASE Store
    BY <2>4 DEF Store, Known
  <2>5. CASE StartPolling \/ Tick \/ RestStart
    BY <2>5, Zenon DEF StartPolling, Tick, RestStart, Known
  <2>6. CASE \E t \in Threads : Lookup(t) \/ AddAgent(t)
    BY <2>6 DEF Lookup, AddAgent, Known
  <2>7. CASE \E b \in Agents : SendAttach(b) \/ TimeOut(b) \/ HeartBeat(b) \/ AgentStart(b) \/ AgentStop(b)
    <3>1. data' = data /\ agents' = agents
      BY <2>7, ZenonT(60) DEF SendAttach, TimeOut, HeartBeat, AgentStart, AgentStop, restVars
    <3> QED BY <3>1, SMTT(60) DEF Known
  <2> QED BY <2>1, <2>2, <2>3, <2>4, <2>5, <2>6, <2>7 DEF Next
<1> QED BY <1>1, Invariance, PTL DEF Spec, OrphansStoredLate

(***************************************************************************)
(* update_connection_state never gives up a good registration.             *)
(***************************************************************************)
THEOREM RegistrationKept == Spec => NoNeedlessRegistration
<1>1. IInv /\ [Next]_vars =>
        [\A a \in Agents : state[a] = "MONITOR" /\ state'[a] = "REGISTER" =>
            ~alive'[a] \/ ~restUp \/ lost' # lost \/ ~Known(a)]_vars
  <2> SUFFICES ASSUME IInv, Next, NEW a \in Agents, state[a] = "MONITOR", state'[a] = "REGISTER",
                      restUp, Known(a), lost' = lost
               PROVE  ~alive'[a]
    OBVIOUS
  <2>1. ~RestStop /\ ~(StartPolling \/ Poll \/ Store \/ FailureAges \/ Tick \/ RestStart)
    BY ZenonT(60) DEF RestStop, StartPolling, Poll, Execute, Store, FailureAges, Tick, RestStart, connVars
  <2>2. ASSUME NEW t \in Threads PROVE ~Lookup(t) /\ ~AddAgent(t)
    <3>1. ASSUME t \in Busy, NEW s, Reply(t, s) PROVE FALSE
      <4>0. TypeOK /\ handler[t].id \in Agents
        BY <3>1, BusyType DEF IInv
      <4>1. handler[t].waiting /\ handler[t].id = a
        <5>1. state \in [Agents -> {"REGISTER", "CALLING", "ATTACHED", "MONITOR"}]
          BY <4>0, Zenon DEF TypeOK
        <5>2. state' = IF handler[t].waiting THEN [state EXCEPT ![handler[t].id] = s] ELSE state
          BY <3>1 DEF Reply
        <5> QED BY <4>0, <5>1, <5>2
      <4> QED BY <3>1, <4>1, ZenonT(60) DEF IInv, CallersWait
    <3> QED BY <3>1, ZenonT(60) DEF Lookup, AddAgent
  <2>3. PICK b \in Agents : SendAttach(b) \/ TimeOut(b) \/ HeartBeat(b) \/ AgentStart(b) \/ AgentStop(b)
    BY <2>1, <2>2, ZenonT(60) DEF Next
  <2>4. ~SendAttach(b) /\ ~TimeOut(b) /\ ~AgentStart(b)
    BY ZenonT(60) DEF SendAttach, TimeOut, Register, AgentStart, IInv, TypeOK, connVars
  <2>5. CASE HeartBeat(b)
    <3>1. b = a
      BY <2>5, Zenon DEF HeartBeat, Register, IInv, TypeOK
    <3>2. PICK outcome \in Delivery :
            Call(outcome) /\ (outcome = "answered" /\ ~Restarted(a) => state'[a] = "MONITOR")
      BY <2>5, <3>1, Zenon DEF HeartBeat, IInv, TypeOK
    <3>3. outcome = "answered"
      BY <3>2, SMTT(60) DEF Call, IInv, TypeOK
    <3>4. Restarted(a)
      BY <3>2, <3>3, ZenonT(60)
    <3>5. heartBeat[a] <= stamp /\ (~started => stamp = 0)
      BY Zenon DEF IInv, StampsGoForward
    <3>6. TimeStamp(a) = stamp
      BY <3>5, Zenon DEF TimeStamp
    <3>7. stamp < heartBeat[a]
      BY <3>4, <3>6, Zenon DEF Restarted
    <3>8. stamp \in Nat /\ heartBeat[a] \in Nat
      BY DEF IInv, TypeOK
    <3> QED BY ONLY <3>5, <3>7, <3>8
  <2>6. CASE AgentStop(b)
    BY <2>6, Zenon DEF AgentStop, IInv, TypeOK
  <2> QED BY <2>3, <2>4, <2>5, <2>6, Zenon
<1> QED BY <1>1, Invariance, PTL DEF Spec, NoNeedlessRegistration

-----------------------------------------------------------------------------
(***************************************************************************)
(* The JsonAgents of one key, in the list and in the hands of the polling  *)
(* task, are one object: its address never changes.                        *)
(***************************************************************************)
KeysDistinct == \A e, f \in agents \union held : e.key = f.key => e.address = f.address

\* Marking an entry as failing adds no key (JsonAgent::execute).
LEMMA MarkedKeys ==
    ASSUME NEW S \in SUBSET JsonAgent, NEW e \in JsonAgent, NEW x
    PROVE  /\ \A f \in Marked(S, e, x) : \E g \in S : g.key = f.key /\ g.address = f.address
           /\ \A g \in S : \E f \in Marked(S, e, x) : g.key = f.key
<1> DEFINE m == [e EXCEPT !.error = x]
<1>1. m.key = e.key /\ m.address = e.address
    BY DEF JsonAgent
<1>2. Marked(S, e, x) = IF e \in S THEN (S \ {e}) \union {m} ELSE S
    BY DEF Marked
<1> HIDE DEF m
<1> QED BY <1>1, <1>2

\* Entries with the same key have the same address (AgentManager::add_agent).
LEMMA KeysKept == ASSUME IInv, KeysDistinct, [Next]_vars PROVE KeysDistinct'
<1>1. agents \in SUBSET JsonAgent /\ held \in SUBSET JsonAgent
    BY DEF IInv, TypeOK
<1>2. ASSUME NEW t \in Threads, AddAgent(t) PROVE KeysDistinct'
  <2> DEFINE k == CHOOSE j \in FreeKeys : TRUE
             n == New(handler[t], k)
  <2>1. k \in FreeKeys /\ agents' = agents \union {n} /\ held' = held
    BY <1>2, Zenon DEF AddAgent
  <2>2. n.key = k
    BY Zenon DEF New
  <2> HIDE DEF k, n
  <2>3. \A g \in agents \union held : g.key # k
    BY <2>1 DEF FreeKeys
  <2> QED BY <2>1, <2>2, <2>3 DEF KeysDistinct
<1>3. ASSUME ~(\E t \in Threads : AddAgent(t)), NEW f \in agents' \union held'
      PROVE  \E g \in agents \union held : g.key = f.key /\ g.address = f.address
  <2>1. CASE Poll
    <3>1. PICK e \in held : Execute(e)
      BY <2>1 DEF Poll
    <3>2. held' \subseteq held
      BY <3>1 DEF Execute
    <3>3. agents' \subseteq agents \/ \E x : agents' = Marked(agents, e, x)
      BY <3>1, ZenonT(60) DEF Execute, Removed, Failed
    <3>4. CASE f \in held'
      BY <3>2, <3>4
    <3>5. CASE f \in agents'
      BY <1>1, <3>1, <3>3, <3>5, MarkedKeys
    <3> QED BY <3>4, <3>5
  <2>2. CASE FailureAges
    <3>1. PICK e \in agents \union held :
            agents' = Marked(agents, e, "old") /\ held' = Marked(held, e, "old")
      BY <2>2 DEF FailureAges
    <3>2. e \in JsonAgent
      BY <1>1
    <3> QED BY <1>1, <3>1, <3>2, MarkedKeys
  <2>3. CASE StartPolling \/ RestStop
    BY <2>3, Zenon DEF StartPolling, RestStop
  <2>4. CASE UNCHANGED <<agents, held>>
    BY <2>4
  <2>5. CASE UNCHANGED vars
    BY <2>5, <2>4 DEF vars, restVars
  <2>6. CASE Store \/ Tick \/ RestStart
    BY <2>6, <2>4, Zenon DEF Store, Tick, RestStart
  <2>7. CASE \E t \in Threads : Lookup(t)
    BY <2>7, <2>4 DEF Lookup
  <2>8. CASE \E a \in Agents : SendAttach(a) \/ TimeOut(a) \/ HeartBeat(a)
                                \/ AgentStart(a) \/ AgentStop(a)
    BY <2>8, <2>4, ZenonT(60) DEF SendAttach, TimeOut, HeartBeat, AgentStart, AgentStop, restVars
  <2> QED BY <1>3, <2>1, <2>2, <2>3, <2>5, <2>6, <2>7, <2>8, ZenonT(60) DEF Next
<1>4. CASE ~(\E t \in Threads : AddAgent(t))
  <2> SUFFICES ASSUME NEW e \in agents' \union held', NEW f \in agents' \union held', e.key = f.key
               PROVE  e.address = f.address
    BY DEF KeysDistinct
  <2>1. PICK g \in agents \union held : g.key = e.key /\ g.address = e.address
    BY <1>3, <1>4
  <2>2. PICK h \in agents \union held : h.key = f.key /\ h.address = f.address
    BY <1>3, <1>4, Zenon
  <2> QED BY <2>1, <2>2, Zenon DEF KeysDistinct
<1> QED BY <1>2, <1>4

(***************************************************************************)
(* JsonAgent::execute forgets an agent that answers only because of        *)
(* another JsonAgent of its gami_id, or after a lost call.                 *)
(***************************************************************************)
THEOREM LiveAgentsStay == Spec => LiveAgentsKept
<1>1. Init => KeysDistinct
    BY DEF Init, KeysDistinct
<1>2. IInv /\ KeysDistinct /\ [Next]_vars =>
        [\A e \in agents : Answers(e.address) /\ restUp' /\ ~(\E f \in agents' : f.key = e.key) =>
            lost' # lost \/ \E f \in agents \union held : f.id = e.id /\ f.key # e.key]_vars
  <2> SUFFICES ASSUME IInv, KeysDistinct, Next, NEW e \in agents, Answers(e.address), restUp',
                      ~(\E f \in agents' : f.key = e.key), lost' = lost
               PROVE  \E f \in agents \union held : f.id = e.id /\ f.key # e.key
    OBVIOUS
  <2>1. agents \in SUBSET JsonAgent /\ held \in SUBSET JsonAgent /\ lost \in Nat
    <3>1. agents \subseteq JsonAgent /\ held \subseteq JsonAgent /\ lost \in 0..MaxLost
      BY Zenon DEF IInv, TypeOK
    <3> QED BY ONLY <3>1, ConstantsAssumption
  <2>2. ~(agents \subseteq agents') /\ e \notin agents'
    OBVIOUS
  <2>3. ~(Store \/ Tick \/ RestStart \/ RestStop \/ StartPolling)
    BY <2>2, Zenon DEF Store, Tick, RestStart, RestStop, StartPolling
  <2>4. ASSUME NEW t \in Threads PROVE ~Lookup(t) /\ ~AddAgent(t)
    BY <2>2, Zenon DEF Lookup, AddAgent
  <2>5. ASSUME NEW a \in Agents
        PROVE  ~SendAttach(a) /\ ~TimeOut(a) /\ ~HeartBeat(a) /\ ~AgentStart(a) /\ ~AgentStop(a)
    BY <2>2, Zenon DEF SendAttach, TimeOut, HeartBeat, AgentStart, AgentStop, restVars
  <2>a. ASSUME NEW f \in JsonAgent, NEW x PROVE agents' # Marked(agents, f, x)
    <3>1. \A g \in agents : \E h \in Marked(agents, f, x) : g.key = h.key
      BY <2>1, <2>a, MarkedKeys, ZenonT(40)
    <3> QED BY <3>1
  <2>6. ~FailureAges
    BY <2>1, <2>a, Zenon DEF FailureAges
  <2>7. PICK f \in held : Execute(f)
    BY <2>3, <2>4, <2>5, <2>6, ZenonT(60) DEF Next, Poll
  <2>8. ~(\E x : agents' = Marked(agents, f, x)) /\ agents' # agents
    BY <2>1, <2>2, <2>a
  <2>9. agents' = Removed(f) /\ ~Answers(f.address)
    <3>1. \/ agents' = Marked(agents, f, "none")
          \/ /\ Answers(f.address) => lost' = lost + 1
             /\ agents' = Removed(f) \/ agents' = Failed(f)
      BY <2>7, Zenon DEF Execute
    <3>2. agents' # Failed(f)
      BY <2>8 DEF Failed
    <3> QED BY <2>1, <2>8, <3>1, <3>2
  <2>10. f.id = e.id /\ f.address # e.address
    BY <2>2, <2>9 DEF Removed
  <2> QED BY <2>10, Zenon DEF KeysDistinct
<1> QED BY <1>1, <1>2, KeysKept, Invariance, PTL DEF Spec, LiveAgentsKept
=============================================================================
