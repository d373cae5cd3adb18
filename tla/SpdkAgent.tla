----------------------------- MODULE SpdkAgent -----------------------------
(***************************************************************************)
(* Volumes of the SPDK agent (agent/spdk): the commands AddVolume and      *)
(* DeleteVolume, the discovery, the periodic discovery and the garbage     *)
(* collector of main.cpp, and the shutdown of the agent.  Deletions are    *)
(* tasks of the TaskRunner's pool (Threadpool).  SPDK refuses to destroy a *)
(* snapshot that has clones, so the deletion of a snapshot only hides it:  *)
(* the record of it is in a database and the garbage collector destroys it *)
(* when it can.  Everything that holds spdk_mutex is one step.             *)
(***************************************************************************)
EXTENDS Threadpool

CONSTANTS
    Idents,     \* the UUID identifiers clients give volumes: the name in the alias
    Installations, \* what SPDK may hold when the agent is first started: for each
                   \* volume its identifier, if it is a snapshot, what it clones
    MaxVolumes, \* bound: logical volumes, the installed and the created ones
    MaxRestarts \* bound: starts of the agent after the first

ASSUME AgentBoundsAssumption == MaxVolumes \in Nat /\ MaxRestarts \in Nat
ASSUME IdentsAssumption == Idents # {}
ASSUME InstallationsAssumption == \A I \in Installations :
    /\ I \in Seq([ident : Idents, snapshot : BOOLEAN, source : Nat])
    /\ Len(I) <= MaxVolumes
    /\ \A v, w \in DOMAIN I : I[v].ident = I[w].ident => v = w
    /\ \A v \in DOMAIN I :
        \/ I[v].source = 0
        \/ I[v].source \in DOMAIN I /\ I[I[v].source].snapshot

\* A volume is known by the UUID SPDK gives it, which is never used again.  The
\* persistent UUID of its resource is a function of it.
Volumes == 1..MaxVolumes
None == 0

VARIABLES
    \* SPDK
    created,    \* logical volumes created so far
    lvols,      \* the logical volumes there are
    ident,      \* the name in the alias of each
    snapshots,  \* those that are snapshots
    source,     \* the snapshot each is a clone of
    \* the agent
    table,      \* state of the entries of the Volume manager
    replica,    \* entries whose replica info says snapshot
    hidden,     \* SpdkAgentContext::hidden_volumes
    record,     \* VolumeEntity records with hidden = 1
    request,    \* what a deletion task has captured
    todo,       \* volumes_to_remove of the collector's task, those left
    forgetting, \* the volume whose record the collector removes next
    main,       \* where main() is: up, or what it stops
    restarts,   \* restarts so far
    earlier,    \* deletions accepted before the last restart
    \* histories
    deleted,    \* volumes whose deletion, while Enabled, has succeeded
    let_go      \* volumes SPDK answered false for to the collector

spdk == <<created, lvols, ident, snapshots, source>>
memory == <<table, replica, hidden, request, todo, forgetting, main>>
history == <<deleted, let_go>>
agent_vars == <<vars, spdk, memory, record, restarts, earlier, history>>

States == {"none", "Enabled", "Absent"}
NoRequest == [volume |-> None, state |-> "none", snapshot |-> FALSE]

Known == 1..created

AgentTypeOK ==
    /\ TypeOK
    /\ created \in 0..MaxVolumes
    /\ lvols \subseteq Known /\ snapshots \subseteq Known
    /\ ident \in [Volumes -> Idents] /\ source \in [Volumes -> Known \cup {None}]
    /\ table \in [Volumes -> States]
    /\ replica \subseteq Known /\ hidden \subseteq Known /\ record \subseteq Known
    /\ request \in [Jobs -> [volume : Known \cup {None}, state : States, snapshot : BOOLEAN]]
    /\ todo \subseteq Known /\ forgetting \in Known \cup {None}
    /\ main \in {"up", "workers", "server", "pool"}
    /\ restarts \in 0..MaxRestarts /\ earlier \in Nat
    /\ deleted \subseteq Known /\ let_go \subseteq Known

Installed(I) ==
    LET Old == DOMAIN I IN
    /\ created = Len(I) /\ lvols = Old
    /\ ident = [v \in Volumes |-> IF v \in Old THEN I[v].ident ELSE CHOOSE x \in Idents : TRUE]
    /\ snapshots = {v \in Old : I[v].snapshot}
    /\ source = [v \in Volumes |-> IF v \in Old THEN I[v].source ELSE None]

AgentInit ==
    /\ Init
    /\ \E I \in Installations : Installed(I)
    /\ table = [v \in Volumes |-> IF v \in lvols THEN "Enabled" ELSE "none"]
    /\ replica = snapshots
    /\ hidden = {} /\ record = {}
    /\ request = [j \in Jobs |-> NoRequest]
    /\ todo = {} /\ forgetting = None
    /\ main = "up"
    /\ restarts = 0 /\ earlier = 0
    /\ deleted = {} /\ let_go = {}

-----------------------------------------------------------------------------
WithAlias(x) == {v \in lvols : ident[v] = x}
HasClones(v) == \E w \in lvols : source[w] = v
Destroyable(v) == v \in lvols /\ ~HasClones(v)

(***************************************************************************)
(* SPDK's destroy_lvol_bdev for the volumes a name stands for, one or      *)
(* none.  SPDK destroys a volume that has no clones and answers true, else *)
(* it answers false or with an error.  Any call may fail, and what a lost  *)
(* answer was about may have been done.                                    *)
(***************************************************************************)
destroy_lvol_bdev(V, answer) ==
    /\ \/ /\ answer \in {"true", "lost"}
          /\ \E v \in V : Destroyable(v) /\ lvols' = lvols \ {v}
       \/ answer = "lost" /\ UNCHANGED lvols
       \/ answer = "false" /\ (\A v \in V : ~Destroyable(v)) /\ UNCHANGED lvols
    /\ UNCHANGED <<created, ident, snapshots, source>>

(***************************************************************************)
(* SpdkVolumeDiscoverer::discover on the logical volumes, the records and  *)
(* the hidden volumes H there are now, and what refresh_volumes makes of   *)
(* the entries T with it.  When get_bdevs fails nothing is discovered.     *)
(***************************************************************************)
NoneByRecord == {}
HiddenByRecord == lvols' \cap record'
NowHidden(H, reached) == IF reached THEN H \cup HiddenByRecord ELSE H
Discovered(H, reached) == IF reached THEN lvols' \ NowHidden(H, TRUE) ELSE {}

Enable(T, V) == [v \in Volumes |-> IF v \in V THEN "Enabled" ELSE T[v]]
ReplicaOf(R, V) == (R \ V) \cup (V \cap snapshots')

refresh_volumes(H, T, R, reached) ==
    /\ hidden' = NowHidden(H, reached)
    /\ table' = Enable(T, Discovered(H, reached))
    /\ replica' = ReplicaOf(R, Discovered(H, reached))

-----------------------------------------------------------------------------
(***************************************************************************)
(* add_volume: a new volume, a snapshot of one that is not a snapshot, or  *)
(* a clone of a snapshot.  The identifier must not be that of an entry,    *)
(* and SPDK does not create two volumes with the same alias.  The call     *)
(* that reads the new volume back may fail (read), then there is a volume  *)
(* and no entry; and so may the one of refresh_volumes (reached).          *)
(***************************************************************************)
IdentNotLookedUp(x) == FALSE
IdentOfEntry(x) == \E v \in Volumes : table[v] # "none" /\ ident[v] = x
CanCreate(x) == created < MaxVolumes /\ ~IdentOfEntry(x) /\ WithAlias(x) = {}

Created(x) ==
    /\ created' = created + 1
    /\ lvols' = lvols \cup {created'}
    /\ ident' = [ident EXCEPT ![created'] = x]

AddEntry(read, reached) ==
    /\ IF read THEN refresh_volumes(hidden, [table EXCEPT ![created'] = "Enabled"], replica, reached)
               ELSE UNCHANGED <<hidden, table, replica>>
    /\ ~read => reached
    /\ UNCHANGED <<vars, request, todo, forgetting, main, restarts, earlier, history>>

ServerRuns == main # "pool"

AddNew(x, read, reached) ==
    /\ ServerRuns /\ CanCreate(x)
    /\ Created(x) /\ UNCHANGED <<snapshots, source, record>>
    /\ AddEntry(read, reached)

AddSnapshot(u, x, read, reached) ==
    /\ ServerRuns /\ CanCreate(x)
    /\ table[u] # "none" /\ u \notin replica
    /\ \E l \in WithAlias(ident[u]) \ snapshots :
        /\ Created(x)
        /\ snapshots' = snapshots \cup {created'}
        /\ source' = [source EXCEPT ![created'] = source[l], ![l] = created']
    /\ UNCHANGED record
    /\ AddEntry(read, reached)

AddClone(u, x, read, reached) ==
    /\ ServerRuns /\ CanCreate(x)
    /\ table[u] # "none" /\ u \in replica
    /\ \E l \in WithAlias(ident[u]) \cap snapshots :
        Created(x) /\ source' = [source EXCEPT ![created'] = l]
    /\ UNCHANGED <<snapshots, record>>
    /\ AddEntry(read, reached)

(***************************************************************************)
(* delete_volume takes a copy of the entry and leaves the rest to a task.  *)
(***************************************************************************)
DeleteVolume(u) ==
    /\ ServerRuns /\ table[u] # "none"
    /\ earlier + submitted < MaxJobs /\ RunJob
    /\ request' = [request EXCEPT ![submitted'] = [volume |-> u, state |-> table[u], snapshot |-> u \in replica]]
    /\ UNCHANGED <<spdk, table, replica, hidden, todo, forgetting, main, record, restarts, earlier,
                   history>>
(***************************************************************************)
(* The task of a deletion, on a thread i of the pool.  It goes by what the *)
(* command saw: an Absent volume is only taken out of the table, a         *)
(* snapshot is hidden, and any other is destroyed by its alias.            *)
(***************************************************************************)
Captured(i) == request[task[i]]

RemoveEntry(u, H, reached) ==
    refresh_volumes(H, [table EXCEPT ![u] = "none"], replica \ {u}, reached)

HideUnrecorded(u) == UNCHANGED record
Record(u) == record' = record \cup {u}

HideVolume(i, reached) ==
    LET r == Captured(i)
    IN  /\ r.state = "Enabled" /\ r.snapshot
        /\ Record(r.volume)
        /\ UNCHANGED spdk
        /\ RemoveEntry(r.volume, hidden \cup {r.volume}, reached)
        /\ deleted' = deleted \cup {r.volume}

DestroyVolume(i, answer, reached) ==
    LET r == Captured(i)
        V == WithAlias(ident[r.volume])
    IN  /\ r.state = "Enabled" /\ ~r.snapshot
        /\ destroy_lvol_bdev(V, answer)
        /\ UNCHANGED record
        /\ IF answer = "true"
           THEN RemoveEntry(r.volume, hidden, reached) /\ deleted' = deleted \cup {r.volume}
           ELSE reached /\ UNCHANGED <<table, replica, hidden, deleted>>

RemoveAbsent(i, reached) ==
    LET r == Captured(i)
    IN  /\ r.state = "Absent"
        /\ UNCHANGED <<spdk, record, deleted>>
        /\ RemoveEntry(r.volume, hidden, reached)

Answers == {"true", "false", "lost"}

DeleteTask(i) ==
    /\ EndTask(i)
    /\ \E reached \in BOOLEAN :
        \/ HideVolume(i, reached)
        \/ \E answer \in Answers : DestroyVolume(i, answer, reached)
        \/ RemoveAbsent(i, reached)
    /\ request' = [request EXCEPT ![task[i]] = NoRequest]
    /\ UNCHANGED <<todo, forgetting, main, restarts, earlier, let_go>>

-----------------------------------------------------------------------------
(***************************************************************************)
(* PeriodicDiscoveryManager::discover: entries of volumes that are not     *)
(* discovered become Absent.                                               *)
(***************************************************************************)
Rediscovered(V) == [v \in Volumes |-> IF v \in V THEN "Enabled"
                                      ELSE IF table[v] = "none" THEN "none" ELSE "Absent"]

PeriodicDiscovery(reached) ==
    /\ main \in {"up", "workers"}
    /\ UNCHANGED <<spdk, record>>
    /\ hidden' = NowHidden(hidden, reached)
    /\ table' = Rediscovered(Discovered(hidden, reached))
    /\ replica' = ReplicaOf(replica, Discovered(hidden, reached))
    /\ UNCHANGED <<vars, request, todo, forgetting, main, restarts, earlier, history>>

(***************************************************************************)
(* The task of the garbage collector.  It copies the set of hidden volumes *)
(* without the mutex, and destroys each under the mutex; what destroy      *)
(* answers it does not look at.  The record is removed later.              *)
(***************************************************************************)
CollectorIdle == todo = {} /\ forgetting = None

BeginCollection ==
    /\ main = "up" /\ CollectorIdle
    /\ todo' = hidden
    /\ UNCHANGED <<vars, spdk, table, replica, hidden, request, forgetting, main, record, restarts, earlier, history>>

Collected(v, answer) ==
    IF answer = "lost" THEN UNCHANGED <<hidden, forgetting>>
                       ELSE hidden' = hidden \ {v} /\ forgetting' = v

Collect(v, answer) ==
    /\ forgetting = None /\ v \in todo
    /\ todo' = todo \ {v}
    /\ IF v \in record
       THEN /\ destroy_lvol_bdev({v}, answer)
            /\ Collected(v, answer)
            /\ let_go' = IF answer = "false" THEN let_go \cup {v} ELSE let_go
       ELSE answer = "lost" /\ UNCHANGED <<spdk, hidden, forgetting, let_go>>
    /\ UNCHANGED <<vars, table, replica, request, main, record, restarts, earlier, deleted>>

Forget ==
    /\ forgetting # None
    /\ record' = record \ {forgetting} /\ forgetting' = None
    /\ UNCHANGED <<vars, spdk, table, replica, hidden, request, todo, main, restarts, earlier, history>>

-----------------------------------------------------------------------------
(***************************************************************************)
(* main(): after an interrupt it stops the workers, each when its task has *)
(* ended, then the server, then the pool.                                  *)
(***************************************************************************)
Interrupt == main = "up" /\ main' = "workers" /\ UNCHANGED vars
StopWorkers == main = "workers" /\ CollectorIdle /\ main' = "server" /\ UNCHANGED vars
StopServer == main = "server" /\ main' = "pool" /\ CallStop

Shutdown ==
    /\ Interrupt \/ StopWorkers \/ StopServer
    /\ UNCHANGED <<spdk, table, replica, hidden, request, todo, forgetting, record, restarts, earlier, history>>

Others == <<spdk, memory, record, restarts, earlier, history>>

ThreadStep(i) == (Pop(i) \/ Wait(i)) /\ UNCHANGED Others
StopPool == (PushStop \/ JoinThreads) /\ UNCHANGED Others
SpuriousWakeUp == (\E i \in ThreadIds : WakeUp(i)) /\ UNCHANGED Others

(***************************************************************************)
(* The agent dies, or has ended, and is started again:                     *)
(* DiscoveryManager::discover.                                             *)
(***************************************************************************)
Fresh ==
    /\ queue' = <<>>
    /\ thread' = [i \in ThreadIds |-> "check"] /\ task' = [i \in ThreadIds |-> Stop]
    /\ stopping' = "no" /\ pushed' = 0
    /\ submitted' = 0 /\ started' = <<>>

Restart(reached) ==
    /\ restarts < MaxRestarts /\ restarts' = restarts + 1
    /\ earlier' = earlier + submitted
    /\ Fresh
    /\ request' = [j \in Jobs |-> NoRequest]
    /\ todo' = {} /\ forgetting' = None /\ main' = "up"
    /\ UNCHANGED <<spdk, record>>
    /\ refresh_volumes({}, [v \in Volumes |-> "none"], {}, reached)
    /\ UNCHANGED history

Commands ==
    \/ \E x \in Idents, read, reached \in BOOLEAN :
        \/ AddNew(x, read, reached)
        \/ \E u \in Volumes : AddSnapshot(u, x, read, reached) \/ AddClone(u, x, read, reached)
    \/ \E u \in Volumes : DeleteVolume(u)

CollectNext == \E v \in todo, answer \in Answers : Collect(v, answer)
Discovery == \E reached \in BOOLEAN : PeriodicDiscovery(reached)

AgentNext ==
    \/ Commands
    \/ \E i \in ThreadIds : ThreadStep(i) \/ DeleteTask(i)
    \/ StopPool \/ SpuriousWakeUp
    \/ Discovery
    \/ BeginCollection \/ CollectNext \/ Forget
    \/ Shutdown
    \/ \E reached \in BOOLEAN : Restart(reached)

AgentSpec == AgentInit /\ [][AgentNext]_agent_vars

(***************************************************************************)
(* Threads are scheduled and calls of SPDK return.  Both workers run their *)
(* task again and again (fixed_delay_task), and main() goes on once it has *)
(* been interrupted.  A call of SPDK that is made again and again succeeds *)
(* in the end.  Nobody has to interrupt the agent or to send commands.     *)
(***************************************************************************)
AgentFairSpec ==
    /\ AgentSpec
    /\ \A i \in ThreadIds : WF_agent_vars(ThreadStep(i) \/ DeleteTask(i))
    /\ WF_agent_vars(StopPool)
    /\ WF_agent_vars(PeriodicDiscovery(TRUE))
    /\ WF_agent_vars(BeginCollection \/ CollectNext \/ Forget)
    /\ SF_agent_vars(\E v \in Volumes : Collect(v, "true"))
    /\ WF_agent_vars(Shutdown /\ main # "up")

-----------------------------------------------------------------------------
(***************************************************************************)
(* A volume that was deleted while it was Enabled does not come back, not  *)
(* after a restart either, except for a hidden one that SPDK answered      *)
(* false for when the collector wanted to destroy it (delete_volume, the   *)
(* hidden volumes of SpdkVolumeDiscoverer, garbage_collector_task).        *)
(***************************************************************************)
GoneForGood == \A u \in deleted : table[u] # "none" => u \in let_go

(***************************************************************************)
(* A logical volume is destroyed only if it was hidden, or if a deletion   *)
(* that has not ended names it.  The exception: such a deletion names an   *)
(* earlier volume of the same identifier that another deletion has removed *)
(* meanwhile, for delete_volume destroys by the alias it captured.         *)
(***************************************************************************)
DestroyedForCause ==
    [][\A v \in lvols \ lvols' :
          \/ v \in record
          \/ \E j \in Jobs : request[j].volume = v
          \/ \E j \in Jobs, u \in Volumes \ lvols :
                request[j].volume = u /\ ident[u] = ident[v] /\ table[u] = "none"
      ]_agent_vars

(***************************************************************************)
(* A thread of the pool ends only when every deletion the agent has        *)
(* accepted is begun: no STOP task overtakes a deletion, and none is       *)
(* accepted behind a STOP (the order main() stops things in).              *)
(***************************************************************************)
NoneAbandoned == (\E i \in ThreadIds : thread[i] = "ended") => Len(started) = submitted

(***************************************************************************)
(* Every deletion the agent has accepted is begun, also when the agent is  *)
(* stopped meanwhile, unless it dies (the order main() stops things in).   *)
(***************************************************************************)
DeletionsRun == Len(started) < submitted ~> Len(started) = submitted

(***************************************************************************)
(* After an interrupt main() returns: the collector ends its task, and all *)
(* threads of the pool end, unless the agent dies before (main, ~TaskRunner). *)
(***************************************************************************)
ShutdownEnds == main # "up" ~> stopping = "stopped" \/ main = "up"

(***************************************************************************)
(* Again and again no hidden volume is left that SPDK could destroy, also  *)
(* if the agent is restarted meanwhile (garbage_collector_task, and the    *)
(* discovery, which finds the hidden volumes of the records).              *)
(***************************************************************************)
HiddenDestroyed ==
    []<>(main # "up" \/ \A u \in lvols \cap record : HasClones(u) \/ u \in let_go)
=============================================================================
