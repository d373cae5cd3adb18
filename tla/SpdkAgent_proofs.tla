-------------------------- MODULE SpdkAgent_proofs --------------------------
(***************************************************************************)
(* Proofs that a deleted volume of the SPDK agent stays away over restarts *)
(* of the agent, that volumes are destroyed for a cause, that the pool     *)
(* begins every deletion, in order, and that its threads can be stopped,   *)
(* whatever the numbers of volumes, deletions, threads and restarts.       *)
(***************************************************************************)
EXTENDS SpdkAgent, FiniteSetTheorems, SequenceTheorems, WellFoundedInduction, TLAPS

-----------------------------------------------------------------------------
(***************************************************************************)
(* The inductive invariant.                                                *)
(***************************************************************************)
\* A thread that runs has a job, and a job that waits or runs names a volume.
RunsJobs == \A i \in ThreadIds : thread[i] = "running" => task[i] \in Jobs
NamesVolume == \A j \in Jobs : request[j].state # "none" => request[j].volume \in Known

EntriesKnown == \A v \in Volumes : table[v] # "none" => v \in Known

\* Of the volumes of an identifier only the one that is there has an entry.
OneIdent ==
    \A v \in lvols, u \in Known :
        u # v /\ ident[u] = ident[v] => u \notin lvols /\ table[u] = "none"

\* A record is removed only when its volume is gone, or let go.
ForgetsGone == forgetting # None => forgetting \notin lvols \/ forgetting \in let_go

\* A deleted volume that is still there has a record.
StaysAway == \A u \in deleted \ let_go : table[u] = "none" /\ (u \in lvols => u \in record)

IInv ==
    /\ AgentTypeOK /\ RunsJobs /\ NamesVolume
    /\ EntriesKnown /\ OneIdent /\ ForgetsGone /\ StaysAway

-----------------------------------------------------------------------------
(***************************************************************************)
(* Steps that leave the volumes alone.                                     *)
(***************************************************************************)
\* What SPDK, the agent and the records know of volumes (SpdkAgent).
Unmoved == <<spdk, table, replica, hidden, request, todo, forgetting, record, restarts, earlier, history>>

\* The invariant is about the volumes and the jobs (spdk, memory, record).
LEMMA SameVolumes ==
    ASSUME IInv, TypeOK', RunsJobs', main' \in {"up", "workers", "server", "pool"}, UNCHANGED Unmoved
    PROVE  IInv'
<1> USE DEF Unmoved, spdk, history
<1>1. AgentTypeOK'
    BY DEF IInv, AgentTypeOK, Known
<1>2. NamesVolume' /\ EntriesKnown'
    BY DEF IInv, NamesVolume, EntriesKnown, Known
<1>3. OneIdent' /\ ForgetsGone' /\ StaysAway'
    BY DEF IInv, OneIdent, ForgetsGone, StaysAway, Known
<1>4. QED
    BY <1>1, <1>2, <1>3 DEF IInv

\* push_back and push_front wake threads, and no thread that has a job.
LEMMA PushKeeps ==
    ASSUME TypeOK, RunsJobs, NEW x \in Jobs \cup {Stop},
           queue' = Append(queue, x), thread' = Woken, UNCHANGED task
    PROVE  /\ queue' \in Seq(Jobs \cup {Stop})
           /\ thread' \in [ThreadIds -> {"check", "wait", "running", "ended"}]
           /\ RunsJobs'
BY DEF TypeOK, RunsJobs, Woken

\* A job given to run() gets the next number and no thread runs it yet (Threadpool::run).
LEMMA RunJobKeeps ==
    ASSUME TypeOK, RunsJobs, RunJob
    PROVE  TypeOK' /\ RunsJobs' /\ submitted' \in Jobs
<1>1. submitted' \in Jobs /\ submitted' \in 0..MaxJobs
    BY MaxJobsAssumption DEF RunJob, TypeOK, Jobs
<1>2. queue' \in Seq(Jobs \cup {Stop}) /\ thread' \in [ThreadIds -> {"check", "wait", "running", "ended"}] /\ RunsJobs'
    BY <1>1, PushKeeps DEF RunJob, PushBack
<1>3. QED
    BY <1>1, <1>2 DEF RunJob, TypeOK

\* stop() gives no thread a job (stop_threads, join_threads).
LEMMA StopKeeps ==
    ASSUME TypeOK, RunsJobs, CallStop \/ PushStop \/ JoinThreads
    PROVE  TypeOK' /\ RunsJobs'
<1>1. CASE CallStop
    BY <1>1 DEF CallStop, TypeOK, RunsJobs
<1>2. CASE PushStop /\ pushed < Stops
    <2>1. queue' \in Seq(Jobs \cup {Stop}) /\ thread' \in [ThreadIds -> {"check", "wait", "running", "ended"}] /\ RunsJobs'
        BY <1>2, PushKeeps DEF PushStop, PushFront
    <2>2. QED
        BY <1>2, <2>1 DEF PushStop, TypeOK
<1>3. CASE PushStop /\ ~(pushed < Stops)
    BY <1>3 DEF PushStop, TypeOK, RunsJobs
<1>4. CASE JoinThreads
    BY <1>4 DEF JoinThreads, TypeOK, RunsJobs
<1>5. QED
    BY <1>1, <1>2, <1>3, <1>4

\* A thread that runs has the job it popped, any other has none (run_loop).
LEMMA ThreadKeeps ==
    ASSUME TypeOK, RunsJobs, NEW i \in ThreadIds, Pop(i) \/ Wait(i) \/ WakeUp(i) \/ EndTask(i)
    PROVE  TypeOK' /\ RunsJobs'
<1>1. CASE Pop(i)
    <2>1. Taken \in Jobs \cup {Stop} /\ Rest \in Seq(Jobs \cup {Stop})
        BY <1>1 DEF Pop, TypeOK, Taken, Rest
    <2>2. started' \in Seq(Jobs)
        BY <1>1, <2>1 DEF Pop, TypeOK
    <2>3. RunsJobs'
        BY <1>1, <2>1 DEF Pop, TypeOK, RunsJobs
    <2>4. QED
        BY <1>1, <2>1, <2>2, <2>3 DEF Pop, TypeOK
<1>2. CASE Wait(i) \/ WakeUp(i)
    BY <1>2 DEF Wait, WakeUp, TypeOK, RunsJobs
<1>3. CASE EndTask(i)
    BY <1>3 DEF EndTask, TypeOK, RunsJobs
<1>4. QED
    BY <1>1, <1>2, <1>3
-----------------------------------------------------------------------------
(***************************************************************************)
(* The discovery shows volumes that are there and have no record.          *)
(***************************************************************************)
LEMMA RefreshIs ==
    ASSUME created' \in 0..MaxVolumes, lvols' \subseteq Known', snapshots' \subseteq Known',
           NEW H, H \subseteq Known', NEW T \in [Volumes -> States],
           NEW R, R \subseteq Known', NEW reached,
           refresh_volumes(H, T, R, reached)
    PROVE  /\ hidden' \subseteq Known' /\ replica' \subseteq Known'
           /\ table' \in [Volumes -> States]
           /\ \A v \in Volumes : table'[v] = T[v] \/ v \in lvols' \ record'
<1>1. hidden' \subseteq Known' /\ Discovered(H, reached) \subseteq lvols' \ record'
    BY DEF refresh_volumes, NowHidden, Discovered, HiddenByRecord
<1>2. replica' \subseteq Known'
    BY DEF refresh_volumes, ReplicaOf
<1>3. table' \in [Volumes -> States]
    BY DEF refresh_volumes, Enable, States
<1>4. QED
    BY <1>1, <1>2, <1>3 DEF refresh_volumes, Enable

\* The conjuncts about entries, from what a step may do to them.
LEMMA EntriesKept ==
    ASSUME IInv, AgentTypeOK', UNCHANGED <<created, ident>>,
           lvols' \subseteq lvols, let_go \subseteq let_go',
           \A v \in Volumes : (table[v] = "none" => table'[v] = "none") \/ v \in lvols' \ record',
           \A v \in deleted' \ let_go' : v \in deleted \/ (table'[v] = "none" /\ (v \in lvols' => v \in record')),
           \A v \in record \ record' : v \notin lvols \/ v \in let_go
    PROVE  EntriesKnown' /\ OneIdent' /\ StaysAway'
<1>1. Known' = Known /\ Known \subseteq Volumes
    BY AgentBoundsAssumption DEF IInv, AgentTypeOK, Known, Volumes
<1>2. EntriesKnown'
    BY <1>1 DEF IInv, AgentTypeOK, EntriesKnown
<1>3. OneIdent'
    BY <1>1, Zenon DEF IInv, AgentTypeOK, OneIdent
<1>4. StaysAway'
    BY <1>1, Zenon DEF IInv, AgentTypeOK, StaysAway
<1>5. QED
    BY <1>2, <1>3, <1>4

-----------------------------------------------------------------------------
(***************************************************************************)
(* Commands.                                                               *)
(***************************************************************************)
LEMMA AddKeeps ==
    ASSUME IInv, NEW x \in Idents, NEW read \in BOOLEAN, NEW reached \in BOOLEAN,
           CanCreate(x), Created(x), AddEntry(read, reached), UNCHANGED record,
           snapshots' \subseteq Known', source' \in [Volumes -> Known' \cup {None}]
    PROVE  IInv'
<1> DEFINE n == created + 1
           T == [table EXCEPT ![n] = "Enabled"]
<1>1. /\ created' = n /\ n \in Volumes /\ created' \in 0..MaxVolumes
      /\ n \notin Known /\ Known' = Known \cup {n} /\ Known' \subseteq Volumes
    BY AgentBoundsAssumption DEF IInv, AgentTypeOK, CanCreate, Created, Known, Volumes
<1>2. /\ lvols' = lvols \cup {n} /\ lvols' \subseteq Known'
      /\ ident' \in [Volumes -> Idents] /\ ident'[n] = x /\ \A v \in Known : ident'[v] = ident[v]
    BY <1>1 DEF IInv, AgentTypeOK, Created
<1>3. /\ hidden' \subseteq Known' /\ replica' \subseteq Known'
      /\ table' \in [Volumes -> States]
      /\ \A v \in Volumes : table'[v] = table[v] \/ v \in lvols' \ record'
    <2>1. CASE read
        <3>1. T \in [Volumes -> States] /\ n \notin record
            BY <1>1 DEF IInv, AgentTypeOK, States
        <3>2. refresh_volumes(hidden, T, replica, reached)
            BY <2>1, <1>1 DEF AddEntry
        <3>3. hidden \subseteq Known' /\ replica \subseteq Known'
              /\ created' \in 0..MaxVolumes /\ lvols' \subseteq Known'
            BY <1>1, <1>2 DEF IInv, AgentTypeOK
        <3>4. /\ hidden' \subseteq Known' /\ replica' \subseteq Known'
              /\ table' \in [Volumes -> States]
              /\ \A v \in Volumes : table'[v] = T[v] \/ v \in lvols' \ record'
            <4> HIDE DEF T
            <4> QED
                BY <3>1, <3>2, <3>3, RefreshIs
        <3>5. \A v \in Volumes : T[v] = table[v] \/ v \in lvols' \ record'
            BY <1>1, <1>2, <3>1 DEF IInv, AgentTypeOK
        <3>6. QED
            BY <3>4, <3>5
    <2>2. CASE ~read
        BY <2>2, <1>1, Zenon DEF AddEntry, IInv, AgentTypeOK
    <2>3. QED
        BY <2>1, <2>2
<1>4. TypeOK' /\ RunsJobs'
    BY Zenon DEF AddEntry, vars, IInv, AgentTypeOK, TypeOK, RunsJobs
<1>5. AgentTypeOK'
    <2>1. request' \in [Jobs -> [volume : Known' \cup {None}, state : States, snapshot : BOOLEAN]]
        BY <1>1, Zenon DEF AddEntry, IInv, AgentTypeOK
    <2>2. QED
        BY <1>1, <1>2, <1>3, <1>4, <2>1, Zenon DEF AddEntry, IInv, AgentTypeOK, history
<1>6. NamesVolume' /\ EntriesKnown'
    BY <1>1, <1>2, <1>3, Zenon DEF AddEntry, IInv, AgentTypeOK, NamesVolume, EntriesKnown
<1>7. \A u \in Known : ident[u] = x => u \notin lvols /\ table[u] = "none"
    BY <1>1 DEF CanCreate, IdentOfEntry, WithAlias, IInv, AgentTypeOK
<1>8. OneIdent'
    <2> SUFFICES ASSUME NEW v \in lvols', NEW u \in Known', u # v, ident'[u] = ident'[v]
                 PROVE  u \notin lvols' /\ table'[u] = "none"
        BY DEF OneIdent
    <2>1. u \in Known
        BY <1>1, <1>2, <1>7, Zenon DEF IInv, AgentTypeOK
    <2>2. u \notin lvols /\ table[u] = "none"
        BY <1>1, <1>2, <1>7, <2>1, Zenon DEF IInv, AgentTypeOK, OneIdent
    <2>3. QED
        BY <1>1, <1>2, <1>3, <2>1, <2>2
<1>9. ForgetsGone' /\ StaysAway'
    BY <1>1, <1>2, <1>3 DEF AddEntry, history, IInv, AgentTypeOK, ForgetsGone, StaysAway, None
<1>10. QED
    BY <1>4, <1>5, <1>6, <1>8, <1>9 DEF IInv

\* The invariant and the commands of clients (add_volume, delete_volume).
LEMMA CommandsKeep ==
    ASSUME IInv, Commands
    PROVE  IInv'
<1>1. CASE \E x \in Idents, read, reached \in BOOLEAN : AddNew(x, read, reached)
    <2> PICK x \in Idents, read \in BOOLEAN, reached \in BOOLEAN : AddNew(x, read, reached)
        BY <1>1
    <2>1. snapshots' \subseteq Known' /\ source' \in [Volumes -> Known' \cup {None}]
        BY DEF AddNew, Created, IInv, AgentTypeOK, Known
    <2>2. QED
        BY <2>1, AddKeeps DEF AddNew
<1>2. CASE \E x \in Idents, read, reached \in BOOLEAN, u \in Volumes : AddSnapshot(u, x, read, reached)
    <2> PICK x \in Idents, read \in BOOLEAN, reached \in BOOLEAN, u \in Volumes : AddSnapshot(u, x, read, reached)
        BY <1>2
    <2> PICK l \in WithAlias(ident[u]) :
            /\ Created(x)
            /\ snapshots' = snapshots \cup {created'}
            /\ source' = [source EXCEPT ![created'] = source[l], ![l] = created']
        BY Zenon DEF AddSnapshot
    <2>1. l \in Volumes /\ created' \in Known' /\ Known \subseteq Known'
        BY AgentBoundsAssumption DEF WithAlias, Created, IInv, AgentTypeOK, Known, Volumes
    <2>2. snapshots' \subseteq Known' /\ source' \in [Volumes -> Known' \cup {None}]
        BY <2>1 DEF IInv, AgentTypeOK
    <2>3. QED
        BY <2>2, AddKeeps, Zenon DEF AddSnapshot
<1>3. CASE \E x \in Idents, read, reached \in BOOLEAN, u \in Volumes : AddClone(u, x, read, reached)
    <2> PICK x \in Idents, read \in BOOLEAN, reached \in BOOLEAN, u \in Volumes : AddClone(u, x, read, reached)
        BY <1>3
    <2> PICK l \in WithAlias(ident[u]) : Created(x) /\ source' = [source EXCEPT ![created'] = l]
        BY Zenon DEF AddClone
    <2>1. l \in Known' /\ Known \subseteq Known'
        BY DEF WithAlias, Created, IInv, AgentTypeOK, Known
    <2>2. snapshots' \subseteq Known' /\ source' \in [Volumes -> Known' \cup {None}]
        BY <2>1, Zenon DEF AddClone, IInv, AgentTypeOK
    <2>3. QED
        BY <2>2, AddKeeps, Zenon DEF AddClone
<1>4. CASE \E u \in Volumes : DeleteVolume(u)
    <2> PICK u \in Volumes : DeleteVolume(u)
        BY <1>4
    <2>1. TypeOK' /\ RunsJobs' /\ submitted' \in Jobs
        BY RunJobKeeps, Zenon DEF DeleteVolume, IInv, AgentTypeOK
    <2>2. u \in Known /\ table[u] \in States
        BY Zenon DEF DeleteVolume, IInv, AgentTypeOK, EntriesKnown
    <2>3. /\ request' \in [Jobs -> [volume : Known \cup {None}, state : States, snapshot : BOOLEAN]]
          /\ \A j \in Jobs : request'[j].state # "none" => request'[j].volume \in Known
        BY <2>1, <2>2 DEF DeleteVolume, IInv, AgentTypeOK, NamesVolume
    <2>4. Known' = Known
        BY DEF DeleteVolume, spdk, Known
    <2>5. AgentTypeOK' /\ NamesVolume'
        BY <2>1, <2>3, <2>4, Zenon DEF DeleteVolume, IInv, AgentTypeOK, NamesVolume, spdk, history
    <2>6. EntriesKnown' /\ OneIdent' /\ ForgetsGone' /\ StaysAway'
        BY <2>4, Zenon DEF DeleteVolume, IInv, EntriesKnown, OneIdent, ForgetsGone, StaysAway, spdk, history
    <2>7. QED
        BY <2>1, <2>5, <2>6 DEF IInv
<1>5. QED
    BY <1>1, <1>2, <1>3, <1>4 DEF Commands
-----------------------------------------------------------------------------
(***************************************************************************)
(* The task of a deletion.                                                 *)
(***************************************************************************)
LEMMA RemoveEntryIs ==
    ASSUME IInv, UNCHANGED <<created, snapshots>>, lvols' \subseteq lvols,
           NEW u \in Known, NEW H, H \subseteq Known, NEW reached, RemoveEntry(u, H, reached)
    PROVE  /\ hidden' \subseteq Known /\ replica' \subseteq Known
           /\ table' \in [Volumes -> States]
           /\ \A v \in Volumes : table'[v] \in {table[v], "none"} \/ v \in lvols' \ record'
           /\ table'[u] = "none" \/ u \in lvols' \ record'
<1> DEFINE T == [table EXCEPT ![u] = "none"]
<1>1. Known' = Known /\ u \in Volumes
    BY AgentBoundsAssumption DEF IInv, AgentTypeOK, Known, Volumes
<1>2. /\ created' \in 0..MaxVolumes /\ lvols' \subseteq Known' /\ snapshots' \subseteq Known'
      /\ H \subseteq Known' /\ replica \ {u} \subseteq Known'
    BY <1>1 DEF IInv, AgentTypeOK
<1>3. T \in [Volumes -> States] /\ T[u] = "none" /\ \A v \in Volumes : T[v] \in {table[v], "none"}
    BY <1>1 DEF IInv, AgentTypeOK, States
<1>4. refresh_volumes(H, T, replica \ {u}, reached)
    BY DEF RemoveEntry
<1>5. /\ hidden' \subseteq Known' /\ replica' \subseteq Known'
      /\ table' \in [Volumes -> States]
      /\ \A v \in Volumes : table'[v] = T[v] \/ v \in lvols' \ record'
    <2> HIDE DEF T
    <2> QED
        BY <1>2, <1>3, <1>4, RefreshIs, Zenon
<1>6. QED
    <2> HIDE DEF T
    <2> QED
        BY <1>1, <1>3, <1>5

\* SPDK has one volume for an alias, and destroys that one.
LEMMA AliasDestroys ==
    ASSUME IInv, NEW u \in Known, destroy_lvol_bdev(WithAlias(ident[u]), "true")
    PROVE  lvols' \subseteq lvols /\ u \notin lvols'
<1>1. PICK v \in WithAlias(ident[u]) : lvols' = lvols \ {v}
    BY DEF destroy_lvol_bdev
<1>2. u \in lvols => u = v
    BY <1>1 DEF WithAlias, IInv, OneIdent
<1>3. QED
    BY <1>1, <1>2

\* The invariant and the task of a deletion (delete_volume).
LEMMA DeleteTaskKeeps ==
    ASSUME IInv, NEW i \in ThreadIds, DeleteTask(i)
    PROVE  IInv'
<1> DEFINE r == Captured(i)
           u == r.volume
<1>1. TypeOK' /\ RunsJobs'
    BY ThreadKeeps, Zenon DEF DeleteTask, IInv, AgentTypeOK
<1>2. task[i] \in Jobs
    BY DEF DeleteTask, EndTask, IInv, RunsJobs
<1>3. r.state # "none" => u \in Known
    BY <1>2 DEF Captured, IInv, NamesVolume
<1>4. PICK reached \in BOOLEAN :
        \/ HideVolume(i, reached)
        \/ \E answer \in Answers : DestroyVolume(i, answer, reached)
        \/ RemoveAbsent(i, reached)
    BY DEF DeleteTask
<1>5. /\ UNCHANGED <<created, ident, snapshots, source>> /\ lvols' \subseteq lvols
      /\ record \subseteq record' /\ record' \subseteq Known /\ deleted' \subseteq Known
      /\ hidden' \subseteq Known /\ replica' \subseteq Known /\ table' \in [Volumes -> States]
      /\ \A v \in Volumes : table'[v] \in {table[v], "none"} \/ v \in lvols' \ record'
      /\ \A v \in deleted' : v \in deleted \/ (table'[v] = "none" /\ (v \in lvols' => v \in record'))
    <2>1. CASE HideVolume(i, reached)
        <3>1. /\ u \in Known /\ UNCHANGED spdk
              /\ record' = record \cup {u} /\ deleted' = deleted \cup {u}
              /\ RemoveEntry(u, hidden \cup {u}, reached)
            BY <2>1, <1>3 DEF HideVolume, Record
        <3>2. hidden \cup {u} \subseteq Known
            BY <3>1 DEF IInv, AgentTypeOK
        <3>3. /\ hidden' \subseteq Known /\ replica' \subseteq Known
              /\ table' \in [Volumes -> States]
              /\ \A v \in Volumes : table'[v] \in {table[v], "none"} \/ v \in lvols' \ record'
              /\ table'[u] = "none" \/ u \in lvols' \ record'
            <4> HIDE DEF u
            <4> QED
                BY <3>1, <3>2, RemoveEntryIs DEF spdk
        <3>4. QED
            <4> HIDE DEF u
            <4> QED
                BY <3>1, <3>3, Zenon DEF spdk, IInv, AgentTypeOK
    <2>2. CASE \E answer \in Answers : DestroyVolume(i, answer, reached)
        <3> PICK answer \in Answers : DestroyVolume(i, answer, reached)
            BY <2>2
        <3>1. u \in Known /\ destroy_lvol_bdev(WithAlias(ident[u]), answer) /\ UNCHANGED record
            BY <1>3 DEF DestroyVolume
        <3>2. UNCHANGED <<created, ident, snapshots, source>> /\ lvols' \subseteq lvols
            <4> HIDE DEF u
            <4> QED
                BY <3>1 DEF destroy_lvol_bdev
        <3>3. CASE answer = "true"
            <4>1. RemoveEntry(u, hidden, reached) /\ deleted' = deleted \cup {u}
                BY <3>3, Zenon DEF DestroyVolume
            <4> HIDE DEF u
            <4>2. u \notin lvols'
                BY <3>1, <3>3, AliasDestroys
            <4>3. hidden \subseteq Known
                BY DEF IInv, AgentTypeOK
            <4>4. /\ hidden' \subseteq Known /\ replica' \subseteq Known
                  /\ table' \in [Volumes -> States]
                  /\ \A v \in Volumes : table'[v] \in {table[v], "none"} \/ v \in lvols' \ record'
                  /\ table'[u] = "none" \/ u \in lvols' \ record'
                BY <3>1, <3>2, <4>1, <4>3, RemoveEntryIs, Zenon
            <4>5. QED
                BY <3>1, <3>2, <4>1, <4>2, <4>4, Zenon DEF IInv, AgentTypeOK
        <3>4. CASE answer # "true"
            BY <3>1, <3>2, <3>4, Zenon DEF DestroyVolume, IInv, AgentTypeOK
        <3>5. QED
            BY <3>3, <3>4, Zenon
    <2>3. CASE RemoveAbsent(i, reached)
        <3>1. u \in Known /\ UNCHANGED <<spdk, record, deleted>> /\ RemoveEntry(u, hidden, reached)
            BY <2>3, <1>3 DEF RemoveAbsent
        <3>2. hidden \subseteq Known
            BY DEF IInv, AgentTypeOK
        <3>3. /\ hidden' \subseteq Known /\ replica' \subseteq Known
              /\ table' \in [Volumes -> States]
              /\ \A v \in Volumes : table'[v] \in {table[v], "none"} \/ v \in lvols' \ record'
            <4> HIDE DEF u
            <4> QED
                BY <3>1, <3>2, RemoveEntryIs DEF spdk
        <3>4. QED
            <4> HIDE DEF u
            <4> QED
                BY <3>1, <3>3, Zenon DEF spdk, IInv, AgentTypeOK
    <2>4. QED
        BY <1>4, <2>1, <2>2, <2>3, Zenon
<1>6. /\ request' \in [Jobs -> [volume : Known \cup {None}, state : States, snapshot : BOOLEAN]]
      /\ \A j \in Jobs : request'[j].state # "none" => request'[j].volume \in Known
    BY <1>2, Zenon DEF DeleteTask, NoRequest, States, IInv, AgentTypeOK, NamesVolume
<1>7. Known' = Known
    BY <1>5 DEF Known
<1>8. AgentTypeOK' /\ NamesVolume'
    BY <1>1, <1>5, <1>6, <1>7, Zenon DEF DeleteTask, IInv, AgentTypeOK, NamesVolume
<1>9. EntriesKnown' /\ OneIdent' /\ StaysAway'
    BY <1>5, <1>8, EntriesKept, Zenon DEF DeleteTask
<1>10. ForgetsGone'
    BY <1>5 DEF DeleteTask, IInv, ForgetsGone
<1>11. QED
    BY <1>1, <1>8, <1>9, <1>10 DEF IInv
-----------------------------------------------------------------------------
(***************************************************************************)
(* The periodic discovery and the garbage collector.                       *)
(***************************************************************************)
LEMMA DiscoveryKeeps ==
    ASSUME IInv, NEW reached \in BOOLEAN, PeriodicDiscovery(reached)
    PROVE  IInv'
<1>1. /\ UNCHANGED <<created, lvols, ident, snapshots, source, record>>
      /\ UNCHANGED <<request, todo, forgetting, main, restarts, earlier, deleted, let_go>>
    BY DEF PeriodicDiscovery, spdk, history
<1>2. TypeOK' /\ RunsJobs'
    BY Zenon DEF PeriodicDiscovery, vars, IInv, AgentTypeOK, TypeOK, RunsJobs
<1>3. Known' = Known
    BY <1>1 DEF Known
<1>4. hidden' \subseteq Known /\ Discovered(hidden, reached) \subseteq lvols \ record
    BY <1>1, Zenon DEF PeriodicDiscovery, NowHidden, Discovered, HiddenByRecord, IInv, AgentTypeOK
<1>5. replica' \subseteq Known
    BY <1>1, Zenon DEF PeriodicDiscovery, ReplicaOf, IInv, AgentTypeOK
<1>6. /\ table' \in [Volumes -> States]
      /\ \A v \in Volumes : (table[v] = "none" => table'[v] = "none") \/ v \in lvols' \ record'
    BY <1>1, <1>4 DEF PeriodicDiscovery, Rediscovered, States
<1>7. AgentTypeOK' /\ NamesVolume'
    BY <1>1, <1>2, <1>3, <1>4, <1>5, <1>6, Zenon DEF IInv, AgentTypeOK, NamesVolume
<1>8. EntriesKnown' /\ OneIdent' /\ StaysAway'
    BY <1>1, <1>6, <1>7, EntriesKept, Zenon
<1>9. ForgetsGone'
    BY <1>1 DEF IInv, ForgetsGone
<1>10. QED
    BY <1>2, <1>7, <1>8, <1>9 DEF IInv

\* The invariant and the steps of the collector (garbage_collector_task).
LEMMA CollectorKeeps ==
    ASSUME IInv, BeginCollection \/ CollectNext \/ Forget
    PROVE  IInv'
<1>1. /\ UNCHANGED <<vars, created, ident, snapshots, source, table, replica, request, main, restarts, earlier, deleted>>
      /\ lvols' \subseteq lvols /\ let_go \subseteq let_go' /\ let_go' \subseteq Known
      /\ record' \subseteq record /\ hidden' \subseteq hidden
      /\ todo' \subseteq Known /\ forgetting' \in Known \cup {None}
      /\ ForgetsGone'
      /\ \A v \in record \ record' : v \notin lvols \/ v \in let_go
    <2>1. CASE BeginCollection
        BY <2>1, Zenon DEF BeginCollection, spdk, history, IInv, AgentTypeOK, ForgetsGone
    <2>2. CASE CollectNext
        <3> PICK v \in todo, answer \in Answers : Collect(v, answer)
            BY <2>2 DEF CollectNext
        <3>1. v \in Known /\ v # None
            BY DEF IInv, AgentTypeOK, Known, None
        <3>2. CASE v \notin record
            BY <3>1, <3>2, Zenon DEF Collect, spdk, IInv, AgentTypeOK, ForgetsGone
        <3>3. CASE v \in record
            <4>1. destroy_lvol_bdev({v}, answer) /\ Collected(v, answer)
                BY <3>3 DEF Collect
            <4>2. /\ UNCHANGED <<created, ident, snapshots, source>> /\ lvols' \subseteq lvols
                  /\ answer = "true" => v \notin lvols'
                BY <4>1 DEF destroy_lvol_bdev
            <4>3. /\ let_go' = IF answer = "false" THEN let_go \cup {v} ELSE let_go
                  /\ UNCHANGED <<vars, table, replica, request, main, record, restarts, earlier, deleted>>
                  /\ todo' = todo \ {v} /\ forgetting = None
                BY <3>3 DEF Collect
            <4>4. hidden' \subseteq hidden /\ forgetting' \in {None, v} /\ ForgetsGone'
                BY <4>1, <4>2, <4>3, <3>1, Zenon DEF Collected, Answers, ForgetsGone
            <4>5. QED
                BY <3>1, <4>2, <4>3, <4>4, Zenon DEF IInv, AgentTypeOK
        <3>4. QED
            BY <3>2, <3>3, Zenon
    <2>3. CASE Forget
        BY <2>3, Zenon DEF Forget, spdk, history, IInv, AgentTypeOK, ForgetsGone
    <2>4. QED
        BY <2>1, <2>2, <2>3, Zenon
<1>2. TypeOK' /\ RunsJobs' /\ Known' = Known
    BY <1>1, Zenon DEF vars, IInv, AgentTypeOK, TypeOK, RunsJobs, Known
<1>3. AgentTypeOK' /\ NamesVolume'
    BY <1>1, <1>2, Zenon DEF IInv, AgentTypeOK, NamesVolume
<1>4. EntriesKnown' /\ OneIdent' /\ StaysAway'
    BY <1>1, <1>3, EntriesKept, Zenon DEF IInv, StaysAway
<1>5. QED
    BY <1>1, <1>2, <1>3, <1>4 DEF IInv

-----------------------------------------------------------------------------
(***************************************************************************)
(* The start of the agent, the first and the later ones.                   *)
(***************************************************************************)
LEMMA RestartKeeps ==
    ASSUME IInv, NEW reached \in BOOLEAN, Restart(reached)
    PROVE  IInv'
<1> DEFINE T == [v \in Volumes |-> "none"]
<1>1. /\ UNCHANGED <<created, lvols, ident, snapshots, source, record, deleted, let_go>>
      /\ todo' = {} /\ forgetting' = None /\ main' = "up" /\ restarts' \in 0..MaxRestarts
      /\ request' = [j \in Jobs |-> NoRequest] /\ earlier' = earlier + submitted
    BY AgentBoundsAssumption DEF Restart, spdk, history, IInv, AgentTypeOK
<1>2. TypeOK' /\ RunsJobs'
    BY MaxJobsAssumption DEF Restart, Fresh, TypeOK, RunsJobs
<1>3. Known' = Known
    BY <1>1 DEF Known
<1>4. /\ hidden' \subseteq Known' /\ replica' \subseteq Known'
      /\ table' \in [Volumes -> States]
      /\ \A v \in Volumes : table'[v] = T[v] \/ v \in lvols' \ record'
    <2>1. refresh_volumes({}, T, {}, reached)
        BY DEF Restart
    <2>2. T \in [Volumes -> States]
        BY DEF States
    <2>3. created' \in 0..MaxVolumes /\ lvols' \subseteq Known' /\ snapshots' \subseteq Known'
        BY <1>1, <1>3, Zenon DEF IInv, AgentTypeOK
    <2> HIDE DEF T
    <2>4. QED
        BY <2>1, <2>2, <2>3, RefreshIs, Zenon
<1>5. \A v \in Volumes : (table[v] = "none" => table'[v] = "none") \/ v \in lvols' \ record'
    BY <1>4
<1>6. earlier' \in Nat
    BY <1>1 DEF IInv, AgentTypeOK, TypeOK
<1>7. AgentTypeOK' /\ NamesVolume'
    BY <1>1, <1>2, <1>3, <1>4, <1>6, Zenon DEF IInv, AgentTypeOK, NamesVolume, NoRequest, States
<1>8. EntriesKnown' /\ OneIdent' /\ StaysAway'
    BY <1>1, <1>5, <1>7, EntriesKept, Zenon
<1>9. ForgetsGone'
    BY <1>1 DEF ForgetsGone
<1>10. QED
    BY <1>2, <1>7, <1>8, <1>9 DEF IInv

\* The invariant holds when the agent has been started for the first time (main).
LEMMA InitIInv == AgentInit => IInv
<1> SUFFICES ASSUME AgentInit PROVE IInv
    OBVIOUS
<1> PICK I \in Installations : Installed(I)
    BY DEF AgentInit
<1>1. /\ I \in Seq([ident : Idents, snapshot : BOOLEAN, source : Nat]) /\ Len(I) <= MaxVolumes
      /\ \A v, w \in DOMAIN I : I[v].ident = I[w].ident => v = w
      /\ \A v \in DOMAIN I : I[v].source = 0 \/ I[v].source \in DOMAIN I
    BY InstallationsAssumption, Zenon
<1>2. created = Len(I) /\ created \in 0..MaxVolumes /\ lvols = Known /\ DOMAIN I = Known /\ Known \subseteq Volumes
    <2>1. Len(I) \in Nat /\ DOMAIN I = 1..Len(I)
        BY <1>1
    <2>2. created = Len(I) /\ lvols = DOMAIN I
        BY DEF Installed
    <2>3. Len(I) <= MaxVolumes
        BY <1>1
    <2>4. QED
        BY <2>1, <2>2, <2>3, AgentBoundsAssumption DEF Known, Volumes
<1>3. ident \in [Volumes -> Idents] /\ \A v \in Known : ident[v] = I[v].ident
    <2> DEFINE d == CHOOSE x \in Idents : TRUE
    <2>1. d \in Idents
        BY IdentsAssumption
    <2>2. ident = [v \in Volumes |-> IF v \in Known THEN I[v].ident ELSE d]
        BY <1>2 DEF Installed
    <2>3. \A v \in Known : I[v].ident \in Idents
        <3> DEFINE S == [ident : Idents, snapshot : BOOLEAN, source : Nat]
        <3>1. I \in Seq(S)
            BY <1>1
        <3>2. \A e \in S : e.ident \in Idents
            OBVIOUS
        <3> HIDE DEF S
        <3>3. \A v \in Known : I[v] \in S
            BY <1>2, <3>1 DEF Known
        <3>4. QED
            BY <3>2, <3>3
    <2> HIDE DEF d
    <2>4. QED
        BY <1>2, <2>1, <2>2, <2>3
<1>4. snapshots \subseteq Known /\ source \in [Volumes -> Known \cup {None}]
    BY <1>1, <1>2, Zenon DEF Installed, None
<1>5. TypeOK /\ RunsJobs
    BY MaxJobsAssumption DEF AgentInit, Init, TypeOK, RunsJobs
<1>6. AgentTypeOK /\ NamesVolume
    BY <1>2, <1>3, <1>4, <1>5, AgentBoundsAssumption DEF AgentInit, AgentTypeOK, NamesVolume, NoRequest, States
<1>7. OneIdent
    BY <1>1, <1>2, <1>3 DEF OneIdent
<1>8. EntriesKnown /\ ForgetsGone /\ StaysAway
    BY <1>2 DEF AgentInit, EntriesKnown, ForgetsGone, StaysAway
<1>9. QED
    BY <1>5, <1>6, <1>7, <1>8 DEF IInv

\* Every step of the agent keeps the invariant (main, the commands, the pool).
LEMMA NextIInv == IInv /\ [AgentNext]_agent_vars => IInv'
<1> SUFFICES ASSUME IInv, [AgentNext]_agent_vars PROVE IInv'
    OBVIOUS
<1>1. CASE Commands
    BY <1>1, CommandsKeep
<1>2. CASE \E i \in ThreadIds : DeleteTask(i)
    BY <1>2, DeleteTaskKeeps
<1>3. CASE (\E i \in ThreadIds : ThreadStep(i)) \/ SpuriousWakeUp
    <2>1. TypeOK' /\ RunsJobs'
        BY <1>3, ThreadKeeps, Zenon DEF ThreadStep, SpuriousWakeUp, IInv, AgentTypeOK
    <2>2. UNCHANGED Unmoved /\ UNCHANGED main
        BY <1>3 DEF ThreadStep, SpuriousWakeUp, Others, memory, Unmoved
    <2>3. QED
        BY <2>1, <2>2, SameVolumes, Zenon DEF IInv, AgentTypeOK
<1>4. CASE StopPool
    <2>1. TypeOK' /\ RunsJobs'
        BY <1>4, StopKeeps DEF StopPool, IInv, AgentTypeOK
    <2>2. UNCHANGED Unmoved /\ UNCHANGED main
        BY <1>4 DEF StopPool, Others, memory, Unmoved
    <2>3. QED
        BY <2>1, <2>2, SameVolumes DEF IInv, AgentTypeOK
<1>5. CASE Discovery
    BY <1>5, DiscoveryKeeps DEF Discovery
<1>6. CASE BeginCollection \/ CollectNext \/ Forget
    BY <1>6, CollectorKeeps
<1>7. CASE Shutdown
    <2>1. UNCHANGED vars \/ CallStop
        BY <1>7 DEF Shutdown, Interrupt, StopWorkers, StopServer
    <2>2. TypeOK' /\ RunsJobs'
        BY <2>1, StopKeeps, Zenon DEF vars, IInv, AgentTypeOK, TypeOK, RunsJobs
    <2>3. UNCHANGED Unmoved /\ main' \in {"up", "workers", "server", "pool"}
        BY <1>7 DEF Shutdown, Interrupt, StopWorkers, StopServer, Unmoved
    <2>4. QED
        BY <2>2, <2>3, SameVolumes
<1>8. CASE \E reached \in BOOLEAN : Restart(reached)
    BY <1>8, RestartKeeps
<1>9. CASE UNCHANGED agent_vars
    <2>1. TypeOK' /\ RunsJobs'
        BY <1>9, Zenon DEF agent_vars, vars, IInv, AgentTypeOK, TypeOK, RunsJobs
    <2>2. UNCHANGED Unmoved /\ UNCHANGED main
        BY <1>9 DEF agent_vars, memory, Unmoved
    <2>3. QED
        BY <2>1, <2>2, SameVolumes DEF IInv, AgentTypeOK
<1>10. QED
    BY <1>1, <1>2, <1>3, <1>4, <1>5, <1>6, <1>7, <1>8, <1>9 DEF AgentNext

\* The invariant holds in every state of the agent (main, the commands).
THEOREM Invariance == AgentSpec => []IInv
BY InitIInv, NextIInv, PTL DEF AgentSpec

-----------------------------------------------------------------------------
\* A volume deleted while Enabled has no entry again, over restarts and
\* failures too, unless the collector has let it go (delete_volume,
\* SpdkVolumeDiscoverer::discover, garbage_collector_task).
THEOREM StaysGone == AgentSpec => []GoneForGood
<1>1. IInv => GoneForGood
    BY DEF IInv, StaysAway, GoneForGood
<1>2. QED
    BY <1>1, Invariance, PTL

(***************************************************************************)
(* Destruction.                                                            *)
(***************************************************************************)
LEMMA LvolsStay ==
    ASSUME IInv, [AgentNext]_agent_vars, ~(\E i \in ThreadIds : DeleteTask(i)), ~CollectNext
    PROVE  lvols \subseteq lvols'
<1>1. CASE Commands
    BY <1>1, Zenon DEF Commands, AddNew, AddSnapshot, AddClone, DeleteVolume, Created, spdk
<1>2. CASE (\E i \in ThreadIds : ThreadStep(i)) \/ SpuriousWakeUp \/ StopPool
    BY <1>2, Zenon DEF ThreadStep, SpuriousWakeUp, StopPool, Others, spdk
<1>3. CASE Discovery \/ BeginCollection \/ Forget \/ Shutdown \/ \E reached \in BOOLEAN : Restart(reached)
    BY <1>3, Zenon DEF Discovery, PeriodicDiscovery, BeginCollection, Forget, Shutdown, Restart, spdk
<1>4. CASE UNCHANGED agent_vars
    BY <1>4 DEF agent_vars, spdk
<1>5. QED
    BY <1>1, <1>2, <1>3, <1>4 DEF AgentNext

\* A step that destroys a volume has one of the three causes (destroy_lvol_bdev).
LEMMA CauseOfStep ==
    ASSUME IInv, [AgentNext]_agent_vars, NEW v \in lvols \ lvols'
    PROVE  \/ v \in record
           \/ \E j \in Jobs : request[j].volume = v
           \/ \E j \in Jobs, u \in Volumes \ lvols :
                 request[j].volume = u /\ ident[u] = ident[v] /\ table[u] = "none"
<1>1. CASE CollectNext
    BY <1>1, Zenon DEF CollectNext, Collect, destroy_lvol_bdev, spdk
<1>2. CASE \E i \in ThreadIds : DeleteTask(i)
    <2> PICK i \in ThreadIds : DeleteTask(i)
        BY <1>2
    <2> DEFINE u == request[task[i]].volume
    <2>1. task[i] \in Jobs
        BY DEF DeleteTask, EndTask, IInv, RunsJobs
    <2>2. PICK answer \in Answers, reached \in BOOLEAN : DestroyVolume(i, answer, reached)
        BY Zenon DEF DeleteTask, HideVolume, RemoveAbsent, spdk
    <2>3. u \in Known /\ destroy_lvol_bdev(WithAlias(ident[u]), answer)
        BY <2>1, <2>2, Zenon DEF DestroyVolume, Captured, IInv, NamesVolume
    <2> HIDE DEF u
    <2>4. v \in WithAlias(ident[u])
        BY <2>3 DEF destroy_lvol_bdev
    <2>5. u = v \/ (u \notin lvols /\ ident[u] = ident[v] /\ table[u] = "none")
        BY <2>3, <2>4, Zenon DEF WithAlias, IInv, OneIdent
    <2>6. u \in Volumes
        BY <2>3, AgentBoundsAssumption DEF IInv, AgentTypeOK, Known, Volumes
    <2>7. request[task[i]].volume = u
        BY DEF u
    <2>8. QED
        BY <2>1, <2>5, <2>6, <2>7, Zenon
<1>3. QED
    BY <1>1, <1>2, LvolsStay, Zenon

\* SPDK is told to destroy a volume only when it was hidden, when a deletion
\* names it, or when one names a removed volume of its alias (delete_volume,
\* garbage_collector_task).
THEOREM ForCause == AgentSpec => DestroyedForCause
<1> DEFINE Cause ==
        \A v \in lvols \ lvols' :
           \/ v \in record
           \/ \E j \in Jobs : request[j].volume = v
           \/ \E j \in Jobs, u \in Volumes \ lvols :
                 request[j].volume = u /\ ident[u] = ident[v] /\ table[u] = "none"
<1>1. IInv /\ [AgentNext]_agent_vars => [Cause]_agent_vars
    BY CauseOfStep, Zenon
<1>2. QED
    BY <1>1, Invariance, PTL DEF AgentSpec, DestroyedForCause
-----------------------------------------------------------------------------
(***************************************************************************)
(* The order of the jobs.  OnlyJobs is a recursive function; what it does  *)
(* to a longer queue follows by a least counterexample.                    *)
(***************************************************************************)
\* A set of natural numbers that is not empty has a least element.
LEMMA LeastNat ==
    ASSUME NEW T \in SUBSET Nat, T # {}
    PROVE  \E n \in T : \A m \in T : n <= m
<1> DEFINE R == OpToRel(<, Nat)
<1>1. \E n \in T : \A m \in T : ~(<<m, n>> \in R)
    BY NatLessThanWellFounded, WFMin, Zenon
<1>2. \A m, n \in Nat : m < n => <<m, n>> \in R
    BY DEF OpToRel
<1> HIDE DEF R
<1>3. PICK n \in T : \A m \in T : ~(<<m, n>> \in R)
    BY <1>1
<1>4. ASSUME NEW m \in T PROVE n <= m
    <2>1. m \in Nat /\ n \in Nat
        OBVIOUS
    <2>2. ~(m < n)
        BY <1>2, <1>3, <2>1, Zenon
    <2>3. QED
        BY ONLY <2>1, <2>2
<1>5. QED
    BY <1>4

\* Appending to a concatenation appends to its second part.
LEMMA ConcatAppend ==
    \A p, q \in Seq(Jobs), x \in Jobs : Append(p \o q, x) = p \o Append(q, x)
<1>1. SUFFICES ASSUME NEW p \in Seq(Jobs), NEW q \in Seq(Jobs), NEW x \in Jobs
               PROVE  Append(p \o q, x) = p \o Append(q, x)
    BY Zenon
<1>2. p \o q \in Seq(Jobs) /\ <<x>> \in Seq(Jobs)
    OBVIOUS
<1>3. Append(p \o q, x) = (p \o q) \o <<x>> /\ Append(q, x) = q \o <<x>>
    BY <1>2, AppendIsConcat, Zenon
<1>4. (p \o q) \o <<x>> = p \o (q \o <<x>>)
    BY <1>2, ConcatAssociative
<1>5. QED
    BY <1>3, <1>4, Zenon

\* A set of natural numbers without a least element is empty.
LEMMA NoLeast ==
    ASSUME NEW T \in SUBSET Nat, \A n \in T : n # 0 /\ n - 1 \in T
    PROVE  T = {}
<1>1. SUFFICES ASSUME T # {} PROVE FALSE
    OBVIOUS
<1>2. PICK n \in T : \A m \in T : n <= m
    BY <1>1, LeastNat
<1>3. n - 1 \in T /\ n \in Nat
    OBVIOUS
<1>4. n <= n - 1
    BY <1>2, <1>3
<1>5. QED
    BY ONLY <1>3, <1>4

\* The function in OnlyJobs(s): Counts says that g is it, up to n.
JobsStep(s, g, m) == IF m = 0 THEN <<>> ELSE IF s[m] = Stop THEN g[m - 1] ELSE Append(g[m - 1], s[m])
Counts(s, g, n) == g = [m \in 0..n |-> JobsStep(s, g, m)]

\* Such a function can be continued, so there is one (OnlyJobs).
LEMMA CountsMore ==
    ASSUME NEW s, NEW n \in Nat \ {0}, NEW h, Counts(s, h, n - 1)
    PROVE  \E g : Counts(s, g, n)
<1> DEFINE g == [m \in 0..n |-> IF m = n THEN JobsStep(s, h, n) ELSE h[m]]
<1>1. g = [m \in 0..n |-> g[m]] /\ g[n] = JobsStep(s, h, n)
    OBVIOUS
<1>2. ASSUME NEW m \in 0..n, m # n PROVE g[m] = h[m] /\ h[m] = JobsStep(s, h, m)
    <2>1. m \in 0..(n - 1)
        BY <1>2
    <2>2. h[m] = JobsStep(s, h, m)
        BY <2>1 DEF Counts
    <2>3. QED
        BY <1>2, <2>2
<1> HIDE DEF g
<1>3. ASSUME NEW m \in 0..n PROVE g[m] = JobsStep(s, g, m)
    <2>1. g[m] = JobsStep(s, h, m)
        BY <1>1, <1>2
    <2>2. m # 0 => m - 1 \in 0..n /\ m - 1 # n
        OBVIOUS
    <2>3. m # 0 => g[m - 1] = h[m - 1]
        BY <1>2, <2>2
    <2>4. QED
        BY <2>1, <2>3, Zenon DEF JobsStep
<1>4. Counts(s, g, n)
    BY <1>1, <1>3 DEF Counts
<1>5. QED
    BY <1>4

LEMMA CountsExist ==
    ASSUME NEW s, Len(s) \in Nat
    PROVE  \E g : Counts(s, g, Len(s)) /\ OnlyJobs(s) = g[Len(s)]
<1> DEFINE T == {n \in Nat : ~\E g : Counts(s, g, n)}
<1>1. ASSUME NEW n \in T PROVE n # 0 /\ n - 1 \in T
    <2>1. Counts(s, [m \in 0..0 |-> <<>>], 0)
        BY DEF Counts, JobsStep
    <2>2. n # 0 /\ n \in Nat \ {0} /\ n - 1 \in Nat
        BY <2>1
    <2>3. QED
        BY <2>2, CountsMore
<1>2. T = {}
    <2>1. T \in SUBSET Nat
        OBVIOUS
    <2> HIDE DEF T
    <2>2. QED
        BY <1>1, <2>1, NoLeast
<1> DEFINE k == CHOOSE h : Counts(s, h, Len(s))
<1>3. Counts(s, k, Len(s))
    BY <1>2
<1>4. OnlyJobs(s) = k[Len(s)]
    BY DEF OnlyJobs, Counts, JobsStep
<1>5. QED
    BY <1>3, <1>4, Zenon

\* The values of the function (OnlyJobs).
LEMMA CountsAt ==
    ASSUME NEW s, NEW n \in Nat, NEW g, Counts(s, g, n), NEW m \in 0..n
    PROVE  IF m = 0 THEN g[m] = <<>>
           ELSE m - 1 \in 0..n /\ g[m] = IF s[m] = Stop THEN g[m - 1] ELSE Append(g[m - 1], s[m])
<1>1. g[m] = JobsStep(s, g, m)
    BY DEF Counts
<1>2. m # 0 => m - 1 \in 0..n
    OBVIOUS
<1>3. QED
    BY <1>1, <1>2, Zenon DEF JobsStep

\* OnlyJobs leaves jobs only, and depends on the queue up to there only.
LEMMA CountsJobs ==
    ASSUME NEW s \in Seq(Jobs \cup {Stop}), NEW g, Counts(s, g, Len(s))
    PROVE  \A n \in 0..Len(s) : g[n] \in Seq(Jobs)
<1> DEFINE T == {n \in 0..Len(s) : g[n] \notin Seq(Jobs)}
<1>1. ASSUME NEW n \in T PROVE n # 0 /\ n - 1 \in T
    <2>1. n \in 0..Len(s) /\ Len(s) \in Nat /\ g[n] \notin Seq(Jobs)
        OBVIOUS
    <2>2. <<>> \in Seq(Jobs)
        OBVIOUS
    <2>3. n # 0 /\ n - 1 \in 0..Len(s) /\ g[n] = IF s[n] = Stop THEN g[n - 1] ELSE Append(g[n - 1], s[n])
        <3>1. IF n = 0 THEN g[n] = <<>>
              ELSE n - 1 \in 0..Len(s) /\ g[n] = IF s[n] = Stop THEN g[n - 1] ELSE Append(g[n - 1], s[n])
            BY <2>1, CountsAt, ZenonT(40)
        <3>2. n # 0
            BY <2>1, <2>2, <3>1, Zenon
        <3>3. QED
            BY <3>1, <3>2, Zenon
    <2>4. s[n] \in Jobs \cup {Stop}
        BY <2>1, <2>3
    <2>5. g[n - 1] \notin Seq(Jobs)
        BY <2>1, <2>3, <2>4
    <2>6. QED
        BY <2>3, <2>5
<1>2. T = {}
    <2>1. T \in SUBSET Nat
        OBVIOUS
    <2> HIDE DEF T
    <2>2. QED
        BY <1>1, <2>1, NoLeast
<1>3. QED
    BY <1>2

LEMMA CountsAgree ==
    ASSUME NEW s, NEW t, Len(s) \in Nat, Len(t) \in Nat, NEW g, NEW h,
           Counts(s, g, Len(s)), Counts(t, h, Len(t)),
           Len(s) <= Len(t), \A i \in 1..Len(s) : s[i] = t[i]
    PROVE  \A n \in 0..Len(s) : g[n] = h[n]
<1> DEFINE T == {n \in 0..Len(s) : g[n] # h[n]}
<1>1. ASSUME NEW n \in T PROVE n # 0 /\ n - 1 \in T
    <2>1. n \in 0..Len(s) /\ n \in 0..Len(t) /\ g[n] # h[n]
        OBVIOUS
    <2>2. g[n] = JobsStep(s, g, n)
        BY ONLY <2>1, Counts(s, g, Len(s)) DEF Counts
    <2>3. h[n] = JobsStep(t, h, n)
        BY ONLY <2>1, Counts(t, h, Len(t)) DEF Counts
    <2>4. n # 0 => s[n] = t[n] /\ n - 1 \in 0..Len(s)
        BY <2>1
    <2>5. QED
        BY <2>1, <2>2, <2>3, <2>4, Zenon DEF JobsStep
<1>2. T = {}
    <2>1. T \in SUBSET Nat
        OBVIOUS
    <2> HIDE DEF T
    <2>2. QED
        BY <1>1, <2>1, NoLeast
<1>3. QED
    BY <1>2

\* OnlyJobs of a queue with one more task (push_back, push_front).
LEMMA JobsOfAppend ==
    ASSUME NEW s \in Seq(Jobs \cup {Stop}), NEW x \in Jobs \cup {Stop}
    PROVE  /\ OnlyJobs(s) \in Seq(Jobs)
           /\ OnlyJobs(Append(s, x)) = IF x = Stop THEN OnlyJobs(s) ELSE Append(OnlyJobs(s), x)
<1> DEFINE t == Append(s, x)
           n == Len(s)
<1>1. /\ t \in Seq(Jobs \cup {Stop}) /\ n \in Nat /\ n + 1 \in Nat /\ Len(t) = n + 1
      /\ t[n + 1] = x /\ \A i \in 1..n : s[i] = t[i]
    OBVIOUS
<1> HIDE DEF t
<1>2. PICK g : Counts(s, g, n) /\ OnlyJobs(s) = g[n]
    BY <1>1, CountsExist, Zenon
<1>3. PICK h : Counts(t, h, n + 1) /\ OnlyJobs(t) = h[n + 1]
    BY <1>1, CountsExist, Zenon
<1>4. g[n] = h[n]
    BY <1>1, <1>2, <1>3, CountsAgree
<1>5. g[n] \in Seq(Jobs)
    BY <1>1, <1>2, CountsJobs
<1>6. n + 1 \in 0..(n + 1) /\ n + 1 # 0 /\ (n + 1) - 1 = n
    BY <1>1
<1>7. h[n + 1] = IF x = Stop THEN h[n] ELSE Append(h[n], x)
    BY <1>1, <1>3, <1>6, CountsAt
<1>8. QED
    BY <1>2, <1>3, <1>4, <1>5, <1>7, Zenon DEF t

\* OnlyJobs of a queue without its first task (wait_and_pop).
LEMMA JobsOfTail ==
    ASSUME NEW s \in Seq(Jobs \cup {Stop}), s # <<>>
    PROVE  OnlyJobs(s) = IF Head(s) = Stop THEN OnlyJobs(Tail(s)) ELSE <<Head(s)>> \o OnlyJobs(Tail(s))
<1> DEFINE t == Tail(s)
           n == Len(t)
           p == IF Head(s) = Stop THEN <<>> ELSE <<Head(s)>>
<1>1. /\ t \in Seq(Jobs \cup {Stop}) /\ n \in Nat /\ n + 1 \in Nat /\ Len(s) = n + 1
      /\ Head(s) = s[1] /\ s[1] \in Jobs \cup {Stop} /\ \A i \in 1..n : t[i] = s[i + 1] /\ s[i + 1] \in Jobs \cup {Stop}
    OBVIOUS
<1>2. p \in Seq(Jobs)
    BY <1>1
<1> HIDE DEF t
<1>3. PICK g : Counts(s, g, n + 1) /\ OnlyJobs(s) = g[n + 1]
    BY <1>1, CountsExist
<1>4. PICK h : Counts(t, h, n) /\ OnlyJobs(t) = h[n]
    BY <1>1, CountsExist
<1>5. \A m \in 0..n : h[m] \in Seq(Jobs)
    BY <1>1, <1>4, CountsJobs
<1>6. g[0] = <<>> /\ h[0] = <<>> /\ g[1] = IF s[1] = Stop THEN g[0] ELSE Append(g[0], s[1])
    <2>1. 0 \in 0..(n + 1) /\ 0 \in 0..n /\ 1 \in 0..(n + 1) /\ 1 - 1 = 0
        BY <1>1
    <2>2. QED
        BY <1>1, <1>3, <1>4, <2>1, CountsAt
<1>7. g[1] = p
    BY <1>1, <1>6
<1> HIDE DEF p
<1> DEFINE T == {m \in 0..n : g[m + 1] # p \o h[m]}
<1>8. ASSUME NEW m \in T PROVE m # 0 /\ m - 1 \in T
    <2>1. m \in 0..n /\ m \in Nat /\ g[m + 1] # p \o h[m]
        OBVIOUS
    <2>2. m # 0
        <3>1. 0 + 1 = 1 /\ p \o <<>> = p
            BY <1>2
        <3>2. QED
            BY <1>6, <1>7, <2>1, <3>1, Zenon
    <2>3. m \in 1..n /\ m - 1 \in 0..n /\ m + 1 \in 0..(n + 1) /\ m + 1 # 0 /\ (m + 1) - 1 = m /\ (m - 1) + 1 = m
        BY <1>1, <2>1, <2>2
    <2>4. g[m + 1] = IF s[m + 1] = Stop THEN g[m] ELSE Append(g[m], s[m + 1])
        BY <1>1, <1>3, <2>3, CountsAt
    <2>5. h[m] = IF s[m + 1] = Stop THEN h[m - 1] ELSE Append(h[m - 1], s[m + 1])
        <3>1. h[m] = IF t[m] = Stop THEN h[m - 1] ELSE Append(h[m - 1], t[m])
            <4>1. IF m = 0 THEN h[m] = <<>>
                  ELSE m - 1 \in 0..n /\ h[m] = IF t[m] = Stop THEN h[m - 1] ELSE Append(h[m - 1], t[m])
                <5>1. n \in Nat /\ m \in 0..n /\ Counts(t, h, n)
                    BY <1>1, <1>4, <2>1, Zenon
                <5>2. QED
                    BY ONLY <5>1, CountsAt, ZenonT(120)
            <4>2. QED
                BY <2>2, <4>1, Zenon
        <3>2. QED
            BY <1>1, <2>3, <3>1, Zenon
    <2>6. ASSUME g[m] = p \o h[m - 1] PROVE FALSE
        <3>1. p \in Seq(Jobs) /\ h[m - 1] \in Seq(Jobs) /\ s[m + 1] \in Jobs \cup {Stop}
            BY <1>1, <1>2, <1>5, <2>3, Zenon
        <3>2. CASE s[m + 1] = Stop
            BY <2>1, <2>4, <2>5, <2>6, <3>2, Zenon
        <3>3. CASE s[m + 1] # Stop
            <4>1. s[m + 1] \in Jobs
                BY <3>1, <3>3
            <4>2. Append(p \o h[m - 1], s[m + 1]) = p \o Append(h[m - 1], s[m + 1])
                BY ONLY <3>1, <4>1, ConcatAppend, Zenon
            <4>3. QED
                BY <2>1, <2>4, <2>5, <2>6, <3>3, <4>2, Zenon
        <3>4. QED
            BY <3>2, <3>3
    <2>7. QED
        BY <2>2, <2>3, <2>6, Zenon
<1>9. T = {}
    <2>1. T \in SUBSET Nat
        OBVIOUS
    <2> HIDE DEF T
    <2>2. QED
        BY <1>8, <2>1, NoLeast
<1>10. g[n + 1] = p \o h[n]
    BY <1>1, <1>9
<1>11. h[n] \in Seq(Jobs) /\ (Head(s) = Stop => p \o h[n] = h[n])
    <2>1. h[n] \in Seq(Jobs)
        BY <1>1, <1>5
    <2>2. <<>> \o h[n] = h[n]
        BY <2>1
    <2>3. QED
        BY <2>1, <2>2, Zenon DEF p
<1>12. QED
    BY <1>3, <1>4, <1>10, <1>11, Zenon DEF t, p

-----------------------------------------------------------------------------
\* A job pushed is the last, a STOP task is none (Threadpool::run, stop).
LEMMA PushInOrder ==
    ASSUME TypeOK, InOrderOnce, NEW x \in Jobs \cup {Stop}, queue' = Append(queue, x), UNCHANGED started,
           submitted' = IF x = Stop THEN submitted ELSE submitted + 1, x # Stop => x = submitted + 1
    PROVE  InOrderOnce'
<1> DEFINE n == submitted
           s == started
           q == OnlyJobs(queue)
<1>1. n \in Nat /\ s \in Seq(Jobs) /\ queue \in Seq(Jobs \cup {Stop}) /\ q \in Seq(Jobs)
    BY JobsOfAppend DEF TypeOK
<1>2. OnlyJobs(queue') = IF x = Stop THEN q ELSE Append(q, x)
    BY <1>1, JobsOfAppend, Zenon
<1>3. [j \in 1..n |-> j] = s \o q
    BY DEF InOrderOnce, Submitted
<1>4. CASE x = Stop
    BY <1>2, <1>3, <1>4 DEF InOrderOnce, Submitted
<1>5. CASE x # Stop
    <2>1. x \in Jobs /\ x = n + 1
        BY <1>5
    <2> HIDE DEF n, s, q
    <2>2. [j \in 1..(n + 1) |-> j] = Append([j \in 1..n |-> j], n + 1)
        BY <1>1
    <2>3. Append(s \o q, x) = s \o Append(q, x)
        BY <1>1, <2>1, ConcatAppend, Zenon
    <2>4. [j \in 1..(n + 1) |-> j] = s \o Append(q, x)
        BY <1>3, <2>1, <2>2, <2>3, Zenon
    <2>5. QED
        BY <1>2, <1>5, <2>4 DEF InOrderOnce, Submitted, n, s
<1>6. QED
    BY <1>4, <1>5

\* A job popped is the first one queued (wait_and_pop).
LEMMA PopInOrder ==
    ASSUME TypeOK, InOrderOnce, NEW i \in ThreadIds, Pop(i)
    PROVE  InOrderOnce'
<1> DEFINE s == started
           t == Tail(queue)
           x == Head(queue)
<1>1. /\ s \in Seq(Jobs) /\ queue \in Seq(Jobs \cup {Stop}) /\ queue # <<>>
      /\ t \in Seq(Jobs \cup {Stop}) /\ x \in Jobs \cup {Stop}
    BY DEF TypeOK, Pop
<1>2. OnlyJobs(t) \in Seq(Jobs)
    BY <1>1, JobsOfAppend, Zenon
<1>3. OnlyJobs(queue) = IF x = Stop THEN OnlyJobs(t) ELSE <<x>> \o OnlyJobs(t)
    BY <1>1, JobsOfTail
<1>4. queue' = t /\ started' = (IF x = Stop THEN s ELSE Append(s, x)) /\ UNCHANGED submitted
    BY DEF Pop, Taken, Rest
<1>5. x # Stop => s \o (<<x>> \o OnlyJobs(t)) = Append(s, x) \o OnlyJobs(t)
    <2>1. SUFFICES ASSUME x # Stop PROVE s \o (<<x>> \o OnlyJobs(t)) = Append(s, x) \o OnlyJobs(t)
        OBVIOUS
    <2>2. x \in Jobs /\ <<x>> \in Seq(Jobs)
        BY <1>1, <2>1
    <2> HIDE DEF s, x, t
    <2>3. Append(s, x) = s \o <<x>>
        BY <1>1, <2>2, AppendIsConcat, Zenon
    <2>4. (s \o <<x>>) \o OnlyJobs(t) = s \o (<<x>> \o OnlyJobs(t))
        BY <1>1, <1>2, <2>2, ConcatAssociative
    <2>5. QED
        BY <2>3, <2>4, Zenon
<1>6. s \o OnlyJobs(queue) = started' \o OnlyJobs(queue')
    <2> HIDE DEF s, x, t
    <2>1. QED
        BY <1>3, <1>4, <1>5, Zenon
<1>7. QED
    BY <1>4, <1>6, Zenon DEF InOrderOnce, Submitted

\* A pool without jobs has them in order (the constructor of Threadpool).
LEMMA NoneInOrder == [j \in 1..0 |-> j] = <<>> \o OnlyJobs(<<>>)
<1>1. PICK g : Counts(<<>>, g, 0) /\ OnlyJobs(<<>>) = g[0]
    <2>1. Len(<<>>) = 0
        OBVIOUS
    <2>2. QED
        BY <2>1, CountsExist
<1>2. g[0] = <<>>
    BY <1>1, CountsAt
<1>3. QED
    BY <1>1, <1>2

\* The commands that add volumes leave the pool and main() alone (add_volume).
LEMMA AddsLeavePool ==
    ASSUME Commands, ~\E u \in Volumes : DeleteVolume(u)
    PROVE  UNCHANGED vars /\ UNCHANGED main
<1>1. ASSUME NEW read, NEW reached, AddEntry(read, reached) PROVE UNCHANGED vars /\ UNCHANGED main
    BY <1>1, Zenon DEF AddEntry
<1> QED BY <1>1, ZenonT(40) DEF Commands, AddNew, AddSnapshot, AddClone

\* Every step of the agent keeps the jobs in order (SpdkAgent, Threadpool).
LEMMA NextInOrder ==
    ASSUME IInv, InOrderOnce, [AgentNext]_agent_vars
    PROVE  InOrderOnce'
<1>0. TypeOK
    BY Zenon DEF IInv, AgentTypeOK
<1>1. CASE UNCHANGED <<queue, submitted, started>>
    BY <1>1 DEF InOrderOnce, Submitted
<1>2. CASE Commands
    <2>1. CASE \E u \in Volumes : DeleteVolume(u)
        <3>1. RunJob
            BY <2>1, Zenon DEF DeleteVolume
        <3>2. submitted + 1 \in Jobs /\ submitted + 1 # Stop
            BY <1>0, <3>1, MaxJobsAssumption DEF RunJob, TypeOK, Jobs, Stop
        <3>3. queue' = Append(queue, submitted + 1) /\ submitted' = submitted + 1 /\ UNCHANGED started
            BY <3>1 DEF RunJob, PushBack
        <3>4. QED
            BY <1>0, <3>2, <3>3, PushInOrder
    <2>2. CASE ~\E u \in Volumes : DeleteVolume(u)
        BY <1>1, <1>2, <2>2, AddsLeavePool DEF vars
    <2>3. QED
        BY <2>1, <2>2
<1>3. CASE \E i \in ThreadIds : ThreadStep(i) \/ DeleteTask(i)
    <2>1. PICK i \in ThreadIds : Pop(i) \/ Wait(i) \/ EndTask(i)
        BY <1>3 DEF ThreadStep, DeleteTask
    <2>2. CASE Wait(i) \/ EndTask(i)
        BY <1>1, <2>2 DEF Wait, EndTask
    <2>3. QED
        BY <1>0, <2>1, <2>2, PopInOrder
<1>4. CASE StopPool
    <2>1. CASE PushStop /\ pushed < Stops
        <3>1. queue' = Append(queue, Stop) /\ UNCHANGED <<submitted, started>>
            BY <2>1 DEF PushStop, PushFront
        <3>2. QED
            BY <1>0, <3>1, PushInOrder
    <2>2. CASE ~(PushStop /\ pushed < Stops)
        BY <1>1, <1>4, <2>2, Zenon DEF StopPool, PushStop, JoinThreads
    <2>3. QED
        BY <2>1, <2>2
<1>5. CASE SpuriousWakeUp
    BY <1>1, <1>5 DEF SpuriousWakeUp, WakeUp
<1>6. CASE Discovery \/ BeginCollection \/ CollectNext \/ Forget \/ Shutdown
    <2>1. UNCHANGED vars \/ CallStop
        BY <1>6, Zenon DEF Discovery, PeriodicDiscovery, BeginCollection, CollectNext, Collect, Forget, Shutdown,
                    Interrupt, StopWorkers, StopServer
    <2>2. QED
        BY <1>1, <2>1 DEF vars, CallStop
<1>7. CASE \E reached \in BOOLEAN : Restart(reached)
    <2>1. queue' = <<>> /\ submitted' = 0 /\ started' = <<>>
        BY <1>7 DEF Restart, Fresh
    <2>2. QED
        BY <2>1, NoneInOrder DEF InOrderOnce, Submitted
<1>8. CASE UNCHANGED agent_vars
    BY <1>1, <1>8 DEF agent_vars, vars
<1>9. QED
    BY <1>2, <1>3, <1>4, <1>5, <1>6, <1>7, <1>8 DEF AgentNext

\* No job given to the pool is lost, run twice or overtaken by a later one,
\* whatever the number of threads, jobs and restarts (Threadpool::run,
\* ThreadQueue::wait_and_pop).
THEOREM JobsInOrder == AgentSpec => []InOrderOnce
<1>1. AgentInit => InOrderOnce
    <2>1. SUFFICES ASSUME AgentInit PROVE InOrderOnce
        OBVIOUS
    <2>2. queue = <<>> /\ submitted = 0 /\ started = <<>>
        BY <2>1 DEF AgentInit, Init
    <2>3. QED
        BY <2>2, NoneInOrder DEF InOrderOnce, Submitted
<1>2. IInv /\ InOrderOnce /\ [AgentNext]_agent_vars => InOrderOnce'
    BY NextInOrder
<1>3. QED
    BY <1>1, <1>2, Invariance, PTL DEF AgentSpec

-----------------------------------------------------------------------------
(***************************************************************************)
(* The STOP tasks.  Of a queue q to which p of them were pushed and from   *)
(* which e were taken, they are the last p - e tasks, and all of it once   *)
(* one was taken: jobs are queued before and never behind them.            *)
(***************************************************************************)
StopsLast(q, p, e) ==
    /\ e <= p /\ p - e <= Len(q)
    /\ \A k \in 1..Len(q) : q[k] = Stop <=> k > Len(q) - (p - e)
    /\ e > 0 => p - e = Len(q)

\* A job is pushed while there is no STOP task (Threadpool::run).
LEMMA StopsLastJob ==
    ASSUME NEW q \in Seq(Jobs \cup {Stop}), NEW x \in Jobs, StopsLast(q, 0, 0)
    PROVE  StopsLast(Append(q, x), 0, 0)
<1>1. /\ Len(q) \in Nat /\ Len(Append(q, x)) = Len(q) + 1
      /\ \A k \in 1..(Len(q) + 1) : Append(q, x)[k] = IF k = Len(q) + 1 THEN x ELSE q[k]
    OBVIOUS
<1>2. x # Stop
    BY MaxJobsAssumption DEF Jobs, Stop
<1> QED BY <1>1, <1>2 DEF StopsLast

\* A STOP task is pushed (Threadpool::stop_threads).
LEMMA StopsLastStop ==
    ASSUME NEW q \in Seq(Jobs \cup {Stop}), NEW p \in Nat, NEW e \in Nat, StopsLast(q, p, e)
    PROVE  StopsLast(Append(q, Stop), p + 1, e)
<1>1. /\ Len(q) \in Nat /\ Len(Append(q, Stop)) = Len(q) + 1
      /\ \A k \in 1..(Len(q) + 1) : Append(q, Stop)[k] = IF k = Len(q) + 1 THEN Stop ELSE q[k]
    OBVIOUS
<1> QED BY <1>1 DEF StopsLast

\* A task is popped (ThreadQueue::wait_and_pop).
LEMMA StopsLastPop ==
    ASSUME NEW q \in Seq(Jobs \cup {Stop}), q # <<>>, NEW p \in Nat, NEW e \in Nat, StopsLast(q, p, e)
    PROVE  StopsLast(Tail(q), p, IF Head(q) = Stop THEN e + 1 ELSE e)
<1>1. /\ Len(q) \in Nat \ {0} /\ Len(Tail(q)) = Len(q) - 1 /\ Head(q) = q[1]
      /\ \A k \in 1..(Len(q) - 1) : Tail(q)[k] = q[k + 1] /\ k + 1 \in 1..Len(q)
    OBVIOUS
<1>2. 1 \in 1..Len(q) /\ (Head(q) = Stop <=> 1 > Len(q) - (p - e))
    BY <1>1 DEF StopsLast
<1>3. CASE Head(q) = Stop
    BY <1>1, <1>2, <1>3 DEF StopsLast
<1>4. CASE Head(q) # Stop
    BY <1>1, <1>2, <1>4 DEF StopsLast
<1> QED BY <1>3, <1>4, Zenon

\* The inductive invariant of the pool and of the order main() stops things in.
Ended == {i \in ThreadIds : thread[i] = "ended"}

PoolInv ==
    /\ queue # <<>> => \A i \in ThreadIds : thread[i] # "wait"
    /\ StopsLast(queue, pushed, Cardinality(Ended))
    /\ pushed <= Stops
    /\ stopping = "no" => pushed = 0
    /\ stopping = "joining" => pushed = Stops
    /\ main # "pool" => stopping = "no"

\* The threads can be counted (Threadpool::m_threads).
LEMMA ThreadsCounted ==
    /\ Stops \in Nat /\ IsFiniteSet(Ended) /\ Cardinality(Ended) \in Nat
    /\ Cardinality(Unended) = Stops - Cardinality(Ended)
    /\ Cardinality(Ended) = 0 => Ended = {}
<1>1. Ended \in SUBSET ThreadIds /\ ThreadIds \cap Ended = Ended /\ Unended = ThreadIds \ Ended
    BY Zenon DEF Ended, Unended
<1>2. IsFiniteSet(Ended)
    BY <1>1, ThreadsAssumption, FS_Subset, Zenon
<1>3. Stops \in Nat /\ Cardinality(Ended) \in Nat
    BY <1>2, ThreadsAssumption, FS_CardinalityType, Zenon DEF Stops
<1>4. Cardinality(Unended) = Stops - Cardinality(Ended)
    BY <1>1, ThreadsAssumption, FS_Difference, ZenonT(40) DEF Stops
<1> QED BY <1>2, <1>3, <1>4, FS_EmptySet, Zenon

\* A push wakes every thread that waits (push_back, push_front).
LEMMA PushWakes ==
    ASSUME thread' = Woken
    PROVE  Ended' = Ended /\ \A i \in ThreadIds : thread'[i] # "wait"
<1>1. \A i \in ThreadIds : thread'[i] = IF thread[i] = "wait" THEN "check" ELSE thread[i]
    BY Zenon DEF Woken
<1> QED BY <1>1 DEF Ended

\* A thread goes on, and no other (run_loop).
LEMMA OneThread ==
    ASSUME TypeOK, NEW i \in ThreadIds, NEW w, w # "wait", thread[i] # "ended",
           thread' = [thread EXCEPT ![i] = w]
    PROVE  /\ (\A j \in ThreadIds : thread[j] # "wait") => \A j \in ThreadIds : thread'[j] # "wait"
           /\ Cardinality(Ended)' = IF w = "ended" THEN Cardinality(Ended) + 1 ELSE Cardinality(Ended)
<1>1. \A j \in ThreadIds : thread'[j] = IF j = i THEN w ELSE thread[j]
    BY Zenon DEF TypeOK
<1>2. w = "ended" => Ended' = Ended \cup {i}
    BY <1>1, Zenon DEF Ended
<1>3. w # "ended" => Ended' = Ended
    BY <1>1, Zenon DEF Ended
<1>4. i \notin Ended
    BY Zenon DEF Ended
<1>5. Cardinality(Ended \cup {i}) = Cardinality(Ended) + 1
    BY <1>4, ThreadsCounted, FS_AddElement, Zenon
<1> QED BY <1>1, <1>2, <1>3, <1>5, Zenon

\* The steps of a thread of the pool (wait_and_pop, run_loop).
LEMMA ThreadPool ==
    ASSUME TypeOK, PoolInv, NEW i \in ThreadIds, Pop(i) \/ Wait(i) \/ WakeUp(i) \/ EndTask(i), UNCHANGED main
    PROVE  PoolInv'
<1>0. queue \in Seq(Jobs \cup {Stop}) /\ pushed \in Nat /\ Cardinality(Ended) \in Nat
    BY ThreadsCounted, Zenon DEF TypeOK
<1>1. UNCHANGED <<stopping, pushed>>
    BY Zenon DEF Pop, Wait, WakeUp, EndTask
<1>2. CASE Pop(i)
  <2> DEFINE w == IF Head(queue) = Stop THEN "ended" ELSE "running"
  <2>1. /\ queue # <<>> /\ queue' = Tail(queue) /\ thread[i] = "check"
        /\ thread' = [thread EXCEPT ![i] = w]
    BY <1>2, Zenon DEF Pop, Taken, Rest
  <2>2. w # "wait" /\ (w = "ended" <=> Head(queue) = Stop) /\ thread[i] # "ended"
    BY <2>1
  <2> HIDE DEF w
  <2>3. /\ \A j \in ThreadIds : thread'[j] # "wait"
        /\ Cardinality(Ended)' = IF Head(queue) = Stop THEN Cardinality(Ended) + 1 ELSE Cardinality(Ended)
    BY <2>1, <2>2, OneThread, Zenon DEF PoolInv
  <2>4. StopsLast(queue', pushed, Cardinality(Ended)')
    BY <1>0, <2>1, <2>3, StopsLastPop, Zenon DEF PoolInv
  <2> QED BY <1>1, <2>3, <2>4, Zenon DEF PoolInv, Stops
<1>3. CASE Wait(i)
  <2>1. queue = <<>> /\ UNCHANGED queue /\ Ended' = Ended
    <3>1. thread[i] = "check" /\ thread' = [thread EXCEPT ![i] = "wait"] /\ queue = <<>> /\ UNCHANGED queue
      BY <1>3, Zenon DEF Wait
    <3>2. \A j \in ThreadIds : thread'[j] = IF j = i THEN "wait" ELSE thread[j]
      BY <3>1, Zenon DEF TypeOK
    <3> QED BY ONLY <3>1, <3>2 DEF Ended
  <2> QED BY <1>1, <2>1, Zenon DEF PoolInv, Stops
<1>4. CASE WakeUp(i) \/ EndTask(i)
  <2>1. thread[i] # "ended" /\ thread' = [thread EXCEPT ![i] = "check"] /\ UNCHANGED queue
    BY <1>4 DEF WakeUp, EndTask
  <2>2. "check" # "wait" /\ "check" # "ended"
    OBVIOUS
  <2>3. /\ (\A j \in ThreadIds : thread[j] # "wait") => \A j \in ThreadIds : thread'[j] # "wait"
        /\ Cardinality(Ended)' = Cardinality(Ended)
    BY <2>1, <2>2, OneThread, Zenon
  <2> QED BY <1>1, <2>1, <2>3, Zenon DEF PoolInv, Stops
<1> QED BY <1>2, <1>3, <1>4, Zenon

\* A deletion is accepted while the pool is not stopped (delete_volume).
LEMMA RunJobPool ==
    ASSUME TypeOK, PoolInv, RunJob, main # "pool", UNCHANGED main
    PROVE  PoolInv'
<1>1. /\ queue' = Append(queue, submitted + 1) /\ thread' = Woken /\ UNCHANGED <<stopping, pushed>>
      /\ submitted < MaxJobs
    BY Zenon DEF RunJob, PushBack
<1>2. submitted + 1 \in Jobs /\ queue \in Seq(Jobs \cup {Stop})
    BY <1>1, MaxJobsAssumption DEF TypeOK, Jobs
<1>3. Cardinality(Ended)' = Cardinality(Ended) /\ \A i \in ThreadIds : thread'[i] # "wait"
    BY <1>1, PushWakes, Zenon
<1>4. pushed = 0 /\ Cardinality(Ended) <= pushed /\ Cardinality(Ended) \in Nat
    BY ThreadsCounted, Zenon DEF PoolInv, StopsLast
<1>5. Cardinality(Ended) = 0
    BY ONLY <1>4
<1>6. StopsLast(queue', pushed, Cardinality(Ended)')
    BY <1>1, <1>2, <1>3, <1>4, <1>5, StopsLastJob, Zenon DEF PoolInv
<1> QED BY <1>1, <1>3, <1>6, Zenon DEF PoolInv, Stops

\* stop(true) in the end of main() (stop_threads, join_threads).
LEMMA StopPoolPool ==
    ASSUME TypeOK, PoolInv, ((PushStop \/ JoinThreads) /\ UNCHANGED main) \/ (StopServer /\ main # "pool")
    PROVE  PoolInv'
<1>0. queue \in Seq(Jobs \cup {Stop}) /\ pushed \in Nat /\ Cardinality(Ended) \in Nat /\ Stops \in Nat
    BY ThreadsCounted, Zenon DEF TypeOK
<1>1. CASE PushStop /\ UNCHANGED main /\ pushed < Stops
  <2>1. /\ queue' = Append(queue, Stop) /\ thread' = Woken /\ pushed' = pushed + 1
        /\ UNCHANGED stopping /\ stopping = "pushing"
    BY <1>1, Zenon DEF PushStop, PushFront
  <2>2. Cardinality(Ended)' = Cardinality(Ended) /\ \A i \in ThreadIds : thread'[i] # "wait"
    BY <2>1, PushWakes, Zenon
  <2>3. StopsLast(queue', pushed', Cardinality(Ended)')
    BY <1>0, <2>1, <2>2, StopsLastStop, Zenon DEF PoolInv
  <2>4. pushed' <= Stops /\ stopping' # "no" /\ stopping' # "joining"
    BY ONLY <1>0, <1>1, <2>1
  <2>5. main = "pool" /\ main' = "pool"
    <3>1. stopping # "no"
      BY ONLY <2>1
    <3> QED BY <1>1, <3>1, Zenon DEF PoolInv
  <2> QED BY <2>2, <2>3, <2>4, <2>5, Zenon DEF PoolInv, Stops
<1>2. CASE (PushStop /\ UNCHANGED main /\ ~(pushed < Stops)) \/ (JoinThreads /\ UNCHANGED main)
  <2>1. /\ UNCHANGED <<queue, thread, pushed, main>> /\ stopping \in {"pushing", "joining"}
        /\ \/ stopping' = "joining" /\ ~(pushed < Stops)
           \/ stopping' = "stopped"
    BY <1>2, Zenon DEF PushStop, JoinThreads
  <2>2. stopping # "no" /\ stopping' # "no" /\ (stopping' = "joining" => ~(pushed < Stops))
    BY ONLY <2>1
  <2>3. pushed <= Stops /\ main = "pool" /\ Ended' = Ended
    BY <2>1, <2>2, Zenon DEF PoolInv, Ended
  <2>4. stopping' = "joining" => pushed = Stops
    BY ONLY <1>0, <2>2, <2>3
  <2> QED BY <2>1, <2>2, <2>3, <2>4, Zenon DEF PoolInv, Stops
<1>3. CASE StopServer /\ main # "pool"
  <2>1. UNCHANGED <<queue, thread, pushed>> /\ stopping' = "pushing" /\ main' = "pool"
    BY <1>3, Zenon DEF StopServer, CallStop
  <2>2. stopping' # "no" /\ stopping' # "joining" /\ Ended' = Ended
    BY <2>1 DEF Ended
  <2> QED BY <2>1, <2>2, Zenon DEF PoolInv, Stops
<1> QED BY <1>1, <1>2, <1>3, Zenon

\* A pool that was just made (the constructor of Threadpool).
LEMMA NewPool ==
    ASSUME queue = <<>>, thread = [i \in ThreadIds |-> "check"], stopping = "no", pushed = 0
    PROVE  PoolInv
<1>1. Ended = {}
    BY DEF Ended
<1>2. Cardinality(Ended) = 0 /\ Stops \in Nat
    BY <1>1, FS_EmptySet, ThreadsCounted, Zenon
<1>3. StopsLast(<<>>, 0, 0)
    BY DEF StopsLast
<1>4. 0 <= Stops /\ "no" # "joining"
    BY ONLY <1>2
<1> QED BY <1>2, <1>3, <1>4, Zenon DEF PoolInv

LEMMA NewPoolNext ==
    ASSUME Fresh PROVE PoolInv'
<1>1. Ended' = {}
    BY DEF Ended, Fresh
<1>2. Cardinality(Ended') = 0 /\ Stops \in Nat
    BY <1>1, FS_EmptySet, ThreadsCounted, Zenon
<1>3. StopsLast(<<>>, 0, 0)
    BY DEF StopsLast
<1>4. 0 <= Stops /\ "no" # "joining"
    BY ONLY <1>2
<1> QED BY <1>2, <1>3, <1>4, Zenon DEF PoolInv, Fresh, Stops

\* Every step of the agent keeps the pool in order (SpdkAgent, Threadpool).
LEMMA NextPool ==
    ASSUME IInv, PoolInv, [AgentNext]_agent_vars
    PROVE  PoolInv'
<1>0. TypeOK
    BY Zenon DEF IInv, AgentTypeOK
<1>1. ASSUME UNCHANGED vars, main' = main \/ (main # "pool" /\ main' # "pool") PROVE PoolInv'
  <2>1. UNCHANGED <<queue, thread, pushed, stopping>> /\ Ended' = Ended
    BY <1>1, Zenon DEF vars, Ended
  <2> QED BY <1>1, <2>1, Zenon DEF PoolInv, Stops
<1>2. CASE Commands
  <2>1. CASE \E u \in Volumes : DeleteVolume(u)
    BY <1>0, <2>1, RunJobPool, Zenon DEF DeleteVolume, ServerRuns
  <2>2. CASE ~\E u \in Volumes : DeleteVolume(u)
    BY <1>1, <1>2, <2>2, AddsLeavePool, Zenon
  <2> QED BY <2>1, <2>2, Zenon
<1>3. CASE (\E i \in ThreadIds : ThreadStep(i) \/ DeleteTask(i)) \/ SpuriousWakeUp
    BY <1>0, <1>3, ThreadPool, Zenon DEF ThreadStep, DeleteTask, SpuriousWakeUp, Others, memory
<1>4. CASE StopPool
    BY <1>0, <1>4, StopPoolPool, Zenon DEF StopPool, Others, memory
<1>5. CASE Discovery \/ BeginCollection \/ CollectNext \/ Forget
    BY <1>1, <1>5, Zenon DEF Discovery, PeriodicDiscovery, BeginCollection, CollectNext, Collect, Forget
<1>6. CASE Shutdown
  <2>1. CASE Interrupt
    <3>1. "up" # "pool" /\ "workers" # "pool"
      OBVIOUS
    <3> QED BY <1>1, <2>1, <3>1, Zenon DEF Interrupt
  <2>2. CASE StopWorkers
    <3>1. "workers" # "pool" /\ "server" # "pool"
      OBVIOUS
    <3> QED BY <1>1, <2>2, <3>1, Zenon DEF StopWorkers
  <2>3. CASE StopServer
    <3>1. main # "pool"
      BY <2>3 DEF StopServer
    <3> QED BY <1>0, <2>3, <3>1, StopPoolPool, Zenon
  <2> QED BY <1>6, <2>1, <2>2, <2>3, Zenon DEF Shutdown
<1>7. CASE \E reached \in BOOLEAN : Restart(reached)
    BY <1>7, NewPoolNext, Zenon DEF Restart
<1>8. CASE UNCHANGED agent_vars
    BY <1>1, <1>8, Zenon DEF agent_vars, memory
<1> QED BY <1>2, <1>3, <1>4, <1>5, <1>6, <1>7, <1>8, Zenon DEF AgentNext

LEMMA PoolInvariance == AgentSpec => [](IInv /\ PoolInv)
<1>1. AgentInit => PoolInv
    BY NewPool, Zenon DEF AgentInit, Init
<1>2. IInv /\ PoolInv /\ [AgentNext]_agent_vars => PoolInv'
    BY NextPool
<1> QED BY <1>1, <1>2, Invariance, PTL DEF AgentSpec

\* Whatever the number of threads, none of them sleeps while a task is queued,
\* and stop() waits for no thread that no STOP task will end (wait_and_pop,
\* stop_threads, join_threads).
THEOREM NoVainWait == AgentSpec => []NoneWaitsInVain
<1>1. IInv /\ PoolInv => NoneWaitsInVain
  <2> SUFFICES ASSUME IInv, PoolInv, stopping = "joining"
               PROVE  Cardinality(QueuedStops) = Cardinality(Unended)
    BY Zenon DEF PoolInv, NoneWaitsInVain
  <2> DEFINE n == Len(queue)
             e == Cardinality(Ended)
  <2>1. queue \in Seq(Jobs \cup {Stop}) /\ e \in Nat /\ Stops \in Nat /\ Cardinality(Unended) = Stops - e
    BY ThreadsCounted, Zenon DEF IInv, AgentTypeOK, TypeOK
  <2>2. n \in Nat /\ DOMAIN queue = 1..n
    BY ONLY <2>1
  <2>3. /\ e <= Stops /\ Stops - e <= n
        /\ \A k \in 1..n : queue[k] = Stop <=> k > n - (Stops - e)
    BY Zenon DEF PoolInv, StopsLast
  <2> HIDE DEF n, e
  <2>4. QueuedStops = {k \in 1..n : k > n - (Stops - e)}
    BY <2>2, <2>3, Zenon DEF QueuedStops
  <2>5. /\ {k \in 1..n : k > n - (Stops - e)} = (n - (Stops - e) + 1)..n
        /\ n - (Stops - e) + 1 \in Int /\ n \in Int
    BY ONLY <2>1, <2>2, <2>3
  <2>6. Cardinality(QueuedStops) = IF n - (Stops - e) + 1 > n THEN 0 ELSE n - (n - (Stops - e) + 1) + 1
    BY <2>4, <2>5, FS_Interval, Zenon
  <2> QED BY ONLY <2>1, <2>2, <2>3, <2>6
<1> QED BY <1>1, PoolInvariance, PTL

\* A queue of STOP tasks has no jobs (OnlyJobs).
LEMMA NoJobsLeft ==
    ASSUME NEW s, Len(s) \in Nat, \A k \in 1..Len(s) : s[k] = Stop
    PROVE  OnlyJobs(s) = <<>>
<1>1. PICK g : Counts(s, g, Len(s)) /\ OnlyJobs(s) = g[Len(s)]
    BY CountsExist, Zenon
<1> DEFINE T == {n \in 0..Len(s) : g[n] # <<>>}
<1>2. ASSUME NEW n \in T PROVE n # 0 /\ n - 1 \in T
  <2>1. n \in 0..Len(s) /\ g[n] # <<>>
    OBVIOUS
  <2>2. g[n] = JobsStep(s, g, n)
    BY ONLY <1>1, <2>1 DEF Counts
  <2>3. n # 0
    BY <2>1, <2>2, Zenon DEF JobsStep
  <2>4. n \in 1..Len(s) /\ n - 1 \in 0..Len(s)
    BY <2>1, <2>3
  <2>5. g[n - 1] # <<>>
    BY <2>1, <2>2, <2>3, <2>4, Zenon DEF JobsStep
  <2> QED BY <2>3, <2>4, <2>5, Zenon
<1>3. T = {}
  <2>1. T \in SUBSET Nat
    OBVIOUS
  <2> HIDE DEF T
  <2> QED BY <1>2, <2>1, NoLeast, Zenon
<1>4. Len(s) \in 0..Len(s)
    OBVIOUS
<1> QED BY <1>1, <1>3, <1>4, Zenon

\* No deletion the agent has accepted is left in the queue when a thread of the
\* pool ends, whatever the number of threads and deletions (main, the order it
\* stops things in, and ThreadQueue).
THEOREM AllBegun == AgentSpec => []NoneAbandoned
<1>1. IInv /\ PoolInv /\ InOrderOnce => NoneAbandoned
  <2> SUFFICES ASSUME IInv, PoolInv, InOrderOnce, NEW i \in ThreadIds, thread[i] = "ended"
               PROVE  Len(started) = submitted
    BY Zenon DEF NoneAbandoned
  <2> DEFINE n == Len(queue)
             e == Cardinality(Ended)
  <2>1. /\ queue \in Seq(Jobs \cup {Stop}) /\ started \in Seq(Jobs) /\ submitted \in 0..MaxJobs
        /\ e \in Nat /\ pushed \in Nat
    BY ThreadsCounted, Zenon DEF IInv, AgentTypeOK, TypeOK
  <2>2. n \in Nat
    BY ONLY <2>1
  <2>3. e # 0
    BY ThreadsCounted, Zenon DEF Ended
  <2>4. /\ e > 0 => pushed - e = n
        /\ \A k \in 1..n : queue[k] = Stop <=> k > n - (pushed - e)
    BY Zenon DEF PoolInv, StopsLast
  <2> HIDE DEF e
  <2>5. \A k \in 1..n : queue[k] = Stop
    BY ONLY <2>1, <2>2, <2>3, <2>4
  <2>6. OnlyJobs(queue) = <<>>
    BY <2>2, <2>5, NoJobsLeft, Zenon
  <2>7. started \o <<>> = started
    BY ONLY <2>1
  <2>8. [j \in 1..submitted |-> j] = started
    BY <2>6, <2>7, Zenon DEF InOrderOnce, Submitted
  <2> QED BY ONLY <2>1, <2>8, MaxJobsAssumption
<1> QED BY <1>1, PoolInvariance, JobsInOrder, PTL
=============================================================================
