------------------------------ MODULE RestIds ------------------------------
(***************************************************************************)
(* The numbers in the URLs of the PSME REST server.  Every resource kind   *)
(* has an IdPolicy (id_policy.hpp) that numbers its resources, either all  *)
(* of them together or per parent.  The module models one such numbering   *)
(* space: the records kept in files (file_database.cpp), which survive a   *)
(* restart and are wiped some time after they were invalidated, the        *)
(* in-memory table of the numbers in use (id_memoizer.cpp), and the        *)
(* resource tables that carry the numbers (GenericHandler::fetch and       *)
(* remove_single).                                                         *)
(***************************************************************************)
EXTENDS Naturals, FiniteSets

CONSTANTS
    Uuids,        \* the resources numbered in this space
    Threads,      \* the watcher thread and the REST threads that load or remove
    Nobody,       \* the empty uuid, "not allocated"
    OwnerZone,    \* how the parent kind is numbered, "none" for a space without parent
    Retention,    \* retention-interval-sec is not 0: outdated records are wiped
    Crashes,      \* the service may die in the middle of a step
    MaxId,        \* bound: numbers handed out
    MaxRestarts   \* bound: restarts of the service

ASSUME NobodyAssumption == Nobody \notin Uuids
ASSUME OwnerAssumption == OwnerZone \in {"SHARED", "PARENT_SPACE", "none"}
ASSUME RetentionAssumption == Retention \in BOOLEAN /\ Crashes \in BOOLEAN
ASSUME BoundsAssumption == MaxId \in Nat /\ MaxRestarts \in Nat

VARIABLES
    last,     \* the ResourceLastKey::LAST record of the space
    file,     \* the record of every resource
    alloc,    \* IdMemoizer::allocated_ids
    entry,    \* the number carried by the resource in the model, 0: not there
    owner,    \* the parent is in the model
    op,       \* what every thread is doing
    restarts

vars == <<last, file, alloc, entry, owner, op, restarts>>

-----------------------------------------------------------------------------
(***************************************************************************)
(* A record is a file whose mode bits tell whether it is still valid.      *)
(* "outdated" is an invalid record whose retention time has passed, "none" *)
(* no file, "foreign" a file without the mode bits of the database.  A     *)
(* record with value 0 holds no number (an empty file).                    *)
(***************************************************************************)
Marks == {"none", "foreign", "valid", "invalid", "outdated"}
Record == [val: 0..MaxId, mark: Marks]
NoRecord == [val |-> 0, mark |-> "none"]

Put(id) == [val |-> id, mark |-> "valid"]

InvalidateFile(r) == IF r.mark = "valid" THEN [r EXCEPT !.mark = "invalid"] ELSE r

Cleanup(r) == IF r.mark = "outdated" THEN NoRecord ELSE InvalidateFile(r)

WipeAny(r) == IF r.mark = "none" THEN r ELSE NoRecord
WipeOutdated(r) == IF r.mark = "outdated" THEN NoRecord ELSE r

(***************************************************************************)
(* IdMemoizer: allocate does not replace an allocation, remove_allocated   *)
(* drops one whoever holds it.                                             *)
(***************************************************************************)
Allocate(a, u, id) == IF a[id] = Nobody THEN [a EXCEPT ![id] = u] ELSE a
RemoveAllocated(a, id) == [a EXCEPT ![id] = Nobody]

AnyUsable(u, id) == TRUE
Usable(u, id) == alloc[id] \in {Nobody, u}

(***************************************************************************)
(* The number get_id settles on: the one recorded for the resource, else   *)
(* the one after LAST; when another resource has it allocated, the first   *)
(* usable one from LAST + 2 on.                                            *)
(***************************************************************************)
Candidate(u) ==
    LET first == IF file[u].val # 0 THEN file[u].val ELSE last.val + 1
        next  == {i \in (last.val + 2)..MaxId : Usable(u, i)}
    IN  IF first \in 1..MaxId /\ Usable(u, first)
        THEN {first}
        ELSE {i \in next : first <= MaxId /\ \A j \in next : i <= j}

NewLast(l, id, seen) == IF seen < id \/ l.mark # "valid" THEN Put(id) ELSE l

-----------------------------------------------------------------------------
Idle == [pc |-> "idle", uuid |-> Nobody, id |-> 0, seen |-> 0]

Op == [pc: {"idle", "allocate", "last", "entity", "add", "purge"},
       uuid: Uuids \cup {Nobody}, id: 0..MaxId, seen: 0..MaxId]

TypeOK ==
    /\ last \in Record
    /\ file \in [Uuids -> Record]
    /\ alloc \in [1..MaxId -> Uuids \cup {Nobody}]
    /\ entry \in [Uuids -> 0..MaxId]
    /\ owner \in BOOLEAN
    /\ op \in [Threads -> Op]
    /\ restarts \in 0..MaxRestarts

Init ==
    /\ last = NoRecord
    /\ file = [u \in Uuids |-> NoRecord]
    /\ alloc = [i \in 1..MaxId |-> Nobody]
    /\ entry = [u \in Uuids |-> 0]
    /\ owner = (OwnerZone = "none")
    /\ op = [t \in Threads |-> Idle]
    /\ restarts = 0

(***************************************************************************)
(* GenericHandler::fetch, after the agent answered.  get_id takes no lock: *)
(* a thread reads the records and the allocations and settles on a number, *)
(* allocates it, stores the records, and puts the entry in the model.      *)
(***************************************************************************)
ChooseId(t, u) ==
    /\ op[t].pc = "idle"
    /\ owner
    /\ \E id \in Candidate(u) :
          op' = [op EXCEPT ![t] = [pc |-> "allocate", uuid |-> u, id |-> id,
                                   seen |-> last.val]]
    /\ UNCHANGED <<last, file, alloc, entry, owner, restarts>>

AllocateId(t) ==
    /\ op[t].pc = "allocate"
    /\ alloc' = Allocate(alloc, op[t].uuid, op[t].id)
    /\ op' = [op EXCEPT ![t].pc = "last"]
    /\ UNCHANGED <<last, file, entry, owner, restarts>>

StoreLast(t) ==
    /\ op[t].pc = "last"
    /\ last' = NewLast(last, op[t].id, op[t].seen)
    /\ op' = [op EXCEPT ![t].pc = "entity"]
    /\ UNCHANGED <<file, alloc, entry, owner, restarts>>

StoreEntity(t) ==
    /\ op[t].pc = "entity"
    /\ file' = [file EXCEPT ![op[t].uuid] = Put(op[t].id)]
    /\ op' = [op EXCEPT ![t].pc = "add"]
    /\ UNCHANGED <<last, alloc, entry, owner, restarts>>

AddToModel(t) ==
    /\ op[t].pc = "add"
    /\ entry' = [entry EXCEPT ![op[t].uuid] = op[t].id]
    /\ op' = [op EXCEPT ![t] = Idle]
    /\ UNCHANGED <<last, file, alloc, owner, restarts>>

(***************************************************************************)
(* GenericHandler::remove_single takes the entry out of the model and      *)
(* purges its number: the record is invalidated, not removed.              *)
(***************************************************************************)
RemoveEntry(t, u) ==
    /\ op[t].pc = "idle"
    /\ entry[u] # 0
    /\ entry' = [entry EXCEPT ![u] = 0]
    /\ op' = [op EXCEPT ![t] = [pc |-> "purge", uuid |-> u, id |-> 0, seen |-> 0]]
    /\ UNCHANGED <<last, file, alloc, owner, restarts>>

Purge(t) ==
    LET u == op[t].uuid  id == file[u].val IN
    /\ op[t].pc = "purge"
    /\ IF id = 0 THEN UNCHANGED <<file, alloc>>
       ELSE /\ file' = [file EXCEPT ![u] = InvalidateFile(@)]
            /\ alloc' = RemoveAllocated(alloc, id)
    /\ op' = [op EXCEPT ![t] = Idle]
    /\ UNCHANGED <<last, entry, owner, restarts>>

(***************************************************************************)
(* purge of the parent: invalidate_last.  It looks for the LAST records of *)
(* the purged uuid, but for a parent of a SHARED kind under the empty name,*)
(* which no record has.  The validity is asked with the interval NEVER,    *)
(* whose sum with a time stamp overflows, so an invalid record is found    *)
(* either invalid (and kept) or outdated (and removed).                    *)
(***************************************************************************)
InvalidateLast(r) ==
    CASE OwnerZone # "PARENT_SPACE" -> {r}
      [] OwnerZone = "PARENT_SPACE" /\ r.mark \in {"invalid", "outdated"} -> {r, NoRecord}
      [] OwnerZone = "PARENT_SPACE" /\ r.mark \notin {"invalid", "outdated"} ->
            {InvalidateFile(r)}

PurgeOwner(t) ==
    /\ OwnerZone # "none"
    /\ op[t].pc = "idle"
    /\ owner
    /\ owner' = FALSE
    /\ last' \in InvalidateLast(last)
    /\ UNCHANGED <<file, alloc, entry, op, restarts>>

(***************************************************************************)
(* The parent is fetched before its sub-resources are listed.              *)
(***************************************************************************)
FetchOwner(t) ==
    /\ op[t].pc = "idle"
    /\ ~owner
    /\ owner' = TRUE
    /\ UNCHANGED <<last, file, alloc, entry, op, restarts>>

-----------------------------------------------------------------------------
(***************************************************************************)
(* RetentionPolicyTask: the retention time of an invalid record passes;    *)
(* execute() wipes the outdated ones.                                      *)
(***************************************************************************)
Age ==
    /\ \/ /\ last.mark = "invalid"
          /\ last' = [last EXCEPT !.mark = "outdated"]
          /\ UNCHANGED file
       \/ \E u \in Uuids :
            /\ file[u].mark = "invalid"
            /\ file' = [file EXCEPT ![u].mark = "outdated"]
            /\ UNCHANGED last
    /\ UNCHANGED <<alloc, entry, op, owner, restarts>>

RemoveOutdated ==
    /\ Retention
    /\ last' = WipeOutdated(last)
    /\ file' = [u \in Uuids |-> WipeOutdated(file[u])]
    /\ UNCHANGED <<alloc, entry, op, owner, restarts>>

(***************************************************************************)
(* The service stops or dies and starts again: the tables are empty, and   *)
(* started() calls invalidate_all.  save_file truncates before it writes,  *)
(* so a record that was being stored may be left without its number.       *)
(***************************************************************************)
Truncate(r) == [val |-> 0, mark |-> IF r.mark = "none" THEN "foreign" ELSE r.mark]

Restart ==
    /\ restarts < MaxRestarts
    /\ Crashes \/ \A t \in Threads : op[t].pc = "idle"
    /\ restarts' = restarts + 1
    /\ \/ last' = Cleanup(last)
       \/ /\ \E t \in Threads : op[t].pc = "last"
          /\ last' = Cleanup(Truncate(last))
    /\ \E torn \in SUBSET {op[t].uuid : t \in {x \in Threads : op[x].pc = "entity"}} :
          file' = [u \in Uuids |-> Cleanup(IF u \in torn THEN Truncate(file[u]) ELSE file[u])]
    /\ alloc' = [i \in 1..MaxId |-> Nobody]
    /\ entry' = [u \in Uuids |-> 0]
    /\ owner' = (OwnerZone = "none")
    /\ op' = [t \in Threads |-> Idle]

Next ==
    \/ \E t \in Threads :
          \/ \E u \in Uuids : ChooseId(t, u) \/ RemoveEntry(t, u)
          \/ AllocateId(t) \/ StoreLast(t) \/ StoreEntity(t) \/ AddToModel(t)
          \/ Purge(t) \/ PurgeOwner(t) \/ FetchOwner(t)
    \/ Age \/ RemoveOutdated \/ Restart

Spec == Init /\ [][Next]_vars

-----------------------------------------------------------------------------
(***************************************************************************)
(* Two resources in the model never carry the same number, so a URL names  *)
(* one resource ("Generate ID, which is unique ...", IdPolicy::get_id).    *)
(***************************************************************************)
IdsUnique ==
    \A u, v \in Uuids : u # v /\ entry[u] # 0 => entry[u] # entry[v]

(***************************************************************************)
(* A resource that stays in the model keeps its number however often it is *)
(* fetched, while records are wiped, LAST is invalidated and other         *)
(* resources come and go.                                                  *)
(***************************************************************************)
IdStable ==
    [][\A u \in Uuids : entry[u] # 0 /\ entry'[u] # 0 => entry'[u] = entry[u]]_vars

(***************************************************************************)
(* The two assertions in IdPolicy::purge: the removed resource has a       *)
(* record ("No entity stored in the database") and its number is allocated *)
(* ("Entity not allocated"), to the resource itself.                       *)
(***************************************************************************)
PurgeAsserts ==
    \A t \in Threads : op[t].pc = "purge" =>
        /\ file[op[t].uuid].val # 0
        /\ alloc[file[op[t].uuid].val] = op[t].uuid

(***************************************************************************)
(* As long as a record is not wiped, its resource is never given another   *)
(* number, also when it is removed and comes back ("ensure that fetching   *)
(* component multiple times does not change rest id", id_policy.hpp).      *)
(***************************************************************************)
IdKept ==
    [][\A u \in Uuids : file[u].val # 0 /\ file'[u].val # 0 => file'[u].val = file[u].val]_vars

(***************************************************************************)
(* While the parent is not in the model the LAST record of its             *)
(* sub-resources is not valid, so it can be wiped ("If parent is removed,  *)
(* mark all LAST ID records of all sub-resources as invalid",              *)
(* IdPolicy::invalidate_last).                                             *)
(***************************************************************************)
LastOfGoneOwner == ~owner => last.mark # "valid"
=============================================================================
