--------------------------- MODULE RestIds_proofs ---------------------------
(***************************************************************************)
(* Proofs about RestIds when one thread at a time fetches and removes the  *)
(* resources of the numbering space: numbers are unique and stable, and    *)
(* the assertions of IdPolicy::purge hold, for any number of resources,    *)
(* wipes, crashes and restarts.                                            *)
(***************************************************************************)
EXTENDS RestIds, TLAPS

OneThread == \A s, t \in Threads : s = t

Fetching(t) == op[t].pc \in {"allocate", "last", "entity", "add"}

(***************************************************************************)
(* A resource in the model has its number allocated and a valid record.    *)
(***************************************************************************)
EntriesBacked ==
    \A u \in Uuids : entry[u] # 0 =>
        /\ alloc[entry[u]] = u
        /\ file[u].val = entry[u]
        /\ file[u].mark = "valid"

(***************************************************************************)
(* A thread that fetches a resource of the model settled on the number the *)
(* resource has; from AllocateId on the number is allocated to it.         *)
(***************************************************************************)
FetchBacked ==
    \A t \in Threads : Fetching(t) =>
        /\ op[t].uuid \in Uuids
        /\ op[t].id \in 1..MaxId
        /\ entry[op[t].uuid] \in {0, op[t].id}
        /\ op[t].pc = "allocate" => alloc[op[t].id] \in {Nobody, op[t].uuid}
        /\ op[t].pc # "allocate" => alloc[op[t].id] = op[t].uuid
        /\ op[t].pc = "add" => /\ file[op[t].uuid].val = op[t].id
                               /\ file[op[t].uuid].mark = "valid"

PurgeBacked ==
    \A t \in Threads : op[t].pc = "purge" =>
        /\ op[t].uuid \in Uuids
        /\ entry[op[t].uuid] = 0
        /\ file[op[t].uuid].val # 0
        /\ file[op[t].uuid].mark = "valid"
        /\ alloc[file[op[t].uuid].val] = op[t].uuid

OwnerGone ==
    OwnerZone # "SHARED" /\ ~owner =>
        /\ OwnerZone # "none"
        /\ last.mark # "valid"
        /\ \A t \in Threads : ~Fetching(t)

IInv ==
    /\ TypeOK
    /\ EntriesBacked
    /\ FetchBacked
    /\ PurgeBacked
    /\ OwnerGone

LEMMA RecordFacts ==
    ASSUME NEW r \in Record
    PROVE  /\ WipeOutdated(r) \in Record /\ InvalidateFile(r) \in Record
           /\ Cleanup(r) \in Record /\ Truncate(r) \in Record
           /\ Cleanup(r).mark # "valid"
           /\ r.mark = "valid" => WipeOutdated(r) = r
           /\ WipeOutdated(r).mark = "valid" => r.mark = "valid"
           /\ InvalidateFile(r).mark # "valid"
BY BoundsAssumption DEF Record, Marks, WipeOutdated, InvalidateFile, Cleanup, Truncate, NoRecord

LEMMA PutFacts ==
    ASSUME NEW i \in 0..MaxId
    PROVE  Put(i) \in Record /\ Put(i).val = i /\ Put(i).mark = "valid"
BY BoundsAssumption DEF Record, Marks, Put

LEMMA IdleFacts == Idle \in Op /\ Idle.pc = "idle"
BY BoundsAssumption DEF Idle, Op

LEMMA InitIInv == Init => IInv
<1> SUFFICES ASSUME Init PROVE IInv
  OBVIOUS
<1>1. NoRecord \in Record
  BY BoundsAssumption DEF NoRecord, Record, Marks
<1>2. TypeOK
  BY <1>1, IdleFacts, BoundsAssumption DEF Init, TypeOK
<1>3. EntriesBacked /\ FetchBacked /\ PurgeBacked
  BY IdleFacts DEF Init, EntriesBacked, FetchBacked, PurgeBacked, Fetching
<1>4. OwnerGone
  BY IdleFacts, Zenon DEF Init, OwnerGone, Fetching, NoRecord
<1> QED BY <1>2, <1>3, <1>4 DEF IInv

LEMMA CandidateType ==
    ASSUME TypeOK, NEW u \in Uuids, NEW id \in Candidate(u)
    PROVE  /\ id \in 1..MaxId /\ alloc[id] \in {Nobody, u}
           /\ file[u].val # 0 /\ alloc[file[u].val] = u => id = file[u].val
<1>1. file[u].val \in 0..MaxId /\ last.val \in 0..MaxId
  BY DEF TypeOK, Record
<1> QED BY <1>1, BoundsAssumption DEF Candidate, Usable

LEMMA ChooseIdKeepsIInv ==
    ASSUME OneThread, IInv, NEW t \in Threads, NEW u \in Uuids, ChooseId(t, u)
    PROVE  IInv'
<1> PICK id \in Candidate(u) :
        op' = [op EXCEPT ![t] = [pc |-> "allocate", uuid |-> u, id |-> id, seen |-> last.val]]
  BY Zenon DEF ChooseId
<1>1. id \in 1..MaxId /\ alloc[id] \in {Nobody, u}
  BY CandidateType DEF IInv
<1>2. entry[u] \in {0, id}
  BY CandidateType DEF IInv, EntriesBacked
<1>3. TypeOK'
  <2>1. [pc |-> "allocate", uuid |-> u, id |-> id, seen |-> last.val] \in Op
    BY <1>1, BoundsAssumption DEF Op, IInv, TypeOK, Record
  <2> QED BY <2>1 DEF IInv, TypeOK, ChooseId
<1>4. EntriesBacked'
  BY DEF IInv, EntriesBacked, ChooseId
<1>5. op'[t] = [pc |-> "allocate", uuid |-> u, id |-> id, seen |-> last.val]
  BY DEF IInv, TypeOK
<1>6. FetchBacked' /\ PurgeBacked'
  BY <1>1, <1>2, <1>5, SMTT(40) DEF FetchBacked, PurgeBacked, Fetching, ChooseId, OneThread
<1>7. OwnerGone'
  BY DEF OwnerGone, ChooseId
<1> QED BY <1>3, <1>4, <1>6, <1>7 DEF IInv

LEMMA AllocateIdKeepsIInv ==
    ASSUME OneThread, IInv, NEW t \in Threads, AllocateId(t)
    PROVE  IInv'
<1>1. /\ op[t].uuid \in Uuids /\ op[t].id \in 1..MaxId
      /\ entry[op[t].uuid] \in {0, op[t].id}
      /\ alloc[op[t].id] \in {Nobody, op[t].uuid}
  BY DEF IInv, FetchBacked, Fetching, AllocateId
<1>2. /\ op'[t] = [op[t] EXCEPT !.pc = "last"] /\ op[t] \in Op
      /\ op'[t].pc = "last" /\ op'[t].uuid = op[t].uuid /\ op'[t].id = op[t].id
  BY DEF IInv, TypeOK, AllocateId, Op
<1>3. alloc' \in [1..MaxId -> Uuids \cup {Nobody}] /\ alloc'[op[t].id] = op[t].uuid
  BY <1>1 DEF IInv, TypeOK, AllocateId, Allocate
<1>4. TypeOK'
  <2>1. op'[t] \in Op
    BY <1>2 DEF Op
  <2> QED BY <1>3, <2>1 DEF IInv, TypeOK, AllocateId
<1>5. EntriesBacked'
  <2> SUFFICES ASSUME NEW u \in Uuids, entry[u] # 0 PROVE alloc'[entry[u]] = u
    BY DEF EntriesBacked, AllocateId, IInv
  <2>1. alloc[entry[u]] = u /\ entry[u] \in 1..MaxId
    BY DEF IInv, EntriesBacked, TypeOK
  <2> QED BY <1>1, <2>1, NobodyAssumption DEF AllocateId, Allocate, IInv, TypeOK
<1>6. FetchBacked' /\ PurgeBacked'
  BY <1>1, <1>2, <1>3, Zenon DEF FetchBacked, PurgeBacked, Fetching, AllocateId, OneThread
<1>7. OwnerGone'
  BY DEF IInv, OwnerGone, AllocateId, Fetching
<1> QED BY <1>4, <1>5, <1>6, <1>7 DEF IInv

LEMMA StoreLastKeepsIInv ==
    ASSUME OneThread, IInv, NEW t \in Threads, StoreLast(t)
    PROVE  IInv'
<1>1. /\ op[t].uuid \in Uuids /\ op[t].id \in 1..MaxId
      /\ entry[op[t].uuid] \in {0, op[t].id}
      /\ alloc[op[t].id] = op[t].uuid
  BY DEF IInv, FetchBacked, Fetching, StoreLast
<1>2. /\ op'[t] \in Op /\ op'[t].pc = "entity"
      /\ op'[t].uuid = op[t].uuid /\ op'[t].id = op[t].id
  BY Zenon DEF IInv, TypeOK, StoreLast, Op
<1>3. last' \in Record
  BY <1>1, PutFacts, BoundsAssumption DEF IInv, TypeOK, StoreLast, NewLast
<1>4. TypeOK'
  BY <1>2, <1>3 DEF IInv, TypeOK, StoreLast
<1>5. EntriesBacked'
  BY DEF IInv, EntriesBacked, StoreLast
<1>6. FetchBacked' /\ PurgeBacked'
  BY <1>1, <1>2, Zenon DEF FetchBacked, PurgeBacked, Fetching, StoreLast, OneThread
<1>7. OwnerGone'
  BY DEF IInv, OwnerGone, StoreLast, Fetching
<1> QED BY <1>4, <1>5, <1>6, <1>7 DEF IInv

LEMMA StoreEntityKeepsIInv ==
    ASSUME OneThread, IInv, NEW t \in Threads, StoreEntity(t)
    PROVE  IInv'
<1>1. /\ op[t].uuid \in Uuids /\ op[t].id \in 1..MaxId
      /\ entry[op[t].uuid] \in {0, op[t].id}
      /\ alloc[op[t].id] = op[t].uuid
  BY DEF IInv, FetchBacked, Fetching, StoreEntity
<1>2. /\ op'[t] \in Op /\ op'[t].pc = "add"
      /\ op'[t].uuid = op[t].uuid /\ op'[t].id = op[t].id
  BY Zenon DEF IInv, TypeOK, StoreEntity, Op
<1>3. /\ file' \in [Uuids -> Record]
      /\ file'[op[t].uuid].val = op[t].id /\ file'[op[t].uuid].mark = "valid"
      /\ \A u \in Uuids : u # op[t].uuid => file'[u] = file[u]
  BY <1>1, PutFacts, BoundsAssumption DEF IInv, TypeOK, StoreEntity
<1>4. TypeOK'
  BY <1>2, <1>3 DEF IInv, TypeOK, StoreEntity
<1>5. EntriesBacked'
  BY <1>1, <1>3 DEF IInv, EntriesBacked, StoreEntity
<1>6. FetchBacked' /\ PurgeBacked'
  <2>1. \A s \in Threads : s = t
    BY DEF OneThread
  <2>2. alloc' = alloc /\ entry' = entry
    BY DEF StoreEntity
  <2>3. FetchBacked'
    BY <1>1, <1>2, <1>3, <2>1, <2>2, Zenon DEF FetchBacked, Fetching
  <2>4. PurgeBacked'
    BY <1>2, <2>1 DEF PurgeBacked
  <2> QED BY <2>3, <2>4
<1>7. OwnerGone'
  BY DEF IInv, OwnerGone, StoreEntity, Fetching
<1> QED BY <1>4, <1>5, <1>6, <1>7 DEF IInv

LEMMA AddToModelKeepsIInv ==
    ASSUME OneThread, IInv, NEW t \in Threads, AddToModel(t)
    PROVE  IInv'
<1>1. /\ op[t].uuid \in Uuids /\ op[t].id \in 1..MaxId
      /\ alloc[op[t].id] = op[t].uuid
      /\ file[op[t].uuid].val = op[t].id /\ file[op[t].uuid].mark = "valid"
  BY Zenon DEF IInv, FetchBacked, Fetching, AddToModel
<1>2. op'[t] = Idle
  BY DEF IInv, TypeOK, AddToModel
<1>3. TypeOK'
  BY <1>1, IdleFacts, BoundsAssumption DEF IInv, TypeOK, AddToModel
<1>4. EntriesBacked'
  BY <1>1 DEF IInv, TypeOK, EntriesBacked, AddToModel
<1>5. FetchBacked' /\ PurgeBacked'
  BY <1>2, IdleFacts DEF FetchBacked, PurgeBacked, Fetching, OneThread
<1>6. OwnerGone'
  BY DEF IInv, OwnerGone, AddToModel, Fetching
<1> QED BY <1>3, <1>4, <1>5, <1>6 DEF IInv

LEMMA RemoveEntryKeepsIInv ==
    ASSUME OneThread, IInv, NEW t \in Threads, NEW u \in Uuids, RemoveEntry(t, u)
    PROVE  IInv'
<1>1. alloc[entry[u]] = u /\ file[u].val = entry[u] /\ file[u].mark = "valid" /\ entry[u] # 0
  BY DEF IInv, EntriesBacked, RemoveEntry
<1>2. op'[t] \in Op /\ op'[t].pc = "purge" /\ op'[t].uuid = u
  BY BoundsAssumption DEF IInv, TypeOK, RemoveEntry, Op, Idle
<1>3. TypeOK'
  BY <1>2, BoundsAssumption DEF IInv, TypeOK, RemoveEntry
<1>4. EntriesBacked'
  BY DEF IInv, TypeOK, EntriesBacked, RemoveEntry
<1>5. entry'[u] = 0
  BY DEF IInv, TypeOK, RemoveEntry
<1>6. FetchBacked' /\ PurgeBacked'
  BY <1>1, <1>2, <1>5, Zenon DEF FetchBacked, PurgeBacked, Fetching, OneThread, RemoveEntry
<1>7. OwnerGone'
  BY <1>2 DEF IInv, OwnerGone, RemoveEntry, Fetching, OneThread
<1> QED BY <1>3, <1>4, <1>6, <1>7 DEF IInv

LEMMA PurgeKeepsIInv ==
    ASSUME OneThread, IInv, NEW t \in Threads, Purge(t)
    PROVE  IInv'
<1> DEFINE u == op[t].uuid
<1> DEFINE id == file[u].val
<1>1. u \in Uuids /\ entry[u] = 0 /\ id \in 1..MaxId /\ alloc[id] = u
  <2>1. u \in Uuids /\ entry[u] = 0 /\ id # 0 /\ alloc[id] = u
    BY Zenon DEF IInv, PurgeBacked, Purge
  <2>2. id \in 0..MaxId
    BY <2>1 DEF IInv, TypeOK, Record
  <2> QED BY <2>1, <2>2, BoundsAssumption
<1>2. /\ file' = [file EXCEPT ![u] = InvalidateFile(file[u])]
      /\ alloc' = [alloc EXCEPT ![id] = Nobody]
      /\ op'[t] = Idle
  BY <1>1, SMTT(40) DEF IInv, TypeOK, Purge, RemoveAllocated
<1>3. TypeOK'
  BY <1>1, <1>2, IdleFacts, RecordFacts, Zenon DEF IInv, TypeOK, Purge
<1>4. EntriesBacked'
  <2> SUFFICES ASSUME NEW v \in Uuids, entry[v] # 0
               PROVE  alloc'[entry[v]] = v /\ file'[v] = file[v]
    BY ZenonT(40) DEF EntriesBacked, Purge, IInv
  <2>1. v # u /\ alloc[entry[v]] = v /\ entry[v] \in 1..MaxId
    BY <1>1 DEF IInv, EntriesBacked, TypeOK
  <2> QED BY <1>1, <1>2, <2>1, Zenon DEF IInv, TypeOK
<1>5. FetchBacked' /\ PurgeBacked'
  BY <1>2, IdleFacts, Zenon DEF FetchBacked, PurgeBacked, Fetching, OneThread
<1>6. OwnerGone'
  BY <1>2, IdleFacts, Zenon DEF IInv, OwnerGone, Purge, Fetching, OneThread
<1> QED BY <1>3, <1>4, <1>5, <1>6 DEF IInv

LEMMA OwnerKeepsIInv ==
    ASSUME OneThread, IInv, NEW t \in Threads, PurgeOwner(t) \/ FetchOwner(t)
    PROVE  IInv'
<1>1. CASE PurgeOwner(t)
  <2>1. last' \in Record /\ (OwnerZone = "PARENT_SPACE" => last'.mark # "valid")
    <3>1. last \in Record /\ NoRecord \in Record /\ NoRecord.mark = "none"
      BY BoundsAssumption DEF IInv, TypeOK, Record, NoRecord, Marks
    <3>2. CASE OwnerZone # "PARENT_SPACE"
      BY <1>1, <3>1, <3>2 DEF PurgeOwner, InvalidateLast
    <3>3. CASE OwnerZone = "PARENT_SPACE" /\ last.mark \in {"invalid", "outdated"}
      <4>1. last' \in {last, NoRecord}
        BY <1>1, <3>3 DEF PurgeOwner, InvalidateLast
      <4> QED BY <3>1, <3>3, <4>1
    <3>4. CASE OwnerZone = "PARENT_SPACE" /\ last.mark \notin {"invalid", "outdated"}
      <4>1. last' = InvalidateFile(last)
        BY <1>1, <3>4 DEF PurgeOwner, InvalidateLast
      <4> QED BY <3>1, <4>1, RecordFacts
    <3> QED BY <3>2, <3>3, <3>4
  <2>2. TypeOK'
    BY <1>1, <2>1, Zenon DEF IInv, TypeOK, PurgeOwner
  <2>3. EntriesBacked' /\ FetchBacked' /\ PurgeBacked'
    BY <1>1, Zenon DEF IInv, EntriesBacked, FetchBacked, PurgeBacked, Fetching, PurgeOwner
  <2>4. OwnerGone'
    BY <1>1, <2>1, OwnerAssumption DEF OwnerGone, Fetching, PurgeOwner, OneThread
  <2> QED BY <2>2, <2>3, <2>4 DEF IInv
<1>2. CASE FetchOwner(t)
  BY <1>2, Zenon DEF IInv, TypeOK, EntriesBacked, FetchBacked, PurgeBacked, OwnerGone, Fetching, FetchOwner
<1> QED BY <1>1, <1>2

LEMMA RetentionKeepsIInv ==
    ASSUME IInv, Age \/ RemoveOutdated
    PROVE  IInv'
<1>1. /\ last' \in Record /\ file' \in [Uuids -> Record]
      /\ last'.mark = "valid" => last.mark = "valid"
      /\ \A u \in Uuids : file[u].mark = "valid" => file'[u] = file[u]
  <2>1. CASE Age
    <3>1. \A r \in Record : [r EXCEPT !.mark = "outdated"] \in Record
      BY DEF Record, Marks
    <3>2. CASE last.mark = "invalid" /\ last' = [last EXCEPT !.mark = "outdated"] /\ UNCHANGED file
      BY <3>1, <3>2 DEF IInv, TypeOK, Record
    <3>3. ASSUME NEW u \in Uuids, file[u].mark = "invalid",
                 file' = [file EXCEPT ![u].mark = "outdated"], UNCHANGED last
          PROVE  <1>1!2 /\ <1>1!1 /\ <1>1!3
      BY <3>1, <3>3 DEF IInv, TypeOK
    <3> QED BY <2>1, <3>2, <3>3 DEF Age
  <2>2. CASE RemoveOutdated
    BY <2>2, RecordFacts DEF RemoveOutdated, IInv, TypeOK
  <2> QED BY <2>1, <2>2
<1>2. UNCHANGED <<alloc, entry, owner, op, restarts>>
  BY DEF Age, RemoveOutdated
<1>3. TypeOK'
  BY <1>1, <1>2 DEF IInv, TypeOK
<1>4. EntriesBacked'
  BY <1>1, <1>2 DEF IInv, EntriesBacked
<1>5. FetchBacked'
  BY <1>1, <1>2, Zenon DEF IInv, FetchBacked, Fetching
<1>6. PurgeBacked'
  BY <1>1, <1>2, Zenon DEF IInv, PurgeBacked
<1>7. OwnerGone'
  BY <1>1, <1>2 DEF IInv, OwnerGone, Fetching
<1> QED BY <1>3, <1>4, <1>5, <1>6, <1>7 DEF IInv

LEMMA RestartKeepsIInv ==
    ASSUME IInv, Restart
    PROVE  IInv'
<1>1. last' \in Record /\ last'.mark # "valid"
  BY RecordFacts DEF Restart, IInv, TypeOK
<1>2. file' \in [Uuids -> Record]
  BY RecordFacts DEF Restart, IInv, TypeOK
<1>3. TypeOK'
  BY <1>1, <1>2, IdleFacts, BoundsAssumption DEF Restart, IInv, TypeOK
<1>4. EntriesBacked' /\ FetchBacked' /\ PurgeBacked'
  BY IdleFacts, Zenon DEF Restart, EntriesBacked, FetchBacked, PurgeBacked, Fetching
<1>5. OwnerGone'
  BY <1>1, IdleFacts, Zenon DEF Restart, OwnerGone, Fetching
<1> QED BY <1>3, <1>4, <1>5 DEF IInv

LEMMA StepKeepsIInv ==
    ASSUME OneThread, IInv, [Next]_vars
    PROVE  IInv'
<1>1. CASE UNCHANGED vars
  BY <1>1, Zenon DEF vars, IInv, TypeOK, EntriesBacked, FetchBacked, PurgeBacked, OwnerGone, Fetching
<1>2. CASE Next
  BY <1>2, ChooseIdKeepsIInv, AllocateIdKeepsIInv, StoreLastKeepsIInv, StoreEntityKeepsIInv,
     AddToModelKeepsIInv, RemoveEntryKeepsIInv, PurgeKeepsIInv, OwnerKeepsIInv,
     RetentionKeepsIInv, RestartKeepsIInv
  DEF Next
<1> QED BY <1>1, <1>2

(***************************************************************************)
(* The invariant holds in every reachable state, whatever the number of    *)
(* resources, restarts, crashes and wipes.                                 *)
(***************************************************************************)
THEOREM Invariance ==
    ASSUME OneThread
    PROVE  Spec => []IInv
<1>1. Init => IInv
  BY InitIInv
<1>2. IInv /\ [Next]_vars => IInv'
  BY StepKeepsIInv
<1> QED BY <1>1, <1>2, PTL DEF Spec

(***************************************************************************)
(* With one thread at work, IdPolicy::get_id gives no two resources of the *)
(* model the same number.                                                  *)
(***************************************************************************)
THEOREM Unique ==
    ASSUME OneThread
    PROVE  Spec => []IdsUnique
<1>1. IInv => IdsUnique
  BY DEF IInv, EntriesBacked, IdsUnique
<1> QED BY <1>1, Invariance, PTL

(***************************************************************************)
(* With one thread at work, the assertions of IdPolicy::purge never fail.  *)
(***************************************************************************)
THEOREM Asserts ==
    ASSUME OneThread
    PROVE  Spec => []PurgeAsserts
<1>1. IInv => PurgeAsserts
  BY Zenon DEF IInv, PurgeBacked, PurgeAsserts
<1> QED BY <1>1, Invariance, PTL

(***************************************************************************)
(* IdPolicy::invalidate_last does its work for a parent numbered in its    *)
(* own parent's space: once the parent is gone LAST is not valid.          *)
(***************************************************************************)
THEOREM GoneOwner ==
    ASSUME OneThread, OwnerZone # "SHARED"
    PROVE  Spec => []LastOfGoneOwner
<1>1. IInv => LastOfGoneOwner
  BY DEF IInv, OwnerGone, LastOfGoneOwner
<1> QED BY <1>1, Invariance, PTL

(***************************************************************************)
(* With one thread at work, fetching a resource again never changes the    *)
(* number it carries.                                                      *)
(***************************************************************************)
THEOREM Stable ==
    ASSUME OneThread
    PROVE  Spec => IdStable
<1> DEFINE Same == \A u \in Uuids : entry[u] # 0 /\ entry'[u] # 0 => entry'[u] = entry[u]
<1>1. ASSUME IInv, [Next]_vars PROVE Same
  <2>1. ASSUME NEW t \in Threads, AddToModel(t) PROVE Same
    BY <1>1, <2>1 DEF IInv, TypeOK, FetchBacked, Fetching, AddToModel
  <2>2. ASSUME NEW t \in Threads, NEW u \in Uuids, RemoveEntry(t, u) PROVE Same
    BY <1>1, <2>2 DEF IInv, TypeOK, RemoveEntry
  <2>3. ASSUME Restart PROVE Same
    BY <2>3 DEF Restart
  <2>4. ASSUME UNCHANGED entry PROVE Same
    BY <2>4
  <2> QED BY <1>1, <2>1, <2>2, <2>3, <2>4, Zenon
      DEF Next, vars, ChooseId, AllocateId, StoreLast, StoreEntity, Purge, PurgeOwner,
          FetchOwner, Age, RemoveOutdated
<1>2. IInv /\ [Next]_vars => [Same]_vars
  BY <1>1
<1> QED BY <1>2, Invariance, PTL DEF Spec, IdStable

-----------------------------------------------------------------------------
(***************************************************************************)
(* A running service never resets LAST in a numbering space without        *)
(* parent.                                                                 *)
(***************************************************************************)
NoReset == MaxRestarts = 0 /\ OwnerZone = "none"

Pending(u, i) ==
    \E t \in Threads : op[t].pc \in {"last", "entity"} /\ op[t].uuid = u /\ op[t].id = i

(***************************************************************************)
(* LAST is an upper bound of the recorded numbers, the recorded numbers    *)
(* differ, and an allocated number is recorded or about to be.             *)
(***************************************************************************)
LastBounds ==
    /\ last = NoRecord \/ last.mark = "valid"
    /\ \A u \in Uuids : file[u].val <= last.val
    /\ \A u, v \in Uuids : u # v /\ file[u].val # 0 => file[v].val # file[u].val

AllocationsRecorded ==
    \A i \in 1..MaxId : alloc[i] # Nobody =>
        \/ file[alloc[i]].val = i /\ file[alloc[i]].mark = "valid"
        \/ Pending(alloc[i], i)

FetchFresh ==
    \A t \in Threads : op[t].pc \in {"allocate", "last", "entity"} =>
        /\ file[op[t].uuid].val \in {0, op[t].id}
        /\ \A v \in Uuids \ {op[t].uuid} : file[v].val # op[t].id
        /\ op[t].pc # "entity" => op[t].seen = last.val
        /\ op[t].pc = "entity" => op[t].id <= last.val

KInv ==
    /\ IInv
    /\ owner /\ restarts = 0
    /\ LastBounds
    /\ AllocationsRecorded
    /\ FetchFresh

LEMMA InitKInv ==
    ASSUME NoReset, Init
    PROVE  KInv
<1>1. LastBounds
  BY DEF Init, LastBounds, NoRecord
<1>2. AllocationsRecorded /\ FetchFresh
  BY IdleFacts DEF Init, AllocationsRecorded, FetchFresh
<1> QED BY <1>1, <1>2, InitIInv, Zenon DEF KInv, Init, NoReset

LEMMA ChosenFresh ==
    ASSUME OneThread, KInv, NEW t \in Threads, op[t].pc = "idle", NEW u \in Uuids,
           NEW id \in Candidate(u)
    PROVE  /\ file[u].val \in {0, id}
           /\ \A v \in Uuids \ {u} : file[v].val # id
<1>1. last.val \in 0..MaxId /\ \A v \in Uuids : file[v].val \in 0..MaxId
  BY DEF KInv, IInv, TypeOK, Record
<1>2. \A i \in 1..MaxId : alloc[i] # Nobody => alloc[i] \in Uuids /\ file[alloc[i]].val = i
  BY DEF KInv, IInv, TypeOK, AllocationsRecorded, Pending, OneThread
<1>3. CASE file[u].val # 0
  <2>1. Usable(u, file[u].val)
    BY <1>1, <1>2, <1>3 DEF KInv, LastBounds, Usable
  <2>2. id = file[u].val
    BY <1>1, <1>3, <2>1, BoundsAssumption DEF Candidate
  <2> QED BY <1>3, <2>2 DEF KInv, LastBounds
<1>4. CASE file[u].val = 0
  <2>1. last.val + 1 <= MaxId => Usable(u, last.val + 1)
    <3> SUFFICES ASSUME last.val + 1 <= MaxId, alloc[last.val + 1] # Nobody PROVE FALSE
      BY DEF Usable
    <3>1. last.val + 1 \in 1..MaxId
      BY <1>1, BoundsAssumption
    <3>2. alloc[last.val + 1] \in Uuids /\ file[alloc[last.val + 1]].val = last.val + 1
      BY <1>2, <3>1
    <3> QED BY <1>1, <3>2 DEF KInv, LastBounds
  <2>2. id = last.val + 1
    BY <1>1, <1>4, <2>1, BoundsAssumption DEF Candidate
  <2> QED BY <1>1, <1>4, <2>2 DEF KInv, LastBounds
<1> QED BY <1>3, <1>4

LEMMA ChooseIdKeepsKInv ==
    ASSUME OneThread, KInv, NEW t \in Threads, NEW u \in Uuids, ChooseId(t, u)
    PROVE  KInv'
<1> PICK id \in Candidate(u) :
        op' = [op EXCEPT ![t] = [pc |-> "allocate", uuid |-> u, id |-> id, seen |-> last.val]]
  BY Zenon DEF ChooseId
<1>1. op'[t] = [pc |-> "allocate", uuid |-> u, id |-> id, seen |-> last.val]
  BY DEF KInv, IInv, TypeOK
<1>2. IInv'
  BY ChooseIdKeepsIInv DEF KInv
<1>3. LastBounds'
  BY Zenon DEF KInv, LastBounds, ChooseId
<1>4. ~\E v, i : Pending(v, i)
  BY DEF ChooseId, Pending, OneThread
<1>5. AllocationsRecorded'
  BY <1>4, Zenon DEF KInv, AllocationsRecorded, ChooseId
<1>6. FetchFresh'
  <2>1. file[u].val \in {0, id} /\ \A v \in Uuids \ {u} : file[v].val # id
    BY ChosenFresh DEF ChooseId
  <2> QED BY <1>1, <2>1, SMTT(40) DEF FetchFresh, ChooseId, OneThread
<1> QED BY <1>2, <1>3, <1>5, <1>6 DEF KInv, ChooseId

LEMMA AllocateIdKeepsKInv ==
    ASSUME OneThread, KInv, NEW t \in Threads, AllocateId(t)
    PROVE  KInv'
<1>1. IInv'
  BY AllocateIdKeepsIInv DEF KInv
<1>2. /\ op[t].uuid \in Uuids /\ op[t].id \in 1..MaxId
      /\ alloc \in [1..MaxId -> Uuids \cup {Nobody}]
  BY DEF KInv, IInv, TypeOK, FetchBacked, Fetching, AllocateId
<1>3. /\ op'[t].pc = "last" /\ op'[t].uuid = op[t].uuid
      /\ op'[t].id = op[t].id /\ op'[t].seen = op[t].seen
  BY DEF KInv, IInv, TypeOK, AllocateId, Op
<1>4. LastBounds'
  BY DEF KInv, LastBounds, AllocateId
<1>5. AllocationsRecorded'
  <2> SUFFICES ASSUME NEW i \in 1..MaxId, alloc'[i] # Nobody
               PROVE  \/ file[alloc'[i]].val = i /\ file[alloc'[i]].mark = "valid"
                      \/ \E s \in Threads : /\ op'[s].pc \in {"last", "entity"}
                                            /\ op'[s].uuid = alloc'[i] /\ op'[s].id = i
    BY Zenon DEF AllocationsRecorded, AllocateId, Pending
  <2>1. CASE alloc'[i] = alloc[i]
    <3>1. ~Pending(alloc[i], i)
      BY DEF AllocateId, Pending, OneThread
    <3> QED BY <2>1, <3>1 DEF KInv, AllocationsRecorded
  <2>2. CASE alloc'[i] # alloc[i]
    <3>1. i = op[t].id /\ alloc'[i] = op[t].uuid
      BY <1>2, <2>2 DEF AllocateId, Allocate
    <3> QED BY <1>3, <3>1
  <2> QED BY <2>1, <2>2
<1>6. FetchFresh'
  BY <1>3 DEF KInv, FetchFresh, AllocateId, OneThread
<1> QED BY <1>1, <1>4, <1>5, <1>6 DEF KInv, AllocateId

LEMMA StoreLastKeepsKInv ==
    ASSUME OneThread, KInv, NEW t \in Threads, StoreLast(t)
    PROVE  KInv'
<1>1. IInv'
  BY StoreLastKeepsIInv DEF KInv
<1>2. /\ op[t].uuid \in Uuids /\ op[t].id \in 1..MaxId /\ op[t].seen = last.val
      /\ last.val \in 0..MaxId /\ \A u \in Uuids : file[u].val \in 0..MaxId
  BY Zenon DEF KInv, IInv, TypeOK, Record, FetchBacked, Fetching, StoreLast, FetchFresh
<1>3. /\ op'[t].pc = "entity" /\ op'[t].uuid = op[t].uuid /\ op'[t].id = op[t].id
  BY DEF KInv, IInv, TypeOK, StoreLast, Op
<1>4. last'.mark = "valid" /\ last'.val >= last.val /\ last'.val >= op[t].id /\ last'.val \in 0..MaxId
  <2>1. CASE last = NoRecord
    <3>1. last' = Put(op[t].id)
      BY <2>1 DEF StoreLast, NewLast, NoRecord
    <3> QED BY <1>2, <2>1, <3>1, BoundsAssumption DEF Put, NoRecord
  <2>2. CASE last.mark = "valid" /\ last.val < op[t].id
    <3>1. last' = Put(op[t].id)
      BY <1>2, <2>2 DEF StoreLast, NewLast
    <3> QED BY <1>2, <2>2, <3>1, BoundsAssumption DEF Put
  <2>3. CASE last.mark = "valid" /\ ~(last.val < op[t].id)
    <3>1. last' = last
      BY <1>2, <2>3 DEF StoreLast, NewLast
    <3> QED BY <1>2, <2>3, <3>1, BoundsAssumption
  <2> QED BY <2>1, <2>2, <2>3 DEF KInv, LastBounds
<1>5. LastBounds'
  BY <1>2, <1>4, BoundsAssumption DEF KInv, LastBounds, StoreLast
<1>6. AllocationsRecorded'
  BY <1>3 DEF KInv, AllocationsRecorded, Pending, StoreLast, OneThread
<1>7. FetchFresh'
  BY <1>2, <1>3, <1>4, SMTT(40) DEF KInv, FetchFresh, StoreLast, OneThread
<1> QED BY <1>1, <1>5, <1>6, <1>7 DEF KInv, StoreLast

LEMMA StoreEntityKeepsKInv ==
    ASSUME OneThread, KInv, NEW t \in Threads, StoreEntity(t)
    PROVE  KInv' /\ \A u \in Uuids : file[u].val # 0 => file'[u].val = file[u].val
<1>1. IInv'
  BY StoreEntityKeepsIInv DEF KInv
<1> DEFINE w == op[t].uuid
<1>2. /\ w \in Uuids /\ op[t].id \in 1..MaxId /\ op[t].id <= last.val
      /\ file[w].val \in {0, op[t].id}
      /\ \A v \in Uuids \ {w} : file[v].val # op[t].id
  BY Zenon DEF KInv, IInv, FetchBacked, Fetching, StoreEntity, FetchFresh
<1>3. op'[t].pc = "add"
  BY DEF KInv, IInv, TypeOK, StoreEntity, Op
<1>4. /\ file'[w].val = op[t].id /\ file'[w].mark = "valid"
      /\ \A u \in Uuids : u # w => file'[u] = file[u]
  BY <1>2, PutFacts, BoundsAssumption DEF KInv, IInv, TypeOK, StoreEntity
<1>5. LastBounds'
  BY <1>2, <1>4 DEF KInv, LastBounds, StoreEntity
<1>6. AllocationsRecorded'
  <2> SUFFICES ASSUME NEW i \in 1..MaxId, alloc[i] # Nobody
               PROVE  file'[alloc[i]].val = i /\ file'[alloc[i]].mark = "valid"
    BY DEF AllocationsRecorded, StoreEntity
  <2>1. alloc[i] \in Uuids
    BY DEF KInv, IInv, TypeOK
  <2>2. CASE Pending(alloc[i], i)
    BY <1>4, <2>2 DEF Pending, OneThread
  <2>3. CASE file[alloc[i]].val = i /\ file[alloc[i]].mark = "valid"
    BY <1>2, <1>4, <2>1, <2>3
  <2> QED BY <2>2, <2>3 DEF KInv, AllocationsRecorded
<1>7. FetchFresh'
  BY <1>3 DEF FetchFresh, OneThread
<1>8. \A u \in Uuids : file[u].val # 0 => file'[u].val = file[u].val
  BY <1>2, <1>4, Zenon
<1> QED BY <1>1, <1>5, <1>6, <1>7, <1>8 DEF KInv, StoreEntity

LEMMA AddToModelKeepsKInv ==
    ASSUME OneThread, KInv, NEW t \in Threads, AddToModel(t)
    PROVE  KInv'
<1>1. IInv'
  BY AddToModelKeepsIInv DEF KInv
<1>2. op'[t] = Idle
  BY DEF KInv, IInv, TypeOK, AddToModel
<1>3. LastBounds'
  BY DEF KInv, LastBounds, AddToModel
<1>4. AllocationsRecorded'
  <2>1. ~\E v, i : Pending(v, i)
    BY DEF AddToModel, Pending, OneThread
  <2> QED BY <2>1 DEF KInv, AllocationsRecorded, AddToModel
<1>5. FetchFresh'
  BY <1>2, IdleFacts DEF FetchFresh, OneThread
<1> QED BY <1>1, <1>3, <1>4, <1>5 DEF KInv, AddToModel

LEMMA RemoveEntryKeepsKInv ==
    ASSUME OneThread, KInv, NEW t \in Threads, NEW u \in Uuids, RemoveEntry(t, u)
    PROVE  KInv'
<1>1. IInv'
  BY RemoveEntryKeepsIInv DEF KInv
<1>2. op'[t].pc = "purge"
  BY DEF KInv, IInv, TypeOK, RemoveEntry
<1>3. LastBounds'
  BY DEF KInv, LastBounds, RemoveEntry
<1>4. AllocationsRecorded'
  <2>1. ~\E v, i : Pending(v, i)
    BY DEF RemoveEntry, Pending, OneThread
  <2> QED BY <2>1 DEF KInv, AllocationsRecorded, RemoveEntry
<1>5. FetchFresh'
  BY <1>2 DEF FetchFresh, OneThread
<1> QED BY <1>1, <1>3, <1>4, <1>5 DEF KInv, RemoveEntry

LEMMA PurgeKeepsKInv ==
    ASSUME OneThread, KInv, NEW t \in Threads, Purge(t)
    PROVE  KInv' /\ \A u \in Uuids : file'[u].val = file[u].val
<1>1. IInv'
  BY PurgeKeepsIInv DEF KInv
<1> DEFINE w == op[t].uuid
<1> DEFINE id == file[w].val
<1>2. /\ w \in Uuids /\ id \in 1..MaxId /\ alloc[id] = w /\ op'[t] = Idle
      /\ file \in [Uuids -> Record] /\ alloc \in [1..MaxId -> Uuids \cup {Nobody}]
  <2>1. w \in Uuids /\ id # 0 /\ alloc[id] = w
    BY Zenon DEF KInv, IInv, PurgeBacked, Purge
  <2>2. file \in [Uuids -> Record] /\ alloc \in [1..MaxId -> Uuids \cup {Nobody}]
    BY DEF KInv, IInv, TypeOK
  <2>3. op'[t] = Idle
    BY DEF KInv, IInv, TypeOK, Purge
  <2>4. id \in 0..MaxId
    BY <2>1, <2>2, Zenon DEF Record
  <2> QED BY <2>1, <2>2, <2>3, <2>4, BoundsAssumption, SMTT(40)
<1>3. file' = [file EXCEPT ![w] = InvalidateFile(file[w])] /\ alloc' = [alloc EXCEPT ![id] = Nobody]
  <2>1. id # 0
    BY Zenon DEF KInv, IInv, PurgeBacked, Purge
  <2> QED BY <2>1, Zenon DEF Purge, RemoveAllocated
<1>4. \A u \in Uuids : file'[u].val = file[u].val
  BY <1>2, <1>3, Zenon DEF InvalidateFile, Record
<1>5. LastBounds'
  BY <1>4 DEF KInv, LastBounds, Purge
<1>6. AllocationsRecorded'
  <2> SUFFICES ASSUME NEW i \in 1..MaxId, alloc'[i] # Nobody
               PROVE  file'[alloc'[i]].val = i /\ file'[alloc'[i]].mark = "valid"
    BY DEF AllocationsRecorded
  <2>1. i # id /\ alloc'[i] = alloc[i] /\ alloc[i] \in Uuids
    BY <1>2, <1>3, Zenon
  <2>2. file[alloc[i]].val = i /\ file[alloc[i]].mark = "valid"
    <3>1. ~Pending(alloc[i], i)
      BY DEF Purge, Pending, OneThread
    <3> QED BY <2>1, <3>1 DEF KInv, AllocationsRecorded
  <2>3. alloc[i] # w
    BY <2>1, <2>2
  <2> QED BY <1>2, <1>3, <2>1, <2>2, <2>3, Zenon
<1>7. FetchFresh'
  BY <1>2, IdleFacts, Zenon DEF FetchFresh, OneThread
<1> QED BY <1>1, <1>4, <1>5, <1>6, <1>7, Zenon DEF KInv, Purge

LEMMA RetentionKeepsKInv ==
    ASSUME KInv, Age \/ RemoveOutdated
    PROVE  KInv' /\ \A u \in Uuids : file'[u].val \in {0, file[u].val}
<1>1. IInv'
  BY RetentionKeepsIInv DEF KInv
<1>2. file \in [Uuids -> Record] /\ last \in Record /\ last.mark # "invalid" /\ last.mark # "outdated"
  BY DEF KInv, IInv, TypeOK, LastBounds, NoRecord
<1>3. /\ last' = last
      /\ \A u \in Uuids : /\ file'[u].val \in {0, file[u].val}
                          /\ file[u].mark = "valid" => file'[u] = file[u]
  <2>1. CASE Age
    BY <1>2, <2>1 DEF Age, Record
  <2>2. CASE RemoveOutdated
    BY <1>2, <2>2 DEF RemoveOutdated, WipeOutdated, NoRecord
  <2> QED BY <2>1, <2>2
<1>4. UNCHANGED <<alloc, entry, owner, op, restarts>>
  BY DEF Age, RemoveOutdated
<1>5. LastBounds'
  <2>1. last.val \in 0..MaxId
    BY <1>2 DEF Record
  <2> QED BY <1>3, <2>1, BoundsAssumption DEF KInv, LastBounds
<1>6. AllocationsRecorded'
  <2> SUFFICES ASSUME NEW i \in 1..MaxId, alloc[i] # Nobody
               PROVE  \/ file'[alloc[i]].val = i /\ file'[alloc[i]].mark = "valid"
                      \/ Pending(alloc[i], i)
    BY <1>4, Zenon DEF AllocationsRecorded, Pending
  <2>1. alloc[i] \in Uuids
    BY DEF KInv, IInv, TypeOK
  <2>2. CASE Pending(alloc[i], i)
    BY <2>2
  <2>3. CASE file[alloc[i]].val = i /\ file[alloc[i]].mark = "valid"
    BY <1>3, <2>1, <2>3
  <2> QED BY <2>2, <2>3 DEF KInv, AllocationsRecorded
<1>7. FetchFresh'
  <2>1. \A t \in Threads : op[t].pc \in {"allocate", "last", "entity"} =>
            op[t].uuid \in Uuids /\ op[t].id \in 1..MaxId
    BY Zenon DEF KInv, IInv, FetchBacked, Fetching
  <2> SUFFICES ASSUME NEW t \in Threads, op[t].pc \in {"allocate", "last", "entity"}
               PROVE  /\ file'[op[t].uuid].val \in {0, op[t].id}
                      /\ \A v \in Uuids \ {op[t].uuid} : file'[v].val # op[t].id
                      /\ op[t].pc # "entity" => op[t].seen = last.val
                      /\ op[t].pc = "entity" => op[t].id <= last.val
    BY <1>3, <1>4, Zenon DEF FetchFresh
  <2>2. op[t].uuid \in Uuids /\ op[t].id # 0
    BY <2>1, BoundsAssumption
  <2>3. /\ file[op[t].uuid].val \in {0, op[t].id}
        /\ \A v \in Uuids \ {op[t].uuid} : file[v].val # op[t].id
        /\ op[t].pc # "entity" => op[t].seen = last.val
        /\ op[t].pc = "entity" => op[t].id <= last.val
    BY Zenon DEF KInv, FetchFresh
  <2>4. file'[op[t].uuid].val \in {0, op[t].id}
    BY <1>3, <2>2, <2>3
  <2>5. \A v \in Uuids \ {op[t].uuid} : file'[v].val # op[t].id
    BY <1>3, <2>2, <2>3
  <2> QED BY <2>3, <2>4, <2>5, Zenon
<1> QED BY <1>1, <1>3, <1>4, <1>5, <1>6, <1>7 DEF KInv

LEMMA StepKeepsKInv ==
    ASSUME OneThread, NoReset, KInv, [Next]_vars
    PROVE  /\ KInv'
           /\ \A u \in Uuids : file[u].val # 0 /\ file'[u].val # 0 => file'[u].val = file[u].val
<1>1. CASE UNCHANGED vars
  <2>1. IInv'
    BY <1>1, StepKeepsIInv DEF KInv
  <2>2. LastBounds' /\ owner' /\ restarts' = 0
    BY <1>1 DEF vars, KInv, LastBounds
  <2>3. AllocationsRecorded'
    BY <1>1 DEF vars, KInv, AllocationsRecorded, Pending
  <2>4. FetchFresh'
    BY <1>1, Zenon DEF vars, KInv, FetchFresh
  <2> QED BY <1>1, <2>1, <2>2, <2>3, <2>4 DEF vars, KInv
<1>2. ASSUME NEW t \in Threads, PurgeOwner(t) \/ FetchOwner(t) PROVE FALSE
  BY <1>2 DEF PurgeOwner, FetchOwner, NoReset, KInv
<1>3. ASSUME Restart PROVE FALSE
  BY <1>3 DEF Restart, NoReset, KInv
<1>4. CASE Next
  BY <1>2, <1>3, <1>4, ChooseIdKeepsKInv, AllocateIdKeepsKInv, StoreLastKeepsKInv,
     StoreEntityKeepsKInv, AddToModelKeepsKInv, RemoveEntryKeepsKInv, PurgeKeepsKInv,
     RetentionKeepsKInv, Zenon
  DEF Next, ChooseId, AllocateId, StoreLast, AddToModel, RemoveEntry
<1> QED BY <1>1, <1>4

(***************************************************************************)
(* While the service runs, with one thread at work in a space without      *)
(* parent, a resource whose record is not wiped is never given another     *)
(* number, also when it is removed and comes back.                         *)
(***************************************************************************)
THEOREM Kept ==
    ASSUME OneThread, NoReset
    PROVE  Spec => IdKept
<1> DEFINE Same == \A u \in Uuids :
                     file[u].val # 0 /\ file'[u].val # 0 => file'[u].val = file[u].val
<1>1. Init => KInv
  BY InitKInv
<1>2. KInv /\ [Next]_vars => KInv' /\ [Same]_vars
  BY StepKeepsKInv
<1> QED BY <1>1, <1>2, PTL DEF Spec, IdKept

=============================================================================
