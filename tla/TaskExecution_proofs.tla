------------------------ MODULE TaskExecution_proofs ------------------------
(***************************************************************************)
(* Tasks of agents and their copies in the REST server, for any tasks, any *)
(* number of pool threads and any requests: an agent's result matches the  *)
(* state it reports, what clients have seen of the end of a task is final, *)
(* completion notifiers are called when the end of a task is first stored  *)
(* and not called again for a task that succeeds, and an agent of which    *)
(* only subtasks throw survives.                                           *)
(***************************************************************************)
EXTENDS TaskExecution, FiniteSetTheorems, TLAPS

Final == {"Completed", "Exception"}

(* The tasks that wait for a thread. *)
Waiting == {t \in Tasks : pc[t] = "queued"}

(* The copy of a task is being refreshed with what elem holds. *)
Fetching(t) == at = t /\ step \in {"read", "result", "store"}

(* The callbacks of the exception path run, or have run. *)
Failed(t) == pc[t] \in {"e_event", "e_result", "handler"} \/ result[t] = "error"

(***************************************************************************)
(* The types of the variables, without the bounds that TypeOK puts on the  *)
(* queue, the threads and the counters.                                    *)
(***************************************************************************)
Types ==
    /\ state \in [Tasks -> TaskState \cup {"none"}]
    /\ time \in [Tasks -> {"none", "started", "ended"}]
    /\ result \in [Tasks -> {"none", "value", "error"}]
    /\ pc \in [Tasks -> Callback \cup {"new", "queued", "done"}]
    /\ queue \in Seq(Tasks)
    /\ crashed \in BOOLEAN
    /\ pending \in [Tasks -> Nat]
    /\ copy \in [Tasks -> Copy \cup {NoCopy}]
    /\ builder \subseteq Tasks
    /\ called \in [Tasks -> Nat]
    /\ tx \in {"free", "post", "update", "poll"}
    /\ step \in {"info", "read", "result", "store", "notifier", "next", "none"}
    /\ at \in Tasks \cup {None}
    /\ elem \in Copy \cup {NoCopy}
    /\ todo \subseteq Tasks /\ touched \subseteq Tasks
    /\ deleting \in [Tasks -> {"no", "agent", "copy"}]
    /\ deleted \subseteq Tasks
    /\ asking \subseteq Tasks
    /\ answer \in [Tasks -> {"none", "accepted", "result", "failure", "missing", "gone",
                             "unreachable"}]

(***************************************************************************)
(* The queue holds the waiting tasks, each once.                           *)
(***************************************************************************)
QueueInv ==
    /\ \A i \in DOMAIN queue : pc[queue[i]] = "queued"
    /\ \A i, j \in DOMAIN queue : queue[i] = queue[j] => i = j
    /\ Cardinality(Waiting) = Len(queue)
    /\ Cardinality(Executing) <= Threads

(***************************************************************************)
(* What holds of a task before each callback.  Only a task that has ended  *)
(* may have been deleted.  The callbacks of the exception path run after   *)
(* those of the completion path only when the response could not be made.  *)
(***************************************************************************)
AgentInv(t) ==
    /\ pc[t] = "new" => state[t] = "none"
    /\ pc[t] \in {"queued", "prerun"} => state[t] = "Pending"
    /\ pc[t] \in {"run", "c_state"} => state[t] = "Running"
    /\ pc[t] \in {"new", "queued", "prerun"} => time[t] = "none"
    /\ pc[t] \in {"run", "c_state"} => time[t] = "started"
    /\ pc[t] \in {"c_event", "c_result"} => state[t] \in {"Completed", "none"} /\ time[t] = "ended"
    /\ pc[t] = "e_state" =>
        \/ state[t] = "Running" /\ time[t] = "started" /\ pending[t] = 0
        \/ state[t] \in {"Completed", "none"} /\ time[t] = "ended" /\ "response" \in MayThrow
    /\ pc[t] \in {"e_event", "e_result", "handler"} =>
        state[t] \in {"Exception", "none"} /\ time[t] = "ended"
    /\ pc[t] \in {"postrun", "done"} =>
        /\ time[t] = "ended"
        /\ \/ result[t] = "value" /\ state[t] \in {"Completed", "none"}
           \/ result[t] = "error" /\ state[t] \in {"Exception", "none"}
    /\ pc[t] \notin {"handler", "postrun", "done"} => result[t] = "none"
    /\ pc[t] = "handler" => result[t] \in {"none", "error"}
    /\ pc[t] \notin {"c_result", "e_state", "e_event", "e_result", "handler", "postrun", "done"} => pending[t] = 0
    /\ pc[t] = "e_event" => pending[t] = 0 \/ crashed
    /\ pending[t] <= IF pc[t] = "done" THEN 2 ELSE 1

(***************************************************************************)
(* A copy c of a task t, in the table or on its way to it, is of a state   *)
(* the task has been in.  When it says that the task has ended the agent's *)
(* task has, and unless the agent has died the outcome has not changed.    *)
(***************************************************************************)
CopyOf(c, t) ==
    /\ c.ended <=> c.state \in Final
    /\ c.ended => time[t] = "ended" /\ (crashed \/ state[t] \in {c.state, "none"})
    /\ c.state = "Exception" => Failed(t)
    /\ c.messages = "error" => result[t] = "error"

CopyInv(t) ==
    /\ HasCopy(t) => CopyOf(copy[t], t)
    /\ copy[t].state = "Exception" => copy[t].messages # "none"
    /\ deleting[t] # "no" => time[t] = "ended"

(***************************************************************************)
(* The fetch under way: nobody else writes copies meanwhile, but a DELETE  *)
(* may take the copy away.                                                 *)
(***************************************************************************)
FetchInv ==
    /\ step \notin {"none", "next"} => at \in Tasks
    /\ step \in {"read", "result", "store"} =>
        /\ elem \in Copy /\ CopyOf(elem, at)
        /\ copy[at].ended => elem.ended /\ elem.state = copy[at].state
    /\ step = "result" => elem.state = "Exception"
    /\ step \in {"result", "store"} /\ HasCopy(at) =>
        elem.messages = copy[at].messages \/ elem.state = "Exception"
    /\ step = "store" =>
        /\ elem.state = "Exception" => elem.messages # "none"
        /\ elem.messages = "missing" => ~Exists(at) \/ copy[at].messages # "error"

(***************************************************************************)
(* Whoever has seen a task end sees no copy of it that has not.            *)
(***************************************************************************)
EndSeen(t) == t \in asking \/ answer[t] \in {"result", "failure"} \/ called[t] > 0

SeenInv(t) ==
    /\ EndSeen(t) => /\ time[t] = "ended"
                     /\ HasCopy(t) => copy[t].ended
                     /\ Fetching(t) => elem.ended
    /\ answer[t] = "result" => result[t] = "value" /\ t \in builder
    /\ answer[t] = "failure" => result[t] = "error"

(***************************************************************************)
(* The completion notifier is called when the copy shows the end; for a    *)
(* task that failed, again when the copy gets the error, and once more if  *)
(* the fetch finds that the agent has just deleted the task.               *)
(***************************************************************************)
CallInv(t) ==
    /\ called[t] <= 3
    /\ called[t] > 1 => Failed(t)
    /\ called[t] = 2 =>
        /\ Exists(t) => result[t] = "error"
        /\ HasCopy(t) => copy[t].messages = "error" \/ (~Exists(t) /\ ~Fetching(t))
        /\ step = "store" /\ at = t /\ elem.messages = "missing" => ~Exists(t)
        /\ Fetching(t) => elem.state = "Exception"
    /\ called[t] = 3 => ~Exists(t) /\ ~Fetching(t)

IInv ==
    /\ Types /\ QueueInv /\ FetchInv
    /\ \A t \in Tasks : AgentInv(t) /\ CopyInv(t) /\ SeenInv(t) /\ CallInv(t)

-----------------------------------------------------------------------------
(***************************************************************************)
(* How a step may change what the agent says of a task: an end is for      *)
(* ever, and so are the result and the path taken.                         *)
(***************************************************************************)
Grows(t) ==
    /\ crashed => crashed'
    /\ time[t] = "ended" =>
        /\ time'[t] = "ended"
        /\ crashed' \/ state'[t] \in {state[t], "none"}
        /\ ~Exists(t) => ~Exists(t)'
    /\ Failed(t) => Failed(t)'
    /\ result[t] # "none" => result'[t] = result[t]

TaskKept(t) ==
    /\ pc'[t] = pc[t] /\ state'[t] = state[t] /\ time'[t] = time[t]
    /\ result'[t] = result[t] /\ pending'[t] <= pending[t]
    /\ crashed => crashed'

LEMMA KeptGrows ==
    ASSUME Types, Types', NEW t \in Tasks, AgentInv(t), TaskKept(t)
    PROVE AgentInv(t)' /\ Grows(t)
BY DEF Types, AgentInv, TaskKept, Grows, Failed, Exists

(* The steps of a task: what is known before its next callback holds.      *)
LEMMA CallbacksKeep ==
    ASSUME Types, Types', NEW t \in Tasks, AgentInv(t), QueueInv, Execute(t)
    PROVE AgentInv(t)' /\ Grows(t)
<1> USE DEF Types, AgentInv, Grows, Failed, Exists, Executes, Goto
<1>1. CASE Start(t)
  <2>1. pc[t] = "queued"
    BY <1>1 DEF Start, QueueInv
  <2> QED BY <1>1, <2>1, Zenon DEF Start
<1>2. CASE Prerun(t)
  BY <1>2 DEF Prerun
<1>3. CASE Run(t)
  BY <1>3 DEF Run
<1>4. CASE CompletedState(t)
  BY <1>4 DEF CompletedState, Finish, StopThrows
<1>5. CASE ExceptionState(t)
  <2>1. CASE time[t] = "started"
    <3>1. crashed' = FALSE /\ crashed = FALSE
      BY <1>5, <2>1 DEF ExceptionState, StopThrows
    <3> QED BY <1>5, <2>1, <3>1 DEF ExceptionState, Finish, StopThrows
  <2>2. CASE time[t] # "started"
    <3>1. crashed' = TRUE /\ crashed = FALSE
      BY <1>5, <2>2, Zenon DEF ExceptionState, StopThrows
    <3> QED BY <1>5, <2>2, <3>1 DEF ExceptionState, Finish, StopThrows
  <2> QED BY <2>1, <2>2, Zenon
<1>6. CASE SendEvent(t)
  BY <1>6 DEF SendEvent
<1>7. CASE PromisedResponse(t)
  BY <1>7 DEF PromisedResponse, Inserted
<1>8. CASE PromisedError(t)
  BY <1>8 DEF PromisedError, Inserted
<1>9. CASE ExceptionHandler(t)
  BY <1>9 DEF ExceptionHandler, Inserted
<1> QED BY <1>1, <1>2, <1>3, <1>4, <1>5, <1>6, <1>7, <1>8, <1>9, Zenon DEF Execute

LEMMA OthersKept ==
    ASSUME Types, NEW t \in Tasks, NEW u \in Tasks \ {t}, Execute(t)
    PROVE TaskKept(u)
<1> USE DEF Types, TaskKept, Executes, Goto
<1>1. CASE Start(t)
  BY <1>1 DEF Start
<1>2. CASE Prerun(t)
  BY <1>2 DEF Prerun
<1>3. CASE Run(t)
  BY <1>3 DEF Run
<1>4. CASE CompletedState(t)
  BY <1>4 DEF CompletedState, Finish
<1>5. CASE ExceptionState(t)
  BY <1>5 DEF ExceptionState, Finish
<1>6. CASE SendEvent(t)
  BY <1>6 DEF SendEvent
<1>7. CASE PromisedResponse(t)
  BY <1>7 DEF PromisedResponse, Inserted
<1>8. CASE PromisedError(t)
  BY <1>8 DEF PromisedError, Inserted
<1>9. CASE ExceptionHandler(t)
  BY <1>9 DEF ExceptionHandler, Inserted
<1> QED BY <1>1, <1>2, <1>3, <1>4, <1>5, <1>6, <1>7, <1>8, <1>9, Zenon DEF Execute

(***************************************************************************)
(* The pool: tasks are queued once, taken in order, and a thread is taken  *)
(* only when one is idle.                                                  *)
(***************************************************************************)
LEMMA SetsFinite ==
    /\ IsFiniteSet(Waiting) /\ Cardinality(Waiting) \in Nat /\ Cardinality(Waiting) <= Cardinality(Tasks)
    /\ IsFiniteSet(Executing) /\ Cardinality(Executing) \in Nat
    /\ IsFiniteSet(Executing') /\ Cardinality(Executing') \in Nat
BY TasksAssumption, FS_Subset, FS_CardinalityType DEF Waiting, Executing

LEMMA PostQueues ==
    ASSUME Types, QueueInv, NEW t \in Tasks, Post(t)
    PROVE QueueInv'
<1> USE DEF Types
<1>1. /\ queue' = Append(queue, t) /\ pc' = [pc EXCEPT ![t] = "queued"] /\ pc[t] = "new"
  BY DEF Post, Goto
<1>2. /\ Len(queue) \in Nat /\ Len(queue') = Len(queue) + 1
      /\ DOMAIN queue = 1..Len(queue) /\ DOMAIN queue' = 1..Len(queue) + 1
  BY <1>1
<1>3. \A i \in DOMAIN queue : queue'[i] = queue[i] /\ queue[i] # t
  BY <1>1 DEF QueueInv
<1>4. queue'[Len(queue) + 1] = t
  BY <1>1
<1>5. \A i \in DOMAIN queue' : pc'[queue'[i]] = "queued"
  BY <1>1, <1>2, <1>3, <1>4 DEF QueueInv
<1>6. \A i, j \in DOMAIN queue' : queue'[i] = queue'[j] => i = j
  <2>1. \A i \in DOMAIN queue' : i \in DOMAIN queue \/ i = Len(queue) + 1
    BY ONLY <1>2
  <2>2. \A i, j \in DOMAIN queue : queue[i] = queue[j] => i = j
    BY Zenon DEF QueueInv
  <2> QED BY ONLY <1>3, <1>4, <2>1, <2>2
<1>7. Waiting' = Waiting \cup {t} /\ t \notin Waiting
  BY <1>1 DEF Waiting
<1>8. Executing' = Executing
  BY <1>1 DEF Executing, Callback
<1>9. Cardinality(Waiting') = Len(queue')
  <2>1. Cardinality(Waiting \cup {t}) = Cardinality(Waiting) + 1
    BY <1>7, SetsFinite, FS_AddElement, Zenon
  <2> QED BY <1>2, <1>7, <2>1 DEF QueueInv
<1> QED BY <1>5, <1>6, <1>8, <1>9 DEF QueueInv

LEMMA TailFacts ==
    ASSUME NEW S, NEW q \in Seq(S), q # <<>>
    PROVE  /\ Len(q) \in Nat \ {0} /\ Len(Tail(q)) = Len(q) - 1
           /\ DOMAIN q = 1..Len(q) /\ DOMAIN Tail(q) = 1..Len(q) - 1
           /\ \A i \in DOMAIN Tail(q) :
                 i \in Nat /\ i + 1 \in DOMAIN q /\ i + 1 # 1 /\ Tail(q)[i] = q[i + 1]
OBVIOUS

LEMMA StartTakes ==
    ASSUME Types, QueueInv, NEW t \in Tasks, Start(t)
    PROVE QueueInv'
<1>0. queue \in Seq(Tasks) /\ pc \in [Tasks -> Callback \cup {"new", "queued", "done"}]
  BY Zenon DEF Types
<1> USE <1>0
<1>1. /\ queue' = Tail(queue) /\ queue # <<>> /\ t = queue[1]
      /\ pc' = [pc EXCEPT ![t] = "prerun"] /\ pc[t] = "queued"
  BY DEF Start, Popped, Goto, QueueInv
<1>2. /\ Len(queue) \in Nat \ {0} /\ Len(queue') = Len(queue) - 1
      /\ DOMAIN queue = 1..Len(queue) /\ DOMAIN queue' = 1..Len(queue) - 1
  BY ONLY <1>0, <1>1, TailFacts
<1>3. \A i \in DOMAIN queue' :
        i \in Nat /\ i + 1 \in DOMAIN queue /\ i + 1 # 1 /\ queue'[i] = queue[i + 1]
  BY ONLY <1>0, <1>1, TailFacts
<1>4. \A i \in DOMAIN queue' : pc'[queue'[i]] = "queued"
  <2>1. 1 \in DOMAIN queue
    BY <1>2
  <2>2. \A i \in DOMAIN queue : queue[i] \in Tasks /\ pc[queue[i]] = "queued" /\ (queue[i] = t => i = 1)
    BY <1>1, <2>1 DEF QueueInv
  <2>3. \A u \in Tasks \ {t} : pc'[u] = pc[u]
    BY <1>1
  <2> QED BY ONLY <1>3, <2>2, <2>3
<1>5. \A i, j \in DOMAIN queue' : queue'[i] = queue'[j] => i = j
  <2>1. \A i, j \in DOMAIN queue' : queue'[i] = queue'[j] => i + 1 = j + 1
    BY <1>3 DEF QueueInv
  <2> QED BY <1>3, <2>1
<1>6. Waiting' = Waiting \ {t} /\ t \in Waiting
  BY <1>1 DEF Waiting
<1>7. Executing' = Executing \cup {t} /\ t \notin Executing
  BY <1>1 DEF Executing, Callback
<1>8. Cardinality(Waiting') = Len(queue')
  <2>1. Cardinality(Waiting \ {t}) = Cardinality(Waiting) - 1
    BY <1>6, SetsFinite, FS_RemoveElement, Zenon
  <2> QED BY <1>2, <1>6, <2>1 DEF QueueInv
<1>9. Cardinality(Executing') = Cardinality(Executing) + 1
  BY <1>7, SetsFinite, FS_AddElement
<1>10. Cardinality(Executing') <= Threads
  BY <1>9, SetsFinite, ThreadsAssumption DEF Start, ThreadIdle
<1> QED BY <1>4, <1>5, <1>8, <1>10 DEF QueueInv

LEMMA CallbackStays ==
    ASSUME Types, QueueInv, NEW t \in Tasks, Execute(t), ~Start(t)
    PROVE QueueInv'
<1>0. queue \in Seq(Tasks) /\ pc \in [Tasks -> Callback \cup {"new", "queued", "done"}]
  BY Zenon DEF Types
<1> USE <1>0
<1>1. /\ queue' = queue /\ pc[t] \in Callback
      /\ \E p \in Callback \cup {"done"} : pc' = [pc EXCEPT ![t] = p]
  BY Zenon DEF Execute, Prerun, Run, CompletedState, ExceptionState, SendEvent, PromisedResponse,
         PromisedError, ExceptionHandler, Executes, Goto, Callback
<1>2. Waiting' = Waiting
  BY <1>1 DEF Waiting, Callback
<1>3. Executing' \subseteq Executing
  BY <1>1 DEF Executing
<1>4. Cardinality(Executing') <= Cardinality(Executing)
  BY <1>3, SetsFinite, FS_Subset
<1>5. \A i \in DOMAIN queue : pc'[queue[i]] = "queued"
  BY <1>1 DEF QueueInv, Callback
<1> QED BY <1>1, <1>2, <1>4, <1>5, SetsFinite, ThreadsAssumption DEF QueueInv

-----------------------------------------------------------------------------
(***************************************************************************)
(* Every step keeps the types.                                             *)
(***************************************************************************)
LEMMA ExecuteTypes ==
    ASSUME Types, NEW t \in Tasks, Execute(t)
    PROVE Types'
<1> USE DEF Types, Executes, Goto, copyVars, txVars, clientVars
<1>1. CASE Start(t)
  BY <1>1 DEF Start, Popped, Callback
<1>2. CASE Prerun(t)
  <2>1. pc' \in [Tasks -> Callback \cup {"new", "queued", "done"}]
    <3>1. \E p \in Callback \cup {"done"} : pc' = [pc EXCEPT ![t] = p]
      BY <1>2 DEF Prerun, Callback
    <3> QED BY <3>1
  <2>2. state' \in [Tasks -> TaskState \cup {"none"}]
    BY <1>2 DEF Prerun, TaskState
  <2>3. time' \in [Tasks -> {"none", "started", "ended"}]
    <3>1. time' = time \/ time' = [time EXCEPT ![t] = "started"]
      BY <1>2 DEF Prerun
    <3> QED BY <3>1, Zenon
  <2> QED BY <1>2, <2>1, <2>2, <2>3, Zenon DEF Prerun
<1>3. CASE Run(t)
  BY <1>3, ZenonT(40) DEF Run, Callback
<1>4. CASE CompletedState(t)
  BY <1>4 DEF CompletedState, Finish, Callback, TaskState
<1>5. CASE ExceptionState(t)
  BY <1>5, Zenon DEF ExceptionState, Finish, Callback, TaskState, StopThrows
<1>6. CASE SendEvent(t)
  <2>1. pc' \in [Tasks -> Callback \cup {"new", "queued", "done"}]
    <3>1. \E p \in Callback \cup {"done"} : pc' = [pc EXCEPT ![t] = p]
      BY <1>6, Zenon DEF SendEvent, Callback
    <3> QED BY <3>1
  <2>2. pending' \in [Tasks -> Nat]
    BY <1>6 DEF SendEvent
  <2> QED BY <1>6, <2>1, <2>2, Zenon DEF SendEvent
<1>7. CASE PromisedResponse(t)
  <2>1. pc' \in [Tasks -> Callback \cup {"new", "queued", "done"}]
    <3>1. \E p \in Callback \cup {"done"} : pc' = [pc EXCEPT ![t] = p]
      BY <1>7 DEF PromisedResponse, Callback
    <3> QED BY <3>1
  <2>2. result' \in [Tasks -> {"none", "value", "error"}]
    <3>1. result' = result \/ result' = [result EXCEPT ![t] = "value"]
      BY <1>7 DEF PromisedResponse, Inserted
    <3> QED BY <3>1, Zenon
  <2> QED BY <1>7, <2>1, <2>2, Zenon DEF PromisedResponse
<1>8. CASE PromisedError(t)
  BY <1>8, ZenonT(40) DEF PromisedError, Inserted, Callback
<1>9. CASE ExceptionHandler(t)
  BY <1>9, Zenon DEF ExceptionHandler, Inserted, Callback
<1> QED BY <1>1, <1>2, <1>3, <1>4, <1>5, <1>6, <1>7, <1>8, <1>9, Zenon DEF Execute

LEMMA PostTypes ==
    ASSUME Types, NEW t \in Tasks, Post(t)
    PROVE Types'
BY DEF Types, Post, Enter, Goto, TaskState, copyVars, clientVars

LEMMA ClientTypes ==
    ASSUME Types, NEW t \in Tasks,
           Delete(t) \/ DeleteAtAgent(t) \/ DeleteCopy(t) \/ AskMonitor(t) \/ AnswerMonitor(t)
    PROVE Types'
<1> USE DEF Types
<1>1. MonitorAnswer(t) \in {"missing", "failure", "result", "gone", "unreachable"}
  BY DEF MonitorAnswer, TaskResultInfo
<1>2. UNCHANGED <<time, result, pc, queue, crashed, pending, builder, called, tx, step, at, elem, todo, touched>>
  BY Zenon DEF Delete, DeleteAtAgent, DeleteCopy, AskMonitor, AnswerMonitor, ResultsAfterRead,
         agentVars, copyVars, txVars
<1>3. state' \in [Tasks -> TaskState \cup {"none"}]
  <2>1. state' = state \/ state' = [state EXCEPT ![t] = "none"]
    BY Zenon DEF Delete, DeleteAtAgent, DeleteCopy, AskMonitor, AnswerMonitor, agentVars
  <2> QED BY <2>1
<1>7. copy' \in [Tasks -> Copy \cup {NoCopy}]
  <2>1. copy' = copy \/ copy' = [copy EXCEPT ![t] = NoCopy]
    BY Zenon DEF Delete, DeleteAtAgent, DeleteCopy, AskMonitor, AnswerMonitor, copyVars
  <2> QED BY <2>1, Zenon
<1>5. deleting' \in [Tasks -> {"no", "agent", "copy"}]
  <2>1. deleting' = deleting \/ \E w \in {"no", "agent", "copy"} : deleting' = [deleting EXCEPT ![t] = w]
    BY Zenon DEF Delete, DeleteAtAgent, DeleteCopy, AskMonitor, AnswerMonitor
  <2> QED BY <2>1, Zenon
<1>6. deleted' \subseteq Tasks /\ asking' \subseteq Tasks
  BY DEF Delete, DeleteAtAgent, DeleteCopy, AskMonitor, AnswerMonitor
<1>4. answer' \in [Tasks -> {"none", "accepted", "result", "failure", "missing", "gone", "unreachable"}]
  BY <1>1, Zenon DEF Delete, DeleteAtAgent, DeleteCopy, AskMonitor, AnswerMonitor
<1> QED BY <1>2, <1>3, <1>4, <1>5, <1>6, <1>7, Zenon

LEMMA ElemTypes ==
    ASSUME Types, NEW t \in Tasks
    PROVE /\ Exists(t) => TaskInfo(t) \in Copy
          /\ elem \in Copy => Merged(t) \in Copy
          /\ elem \in Copy => \A m \in {"none", "error", "missing"} : [elem EXCEPT !.messages = m] \in Copy
<1>1. Exists(t) => TaskInfo(t) \in Copy
  BY Zenon DEF Types, Exists, TaskInfo, Copy, NoCopy
<1>2. copy[t].messages \in {"none", "error", "missing"} /\ copy[t].notifier \in BOOLEAN
  <2>1. copy[t] \in Copy \/ copy[t] = NoCopy
    BY DEF Types
  <2>2. CASE copy[t] \in Copy
    BY ONLY <2>2 DEF Copy
  <2>3. CASE copy[t] = NoCopy
    BY ONLY <2>3 DEF NoCopy
  <2> QED BY <2>1, <2>2, <2>3
<1>3. elem \in Copy => Merged(t) \in Copy
  BY ONLY <1>2, Zenon DEF Merged, Copy
<1>4. elem \in Copy => \A m \in {"none", "error", "missing"} : [elem EXCEPT !.messages = m] \in Copy
  BY ONLY TRUE DEF Copy
<1> QED BY ONLY <1>1, <1>3, <1>4

LEMMA TransactionTypes ==
    ASSUME Types, FetchInv, Transaction \/ StartPoll \/ \E t \in Tasks : HandleUpdate(t)
    PROVE Types'
<1> USE DEF Types, agentVars, clientVars, copyVars, txVars
<1>1. CASE FetchInfo
  BY <1>1, ElemTypes DEF FetchInfo, FetchInv, FetchFails, Leave, Proceed
<1>2. CASE ReadCopy
  BY <1>2, ElemTypes DEF ReadCopy, FetchInv, Proceed
<1>3. CASE FetchResult
  <2>1. elem \in Copy /\ at \in Tasks
    BY <1>3 DEF FetchResult, FetchInv
  <2>2. elem.messages \in {"none", "error", "missing"}
    BY ONLY <2>1 DEF Copy
  <2>3. \E m \in {"none", "error", "missing"} : elem' = [elem EXCEPT !.messages = m]
    BY <1>3, <2>1, <2>2, Zenon DEF FetchResult, TaskResultInfo
  <2>4. elem' \in Copy
    BY ONLY <2>1, <2>3 DEF Copy
  <2> QED BY <1>3, <2>4, Zenon DEF FetchResult, Proceed
<1>4. CASE Unreachable
  BY <1>4, Zenon DEF Unreachable, Leave
<1>5. CASE Store
  BY <1>5 DEF Store, FetchInv, Leave, Proceed
<1>6. CASE AddNotifier
  <2>1. at \in Tasks
    BY <1>6 DEF AddNotifier, FetchInv
  <2>2. HasCopy(at) => [copy[at] EXCEPT !.notifier = TRUE] \in Copy
    <3>1. HasCopy(at) => copy[at] \in Copy
      BY <2>1 DEF HasCopy
    <3> QED BY ONLY <3>1, Zenon DEF Copy
  <2>3. copy' \in [Tasks -> Copy \cup {NoCopy}]
    BY <1>6, <2>1, <2>2 DEF AddNotifier
  <2> QED BY <1>6, <2>1, <2>3 DEF AddNotifier, Leave
<1>7. CASE RemoveUntouched
  BY <1>7, Zenon DEF RemoveUntouched, Leave
<1>8. CASE \E t \in Tasks : PollNext(t)
  BY <1>8, ZenonT(40) DEF PollNext
<1>9. CASE StartPoll
  BY <1>9, Zenon DEF StartPoll, Enter
<1>10. CASE \E t \in Tasks : HandleUpdate(t)
  BY <1>10 DEF HandleUpdate, Enter
<1> QED BY <1>1, <1>2, <1>3, <1>4, <1>5, <1>6, <1>7, <1>8, <1>9, <1>10, Zenon DEF Transaction

-----------------------------------------------------------------------------
(***************************************************************************)
(* The REST server's side of the steps that store no copy: copies may only *)
(* disappear, the fetch under way stays what it is or is over, and nobody  *)
(* is called.                                                              *)
(***************************************************************************)
CopyKept(t) == copy'[t] = NoCopy \/ (HasCopy(t) /\ Data(copy'[t]) = Data(copy[t]))

FetchKept ==
    \/ UNCHANGED <<step, at, elem>>
    \/ step' \in {"none", "next"}
    \/ step' \in {"info", "notifier"} /\ at' \in Tasks

Quiet ==
    /\ \A t \in Tasks : Grows(t) /\ CopyKept(t)
    /\ FetchKept
    /\ called' = called

LEMMA CopyOfKept ==
    ASSUME NEW t \in Tasks, NEW c, NEW d, CopyOf(c, t), Grows(t),
           d.state = c.state, d.ended = c.ended, d.messages = c.messages
    PROVE CopyOf(d, t)'
BY Zenon DEF CopyOf, Grows, Final

LEMMA KeptData ==
    ASSUME NEW t \in Tasks, CopyKept(t), copy'[t] # NoCopy
    PROVE /\ HasCopy(t)
          /\ copy'[t].state = copy[t].state /\ copy'[t].ended = copy[t].ended
          /\ copy'[t].messages = copy[t].messages
BY DEF CopyKept, Data

LEMMA QuietCopies ==
    ASSUME Types, NEW t \in Tasks, CopyInv(t), Quiet,
           deleting'[t] # "no" => deleting[t] # "no" \/ time[t] = "ended"
    PROVE CopyInv(t)'
<1>1. Grows(t) /\ CopyKept(t)
  BY DEF Quiet
<1>2. HasCopy(t)' => CopyOf(copy[t], t)'
  BY <1>1, KeptData, CopyOfKept, Zenon DEF HasCopy, CopyInv
<1>3. copy'[t].state = "Exception" => copy'[t].messages # "none"
  BY <1>1, KeptData DEF CopyInv, NoCopy
<1>4. deleting'[t] # "no" => time'[t] = "ended"
  BY <1>1, Zenon DEF Grows, CopyInv
<1> QED BY <1>2, <1>3, <1>4, Zenon DEF CopyInv

LEMMA QuietFetch ==
    ASSUME Types, FetchInv, \A t \in Tasks : AgentInv(t), \A t \in Tasks : CopyInv(t), Quiet
    PROVE FetchInv'
<1>1. CASE step' \in {"none", "next"} \/ (step' \in {"info", "notifier"} /\ at' \in Tasks)
  BY <1>1, Zenon DEF FetchInv
<1>2. CASE UNCHANGED <<step, at, elem>>
  <2>1. CASE step \in {"read", "result", "store"}
    <3>1. at \in Tasks /\ elem \in Copy /\ CopyOf(elem, at)
      BY <2>1, Zenon DEF FetchInv
    <3>2. Grows(at) /\ CopyKept(at)
      BY <3>1 DEF Quiet
    <3>3. CopyOf(elem, at)'
      BY ONLY <1>2, <3>1, <3>2, CopyOfKept
    <3>4. copy'[at].ended => copy[at].ended /\ copy'[at].state = copy[at].state
      BY <3>1, <3>2, KeptData DEF NoCopy
    <3>5. copy'[at] # NoCopy => HasCopy(at) /\ copy'[at].messages = copy[at].messages
      BY <3>1, <3>2, KeptData, Zenon
    <3>6. ~Exists(at) => ~Exists(at)' \/ copy'[at].messages # "error"
      <4>1. copy'[at].messages = "error" => result[at] = "error"
        BY <3>1, <3>5 DEF CopyInv, CopyOf, NoCopy
      <4>2. AgentInv(at)
        BY <3>1
      <4>3. result[at] = "error" => time[at] = "ended"
        BY <3>1, <4>2, Zenon DEF AgentInv, Types
      <4> QED BY <1>2, <3>2, <4>1, <4>3, Zenon DEF Grows, Exists
    <3>7. copy'[at].messages = "error" => copy[at].messages = "error"
      BY <3>5 DEF NoCopy
    <3> QED BY <1>2, <2>1, <3>1, <3>3, <3>4, <3>5, <3>6, <3>7, Zenon DEF FetchInv, HasCopy
  <2>2. CASE step \notin {"read", "result", "store"}
    BY <1>2, <2>2, Zenon DEF FetchInv
  <2> QED BY <2>1, <2>2
<1> QED BY <1>1, <1>2 DEF Quiet, FetchKept

LEMMA QuietCalls ==
    ASSUME Types, NEW t \in Tasks, AgentInv(t), CallInv(t), SeenInv(t), Quiet
    PROVE CallInv(t)'
<1>1. Grows(t) /\ CopyKept(t) /\ called' = called /\ called[t] \in Nat
  BY DEF Quiet, Types
<1>2. called[t] > 0 => time[t] = "ended"
  BY Zenon DEF SeenInv, EndSeen
<1>3. Fetching(t)' => Fetching(t) /\ UNCHANGED <<step, at, elem>>
  BY DEF Quiet, FetchKept, Fetching
<1>4. called[t] > 0 /\ ~Exists(t) => ~Exists(t)'
  BY <1>1, <1>2, Zenon DEF Grows
<1>5. HasCopy(t)' => HasCopy(t) /\ copy'[t].messages = copy[t].messages
  BY <1>1, KeptData, Zenon DEF HasCopy
<1>6. CASE called[t] = 2
  <2>0. called[t] > 0 /\ called[t] > 1 /\ "error" # "none"
    BY ONLY <1>6
  <2>1. Exists(t)' => result'[t] = "error"
    BY <1>1, <1>4, <1>6, <2>0, Zenon DEF CallInv, Grows
  <2>2. HasCopy(t)' => copy'[t].messages = "error" \/ (~Exists(t)' /\ ~Fetching(t)')
    BY <1>3, <1>4, <1>5, <1>6 DEF CallInv
  <2>3. step' = "store" /\ at' = t /\ elem'.messages = "missing" => ~Exists(t)'
    BY <1>3, <1>4, <1>6 DEF CallInv, Fetching
  <2>4. Fetching(t)' => elem'.state = "Exception"
    BY <1>3, <1>6, Zenon DEF CallInv
  <2>5. Failed(t)'
    BY ONLY <1>1, <2>0, CallInv(t), Zenon DEF CallInv, Grows
  <2>6. called'[t] = 2
    BY ONLY <1>1, <1>6
  <2> QED BY ONLY <2>1, <2>2, <2>3, <2>4, <2>5, <2>6 DEF CallInv
<1>7. CASE called[t] # 2
  <2>1. called'[t] = called[t] /\ called[t] <= 3
    BY ONLY <1>1, CallInv(t), Zenon DEF CallInv
  <2>2. called[t] > 1 => Failed(t)'
    BY ONLY <1>1, CallInv(t), Zenon DEF CallInv, Grows
  <2>3. called[t] = 3 => ~Exists(t)' /\ ~Fetching(t)'
    BY ONLY <1>1, <1>3, <1>4, CallInv(t) DEF CallInv
  <2> QED BY ONLY <1>7, <2>1, <2>2, <2>3, Zenon DEF CallInv
<1> QED BY ONLY <1>6, <1>7

LEMMA QuietSeen ==
    ASSUME Types, NEW t \in Tasks, SeenInv(t), Quiet, EndSeen(t)' => EndSeen(t),
           answer'[t] \in {"result", "failure"} => answer'[t] = answer[t], builder \subseteq builder'
    PROVE SeenInv(t)'
<1>1. Grows(t) /\ CopyKept(t)
  BY Zenon DEF Quiet
<1>2. Fetching(t)' => Fetching(t) /\ UNCHANGED elem
  BY Zenon DEF Quiet, FetchKept, Fetching
<1>3. HasCopy(t)' => HasCopy(t) /\ copy'[t].ended = copy[t].ended
  BY <1>1, KeptData, Zenon DEF HasCopy
<1>4. EndSeen(t)' => time'[t] = "ended" /\ (HasCopy(t)' => copy'[t].ended) /\ (Fetching(t)' => elem'.ended)
  BY <1>1, <1>2, <1>3, Zenon DEF SeenInv, Grows
<1>5. /\ answer'[t] = "result" => result'[t] = "value" /\ t \in builder'
      /\ answer'[t] = "failure" => result'[t] = "error"
  BY <1>1, Zenon DEF SeenInv, Grows
<1> QED BY <1>4, <1>5, Zenon DEF SeenInv

-----------------------------------------------------------------------------
(***************************************************************************)
(* The steps of fetch_entry.  The agent's side does not move.              *)
(***************************************************************************)
LEMMA AgentKept ==
    ASSUME IInv, Types', UNCHANGED <<agentVars, pending>>
    PROVE QueueInv' /\ \A t \in Tasks : AgentInv(t)' /\ Grows(t)
<1>1. QueueInv'
  BY Zenon DEF IInv, QueueInv, agentVars, Waiting, Executing
<1>2. ASSUME NEW t \in Tasks PROVE AgentInv(t)' /\ Grows(t)
  <2>1. pending'[t] = pending[t] /\ pending[t] \in Nat
    BY Zenon DEF IInv, Types
  <2>2. pending'[t] <= pending[t]
    BY ONLY <2>1
  <2>3. TaskKept(t)
    BY ONLY <2>2, UNCHANGED <<agentVars, pending>> DEF TaskKept, agentVars
  <2>4. Types /\ AgentInv(t)
    BY Zenon DEF IInv
  <2> QED BY <2>3, <2>4, KeptGrows, Zenon
<1> QED BY <1>1, <1>2

(* A step of a fetch changes only elem and step.                           *)
LEMMA CopiesStay ==
    ASSUME IInv, Types', UNCHANGED <<agentVars, pending, copyVars, builder, clientVars, at>>
    PROVE /\ \A t \in Tasks : CopyInv(t)'
          /\ QueueInv' /\ \A t \in Tasks : AgentInv(t)'
<1>1. ASSUME NEW t \in Tasks PROVE CopyInv(t)'
  <2>1. CopyInv(t)
    BY DEF IInv
  <2> QED BY <2>1, Zenon DEF CopyInv, CopyOf, HasCopy, Failed, agentVars, copyVars, clientVars
<1> QED BY <1>1, AgentKept

LEMMA InfoIsTrue ==
    ASSUME Types, NEW t \in Tasks, AgentInv(t), Exists(t)
    PROVE CopyOf(TaskInfo(t), t)
<1>1. /\ TaskInfo(t).state = state[t] /\ (TaskInfo(t).ended <=> time[t] = "ended")
      /\ TaskInfo(t).messages = "none"
  BY Zenon DEF TaskInfo, NoCopy
<1>2. /\ pc[t] \in Callback \cup {"new", "queued", "done"}
      /\ state[t] \in TaskState /\ result[t] \in {"none", "value", "error"}
  BY DEF Types, Exists
<1>3. time[t] = "ended" <=> state[t] \in Final
  BY <1>2, Zenon DEF AgentInv, Final, Callback, TaskState
<1>4. state[t] = "Exception" => Failed(t)
  BY <1>2, Zenon DEF AgentInv, Failed, Callback
<1> QED BY ONLY <1>1, <1>3, <1>4, Zenon DEF CopyOf

LEMMA FetchInfoKeeps ==
    ASSUME IInv, Types', FetchInfo, Exists(at)
    PROVE IInv'
<1>1. /\ at \in Tasks /\ elem' = TaskInfo(at) /\ at' = at /\ step' = "read" /\ step = "info" /\ ~crashed
      /\ UNCHANGED <<agentVars, pending, copyVars, builder, clientVars>>
  BY Zenon DEF IInv, FetchInfo, FetchInv, Proceed
<1>2. UNCHANGED <<state, time, result, pc, crashed, copy, called, asking, answer, builder>>
  BY <1>1 DEF agentVars, copyVars, clientVars
<1>3. Types /\ AgentInv(at) /\ CopyInv(at)
  BY <1>1 DEF IInv
<1>4. elem' \in Copy
  BY <1>1, <1>3, ElemTypes
<1>5. CopyOf(elem, at)'
  <2>1. CopyOf(elem', at)
    BY <1>1, <1>3, InfoIsTrue
  <2> QED BY ONLY <1>1, <1>2, <2>1, Zenon DEF CopyOf, Failed
<1>6. elem'.state = state[at] /\ (elem'.ended <=> time[at] = "ended")
  BY ONLY <1>1, Zenon DEF TaskInfo, NoCopy
<1>7. copy[at].ended => elem'.ended /\ elem'.state = copy[at].state
  <2>1. copy[at].ended => HasCopy(at)
    BY DEF HasCopy, NoCopy
  <2>2. copy[at].ended => time[at] = "ended" /\ state[at] \in {copy[at].state, "none"}
    BY <1>1, <1>3, <2>1, Zenon DEF CopyInv, CopyOf
  <2> QED BY <1>6, <2>2, Zenon DEF Exists
<1>8. FetchInv'
  BY <1>1, <1>2, <1>4, <1>5, <1>7, Zenon DEF FetchInv
<1>9. ASSUME NEW t \in Tasks PROVE SeenInv(t)'
  <2>1. SeenInv(t)
    BY DEF IInv
  <2>2. EndSeen(t)' => EndSeen(t)
    BY <1>2 DEF EndSeen
  <2> QED BY ONLY <1>1, <1>2, <1>6, <2>1, <2>2, Zenon DEF SeenInv, HasCopy, Fetching
<1>10. ASSUME NEW t \in Tasks PROVE CallInv(t)'
  <2>1. CallInv(t)
    BY DEF IInv
  <2>2. called[t] = 2 /\ t = at => elem'.state = "Exception"
    BY <1>2, <1>3, <1>6, <2>1, Zenon DEF CallInv, AgentInv, Types, Exists, Callback
  <2> QED BY ONLY <1>1, <1>2, <2>1, <2>2, Exists(at), Zenon DEF CallInv, HasCopy, Fetching, Exists, Failed
<1> QED BY <1>1, <1>8, <1>9, <1>10, CopiesStay, Zenon DEF IInv

LEMMA ReadCopyKeeps ==
    ASSUME IInv, Types', ReadCopy
    PROVE IInv'
<1>1. /\ at \in Tasks /\ elem \in Copy /\ CopyOf(elem, at) /\ step = "read"
      /\ copy[at].ended => elem.ended /\ elem.state = copy[at].state
  BY Zenon DEF IInv, ReadCopy, FetchInv
<1>2. /\ elem' = Merged(at) /\ at' = at
      /\ step' = IF elem.state = "Exception" THEN "result" ELSE "store"
      /\ UNCHANGED <<agentVars, pending, copyVars, builder, clientVars>>
  BY DEF ReadCopy, Proceed
<1>3. UNCHANGED <<state, time, result, pc, crashed, copy, called, asking, answer, builder>>
  BY <1>2 DEF agentVars, copyVars, clientVars
<1>4. /\ elem' \in Copy /\ elem'.state = elem.state /\ elem'.ended = elem.ended
      /\ elem'.messages = copy[at].messages
  <2>1. elem' \in Copy
    BY <1>1, <1>2, ElemTypes DEF IInv
  <2> QED BY ONLY <1>1, <1>2, <2>1 DEF Merged, Copy
<1>5. copy[at].messages = "error" => result[at] = "error"
  BY <1>1 DEF IInv, CopyInv, CopyOf, HasCopy, NoCopy
<1>6. CopyOf(elem, at)'
  BY ONLY <1>1, <1>2, <1>3, <1>4, <1>5, Zenon DEF CopyOf, Failed
<1>7. FetchInv'
  BY ONLY <1>1, <1>2, <1>3, <1>4, <1>6, Zenon DEF FetchInv, HasCopy
<1>8. ASSUME NEW t \in Tasks PROVE SeenInv(t)'
  <2>1. SeenInv(t)
    BY DEF IInv
  <2>2. EndSeen(t)' => EndSeen(t)
    BY <1>3 DEF EndSeen
  <2> QED BY ONLY <1>1, <1>2, <1>3, <1>4, <2>1, <2>2, Zenon DEF SeenInv, HasCopy, Fetching
<1>9. ASSUME NEW t \in Tasks PROVE CallInv(t)'
  <2>1. CallInv(t)
    BY DEF IInv
  <2>2. copy[t].messages = "missing" => HasCopy(t)
    BY DEF HasCopy, NoCopy
  <2> QED BY ONLY <1>1, <1>2, <1>3, <1>4, <2>1, <2>2, Zenon DEF CallInv, HasCopy, Fetching, Exists, Failed
<1> QED BY <1>2, <1>7, <1>8, <1>9, CopiesStay DEF IInv

LEMMA FetchResultKeeps ==
    ASSUME IInv, Types', FetchResult
    PROVE IInv'
<1>1. /\ at \in Tasks /\ elem \in Copy /\ CopyOf(elem, at) /\ step = "result"
      /\ copy[at].ended => elem.ended /\ elem.state = copy[at].state
      /\ elem.state = "Exception" /\ ~crashed
  BY DEF IInv, FetchResult, FetchInv
<1>2. /\ at' = at /\ step' = "store"
      /\ UNCHANGED <<agentVars, pending, copyVars, builder, clientVars>>
  BY DEF FetchResult, Proceed
<1>3. UNCHANGED <<state, time, result, pc, crashed, copy, called, asking, answer, builder>>
  BY <1>2 DEF agentVars, copyVars, clientVars
<1>4. result[at] \in {"none", "error"}
  <2>1. Failed(at) /\ AgentInv(at) /\ Types
    BY <1>1, Zenon DEF IInv, CopyOf
  <2> QED BY <1>1, <2>1, Zenon DEF AgentInv, Failed, Types
<1>5. elem' = [elem EXCEPT !.messages = IF Exists(at) /\ result[at] = "error" THEN "error" ELSE "missing"]
  BY <1>4 DEF FetchResult, TaskResultInfo
<1>6. /\ elem' \in Copy /\ elem'.state = elem.state /\ elem'.ended = elem.ended
      /\ elem'.messages = IF Exists(at) /\ result[at] = "error" THEN "error" ELSE "missing"
  BY ONLY <1>1, <1>5 DEF Copy
<1>7. copy[at].messages = "error" => result[at] = "error"
  <2>1. CopyInv(at)
    BY <1>1, Zenon DEF IInv
  <2> QED BY ONLY <2>1 DEF CopyInv, CopyOf, HasCopy, NoCopy
<1>8. CopyOf(elem, at)'
  BY ONLY <1>1, <1>2, <1>3, <1>6, Zenon DEF CopyOf, Failed
<1>9. FetchInv'
  BY ONLY <1>1, <1>2, <1>3, <1>6, <1>7, <1>8, Zenon DEF FetchInv, HasCopy, Exists
<1>10. ASSUME NEW t \in Tasks PROVE SeenInv(t)'
  <2>1. SeenInv(t)
    BY DEF IInv
  <2>2. EndSeen(t)' => EndSeen(t)
    BY <1>3 DEF EndSeen
  <2> QED BY ONLY <1>1, <1>2, <1>3, <1>6, <2>1, <2>2, Zenon DEF SeenInv, HasCopy, Fetching
<1>11. ASSUME NEW t \in Tasks PROVE CallInv(t)'
  <2>1. CallInv(t)
    BY DEF IInv
  <2> QED BY ONLY <1>1, <1>2, <1>3, <1>6, <2>1, Zenon DEF CallInv, HasCopy, Fetching, Exists, Failed
<1> QED BY <1>2, <1>9, <1>10, <1>11, CopiesStay DEF IInv

(***************************************************************************)
(* The copy is stored.  What is stored is of the agent's task, and where   *)
(* the copy had ended only the messages of a failed task may change.       *)
(***************************************************************************)
LEMMA StoreCalls ==
    ASSUME IInv, Store, NEW t \in Tasks, t = at
    PROVE CallInv(t)'
<1>1. /\ elem \in Copy /\ CopyOf(elem, t) /\ step = "store" /\ at = t
      /\ copy[t].ended => elem.ended /\ elem.state = copy[t].state
      /\ HasCopy(t) => elem.messages = copy[t].messages \/ elem.state = "Exception"
      /\ elem.state = "Exception" => elem.messages # "none"
      /\ elem.messages = "missing" => ~Exists(t) \/ copy[t].messages # "error"
  BY DEF IInv, Store, FetchInv
<1>2. /\ copy' = [copy EXCEPT ![t] = elem]
      /\ called' = IF Notifies(t) THEN [called EXCEPT ![t] = @ + 1] ELSE called
      /\ UNCHANGED <<state, result, pc>>
      /\ step' \notin {"read", "result", "store"}
  BY DEF Store, agentVars, Leave, Proceed
<1>3. copy \in [Tasks -> Copy \cup {NoCopy}] /\ called \in [Tasks -> Nat]
  BY Zenon DEF IInv, Types
<1>4. CopyInv(t) /\ SeenInv(t) /\ CallInv(t)
  BY <1>1, Zenon DEF IInv
<1>5. copy'[t] = elem /\ ~Fetching(t)' /\ step' # "store"
  BY <1>1, <1>2, <1>3, Zenon DEF Fetching
<1>6. UNCHANGED <<Exists(t), Failed(t), result[t]>> /\ elem.messages \in {"none", "error", "missing"}
  BY <1>1, <1>2, Zenon DEF Exists, Failed, Copy
<1>7. called[t] # 3
  BY <1>1, <1>4, Zenon DEF CallInv, Fetching
<1>8. CASE Notifies(t)
  <2>1. called'[t] = called[t] + 1 /\ called[t] \in Nat
    BY <1>1, <1>2, <1>3, <1>8, Zenon
  <2>2. HasCopy(t) /\ Data(copy[t]) # Data(elem) /\ elem.ended
    BY <1>8 DEF Notifies
  <2>3. CASE called[t] = 0
    BY <1>5, <2>1, <2>3 DEF CallInv
  <2>4. CASE called[t] > 0
    <3>1. copy[t].ended /\ elem.state = copy[t].state
      BY <1>1, <1>4, <2>2, <2>4, Zenon DEF SeenInv, EndSeen
    <3>2. copy[t].ended = TRUE /\ elem.ended = TRUE
      <4>1. copy[t] \in Copy
        BY <1>1, <1>3, <2>2, Zenon DEF HasCopy
      <4> QED BY ONLY <1>1, <2>2, <3>1, <4>1, Zenon DEF Copy
    <3>3. elem.messages # copy[t].messages
      BY ONLY <2>2, <3>1, <3>2, Zenon DEF Data
    <3>4. /\ elem.state = "Exception" /\ Failed(t) /\ elem.messages \in {"error", "missing"}
          /\ copy[t].messages # "none"
      BY <1>1, <1>4, <1>6, <2>2, <3>1, <3>3, Zenon DEF CopyOf, CopyInv
    <3>5. elem.messages = "error" => result[t] = "error"
      BY <1>1, Zenon DEF CopyOf
    <3>6. elem.messages = "missing" => ~Exists(t)
      <4>1. copy[t].messages \in {"none", "error", "missing"}
        <5>1. copy[t] \in Copy
          BY <1>1, <1>3, <2>2 DEF HasCopy
        <5> QED BY <5>1 DEF Copy
      <4> QED BY <1>1, <3>3, <3>4, <4>1, Zenon
    <3>7. called[t] = 1 \/ (called[t] = 2 /\ elem.messages = "missing")
      <4>1. called[t] = 2 => copy[t].messages = "error"
        BY <1>1, <1>4, <2>2, Zenon DEF CallInv, Fetching
      <4>2. called[t] <= 3
        BY <1>4, Zenon DEF CallInv
      <4>3. called[t] = 1 \/ called[t] = 2
        BY ONLY <1>7, <2>1, <2>4, <4>2
      <4> QED BY ONLY <3>3, <3>4, <4>1, <4>3, Zenon
    <3> QED BY ONLY <1>5, <1>6, <2>1, <3>4, <3>5, <3>6, <3>7 DEF CallInv
  <2> QED BY <2>1, <2>3, <2>4
<1>9. CASE ~Notifies(t)
  <2>1. called'[t] = called[t]
    BY <1>2, <1>9
  <2>2. CASE called[t] = 2
    <3>1. elem.messages = "missing" => ~Exists(t)
      BY <1>1, <1>4, <2>2, Zenon DEF CallInv
    <3>2. called[t] > 1 /\ called[t] > 0
      BY <2>2
    <3>3. EndSeen(t) /\ Fetching(t)
      BY <1>1, <3>2, Zenon DEF EndSeen, Fetching
    <3>4. Failed(t)
      BY <1>4, <3>2, Zenon DEF CallInv
    <3>5. elem.messages # "none"
      BY <1>1, <1>4, <2>2, <3>3, Zenon DEF CallInv
    <3> QED BY ONLY <1>4, <1>5, <1>6, <2>1, <2>2, <3>1, <3>5, Zenon DEF CallInv
  <2> QED BY ONLY <1>4, <1>5, <1>6, <1>7, <2>1, <2>2, Zenon DEF CallInv
<1> QED BY <1>8, <1>9

LEMMA StoreKeeps ==
    ASSUME IInv, Types', Store
    PROVE IInv'
<1>1. /\ at \in Tasks /\ elem \in Copy /\ CopyOf(elem, at) /\ step = "store"
      /\ copy[at].ended => elem.ended /\ elem.state = copy[at].state
      /\ elem.state = "Exception" => elem.messages # "none"
  BY DEF IInv, Store, FetchInv
<1>2. /\ copy' = [copy EXCEPT ![at] = elem]
      /\ called' = IF Notifies(at) THEN [called EXCEPT ![at] = @ + 1] ELSE called
      /\ step' \in {"none", "next"} \/ (step' = "notifier" /\ at' = at)
      /\ UNCHANGED <<agentVars, pending, builder, clientVars>>
  BY DEF Store, Leave, Proceed
<1>3. UNCHANGED <<state, time, result, pc, crashed, asking, answer, builder, deleting>>
  BY <1>2 DEF agentVars, clientVars
<1>4. copy \in [Tasks -> Copy \cup {NoCopy}] /\ called \in [Tasks -> Nat]
  BY Zenon DEF IInv, Types
<1>5. \A t \in Tasks \ {at} : copy'[t] = copy[t] /\ called'[t] = called[t]
  BY <1>1, <1>2, <1>4, Zenon
<1>6. copy'[at] = elem
  BY <1>1, <1>2, <1>4, Zenon
<1>7. FetchInv'
  BY <1>1, <1>2, Zenon DEF FetchInv
<1>8. ASSUME NEW t \in Tasks PROVE ~Fetching(t)'
  BY <1>2 DEF Fetching
<1>9. ASSUME NEW t \in Tasks PROVE CopyInv(t)'
  <2>1. CopyInv(t)
    BY DEF IInv
  <2>2. CASE t = at
    <3>1. CopyOf(copy[t], t)'
      BY ONLY <1>1, <1>3, <1>6, <2>2, Zenon DEF CopyOf, Failed
    <3> QED BY ONLY <1>1, <1>3, <1>6, <2>1, <2>2, <3>1, Zenon DEF CopyInv
  <2>3. CASE t # at
    <3>1. copy'[t] = copy[t]
      BY <1>5, <2>3
    <3> QED BY ONLY <1>3, <2>1, <3>1, Zenon DEF CopyInv, CopyOf, HasCopy, Failed
  <2> QED BY <2>2, <2>3
<1>10. ASSUME NEW t \in Tasks PROVE SeenInv(t)'
  <2>1. SeenInv(t)
    BY DEF IInv
  <2>2. EndSeen(t)' => EndSeen(t) \/ (t = at /\ elem.ended)
    BY <1>2, <1>3, <1>5, Zenon DEF EndSeen, Notifies
  <2>3. t = at => Fetching(t)
    BY <1>1 DEF Fetching
  <2>4. t = at /\ elem.ended => time[t] = "ended"
    BY <1>1, Zenon DEF CopyOf
  <2> QED BY ONLY <1>3, <1>5, <1>6, <1>8, <2>1, <2>2, <2>3, <2>4, t \in Tasks, Zenon DEF SeenInv, HasCopy
<1>11. ASSUME NEW t \in Tasks PROVE CallInv(t)'
  <2>1. CallInv(t)
    BY DEF IInv
  <2>2. CASE t # at
    <3>1. copy'[t] = copy[t] /\ called'[t] = called[t] /\ ~Fetching(t)'
      BY <1>5, <1>8, <2>2, Zenon
    <3>2. step' # "store"
      BY <1>2
    <3> QED BY ONLY <1>3, <2>1, <3>1, <3>2, Zenon DEF CallInv, HasCopy, Exists, Failed
  <2> QED BY <2>2, StoreCalls
<1> QED BY <1>2, <1>7, <1>9, <1>10, <1>11, AgentKept, Zenon DEF IInv

-----------------------------------------------------------------------------
(***************************************************************************)
(* All other steps are quiet for the REST server's side.                   *)
(***************************************************************************)
LEMMA QuietKeeps ==
    ASSUME IInv, Types', QueueInv', \A t \in Tasks : AgentInv(t)', Quiet, builder \subseteq builder',
           \A t \in Tasks : deleting'[t] # "no" => deleting[t] # "no" \/ time[t] = "ended",
           \A t \in Tasks : EndSeen(t)' => EndSeen(t),
           \A t \in Tasks : answer'[t] \in {"result", "failure"} => answer'[t] = answer[t]
    PROVE IInv'
<1>1. FetchInv'
  BY QuietFetch, Zenon DEF IInv
<1>2. \A t \in Tasks : CopyInv(t)'
  BY QuietCopies, Zenon DEF IInv
<1>3. \A t \in Tasks : CallInv(t)'
  BY QuietCalls, Zenon DEF IInv
<1>4. \A t \in Tasks : SeenInv(t)'
  BY QuietSeen, Zenon DEF IInv
<1> QED BY <1>1, <1>2, <1>3, <1>4, Zenon DEF IInv

LEMMA ExecuteKeeps ==
    ASSUME IInv, NEW t \in Tasks, Execute(t)
    PROVE IInv'
<1>1. Types'
  BY ExecuteTypes, Zenon DEF IInv
<1>2. QueueInv'
  BY StartTakes, CallbackStays DEF IInv
<1>3. ASSUME NEW u \in Tasks PROVE AgentInv(u)' /\ Grows(u)
  <2>1. Types /\ AgentInv(u) /\ QueueInv
    BY DEF IInv
  <2>2. CASE u = t
    BY <1>1, <2>1, <2>2, CallbacksKeep
  <2>3. CASE u # t
    BY <1>1, <2>1, <2>3, OthersKept, KeptGrows, Zenon
  <2> QED BY <2>2, <2>3
<1>4. UNCHANGED <<copyVars, builder, txVars, clientVars>>
  BY Zenon DEF Execute, Start, Prerun, Run, CompletedState, ExceptionState, SendEvent, PromisedResponse,
         PromisedError, ExceptionHandler
<1>5. UNCHANGED <<copy, called, builder, step, at, elem, deleting, asking, answer>>
  BY <1>4 DEF copyVars, txVars, clientVars
<1>6. Quiet
  BY <1>3, <1>5 DEF Quiet, CopyKept, FetchKept, HasCopy
<1>7. \A u \in Tasks : EndSeen(u)' => EndSeen(u)
  BY <1>5, Zenon DEF EndSeen
<1> QED BY <1>1, <1>2, <1>3, <1>5, <1>6, <1>7, QuietKeeps, Zenon

LEMMA PostKeeps ==
    ASSUME IInv, NEW t \in Tasks, Post(t)
    PROVE IInv'
<1>1. Types'
  BY PostTypes, Zenon DEF IInv
<1>2. QueueInv'
  BY PostQueues DEF IInv
<1>3. /\ pc[t] = "new" /\ pc' = [pc EXCEPT ![t] = "queued"] /\ state' = [state EXCEPT ![t] = "Pending"]
      /\ UNCHANGED <<time, result, crashed, pending, copy, called, builder, deleting, asking, answer>>
      /\ step' = "info" /\ at' = t
  BY TasksAssumption, Zenon DEF Post, Enter, Goto, copyVars, clientVars
<1>4. ASSUME NEW u \in Tasks PROVE AgentInv(u)' /\ Grows(u)
  <2>1. Types /\ AgentInv(u)
    BY DEF IInv
  <2>2. CASE u = t
    BY <1>3, <2>1, <2>2, Zenon DEF Types, AgentInv, Grows, Failed, Exists
  <2>3. CASE u # t
    <3>1. TaskKept(u)
      BY <1>3, <2>1, <2>3 DEF TaskKept, Types
    <3> QED BY <1>1, <2>1, <3>1, KeptGrows
  <2> QED BY <2>2, <2>3
<1>5. Quiet
  BY <1>3, <1>4 DEF Quiet, CopyKept, FetchKept, HasCopy
<1>6. \A u \in Tasks : EndSeen(u)' => EndSeen(u)
  BY <1>3, Zenon DEF EndSeen
<1> QED BY <1>1, <1>2, <1>3, <1>4, <1>5, <1>6, QuietKeeps, Zenon

(***************************************************************************)
(* Transactions that begin, fail, or end; and polls that drop copies.      *)
(***************************************************************************)
LEMMA TransactionKeeps ==
    ASSUME IInv, Types', UNCHANGED <<agentVars, called, clientVars>>, builder \subseteq builder',
           \A t \in Tasks : AgentInv(t)' /\ Grows(t) /\ CopyKept(t), FetchKept
    PROVE IInv'
<1>1. UNCHANGED <<pc, queue, deleting, asking, answer, called>>
  BY DEF agentVars, clientVars
<1>2. QueueInv'
  BY <1>1, Zenon DEF IInv, QueueInv, Waiting, Executing
<1>3. \A t \in Tasks : EndSeen(t)' => EndSeen(t)
  BY <1>1, Zenon DEF EndSeen
<1> QED BY <1>1, <1>2, <1>3, QuietKeeps, Zenon DEF Quiet

LEMMA SameCopies ==
    ASSUME UNCHANGED copy, NEW t \in Tasks
    PROVE CopyKept(t)
BY DEF CopyKept, HasCopy

LEMMA CopiesKept ==
    ASSUME IInv, Next, ~Store, NEW t \in Tasks
    PROVE CopyKept(t)
<1>1. copy \in [Tasks -> Copy \cup {NoCopy}]
  BY Zenon DEF IInv, Types
<1>2. CASE UNCHANGED copy
  BY <1>2, SameCopies
<1>3. CASE RemoveUntouched
  BY <1>3 DEF RemoveUntouched, CopyKept, HasCopy
<1>4. CASE AddNotifier
  <2>1. at \in Tasks
    BY <1>4 DEF IInv, FetchInv, AddNotifier
  <2>2. CASE t = at /\ HasCopy(at)
    <3>1. copy'[t] = [copy[t] EXCEPT !.notifier = TRUE] /\ copy[t] \in Copy
      BY <1>1, <1>4, <2>1, <2>2 DEF AddNotifier, HasCopy
    <3>2. Data(copy'[t]) = Data(copy[t])
      BY ONLY <3>1 DEF Data, Copy
    <3> QED BY <2>2, <3>2, Zenon DEF CopyKept
  <2>3. CASE t # at \/ ~HasCopy(at)
    BY <1>1, <1>4, <2>1, <2>3 DEF AddNotifier, CopyKept, HasCopy
  <2> QED BY <2>2, <2>3
<1>5. CASE \E u \in Tasks : DeleteCopy(u)
  BY <1>1, <1>5 DEF DeleteCopy, CopyKept, HasCopy
<1>6. UNCHANGED copy \/ RemoveUntouched \/ AddNotifier \/ \E u \in Tasks : DeleteCopy(u)
  BY Zenon DEF Next, Execute, Start, Prerun, Run, CompletedState, ExceptionState, SendEvent, PromisedResponse,
         PromisedError, ExceptionHandler, Post, HandleUpdate, Delete, DeleteAtAgent, AskMonitor,
         AnswerMonitor, StartPoll, Transaction, FetchInfo, ReadCopy, FetchResult, Unreachable,
         PollNext, copyVars
<1> QED BY <1>2, <1>3, <1>4, <1>5, <1>6

LEMMA HandleUpdateKeeps ==
    ASSUME IInv, NEW t \in Tasks, HandleUpdate(t)
    PROVE IInv'
<1>1. Types'
  BY TransactionTypes DEF IInv
<1>2. /\ UNCHANGED <<agentVars, copy, called, builder, clientVars>>
      /\ pending' = [pending EXCEPT ![t] = @ - 1] /\ pending[t] > 0
  BY Zenon DEF HandleUpdate, copyVars
<1>3. FetchKept
  BY TasksAssumption, Zenon DEF HandleUpdate, Enter, FetchKept, txVars
<1>4. ASSUME NEW u \in Tasks PROVE AgentInv(u)' /\ Grows(u)
  <2>1. TaskKept(u)
    BY <1>2 DEF IInv, Types, TaskKept, agentVars
  <2> QED BY <1>1, <2>1, KeptGrows DEF IInv
<1> QED BY <1>1, <1>2, <1>3, <1>4, SameCopies, TransactionKeeps

LEMMA PollKeeps ==
    ASSUME IInv, StartPoll \/ \E t \in Tasks : PollNext(t)
    PROVE IInv'
<1>1. Types'
  BY TransactionTypes DEF IInv, Transaction
<1>2. UNCHANGED <<agentVars, pending, copy, called, builder, clientVars>>
  BY Zenon DEF StartPoll, PollNext, copyVars
<1>3. FetchKept
  BY Zenon DEF StartPoll, PollNext, Enter, FetchKept
<1> QED BY <1>1, <1>2, <1>3, AgentKept, SameCopies, TransactionKeeps, Zenon

LEMMA EndKeeps ==
    ASSUME IInv, Unreachable \/ RemoveUntouched \/ AddNotifier \/ (FetchInfo /\ ~Exists(at))
    PROVE IInv'
<1>1. Types'
  BY TransactionTypes DEF IInv, Transaction
<1>2. UNCHANGED <<agentVars, pending, called, clientVars>> /\ builder \subseteq builder'
  BY DEF Unreachable, RemoveUntouched, AddNotifier, FetchInfo, copyVars
<1>3. FetchKept
  BY DEF Unreachable, RemoveUntouched, AddNotifier, FetchInfo, FetchFails, Leave, Proceed, FetchKept
<1>4. ASSUME NEW t \in Tasks PROVE CopyKept(t)
  <2>1. ~Store
    BY DEF Unreachable, Calls, RemoveUntouched, AddNotifier, FetchInfo, Store
  <2> QED BY <2>1, CopiesKept, Zenon DEF Next, Transaction
<1> QED BY <1>1, <1>2, <1>3, <1>4, AgentKept, TransactionKeeps, Zenon

-----------------------------------------------------------------------------
(***************************************************************************)
(* Clients.  Only what the copy says has ended is deleted or asked for.    *)
(***************************************************************************)
LEMMA DeletesKeep ==
    ASSUME IInv, NEW t \in Tasks, Delete(t) \/ DeleteAtAgent(t) \/ DeleteCopy(t)
    PROVE IInv'
<1>1. Types'
  BY ClientTypes DEF IInv
<1>2. /\ UNCHANGED <<time, result, pc, queue, crashed, pending, called, builder, step, at, elem, asking, answer>>
      /\ \A u \in Tasks \ {t} : state'[u] = state[u] /\ deleting'[u] = deleting[u]
      /\ deleting'[t] # "no" => deleting[t] # "no" \/ MayDelete(t)
      /\ UNCHANGED state \/ (deleting[t] # "no" /\ state' = [state EXCEPT ![t] = "none"])
  <2>1. deleting \in [Tasks -> {"no", "agent", "copy"}]
    BY Zenon DEF IInv, Types
  <2>2. CASE Delete(t)
    BY ONLY <2>1, <2>2, Zenon DEF Delete, agentVars, copyVars, txVars
  <2>3. CASE DeleteAtAgent(t)
    <3>1. state \in [Tasks -> TaskState \cup {"none"}]
      BY Zenon DEF IInv, Types
    <3> QED BY ONLY <2>1, <2>3, <3>1, Zenon DEF DeleteAtAgent, copyVars, txVars
  <2>4. CASE DeleteCopy(t)
    BY ONLY <2>1, <2>4, Zenon DEF DeleteCopy, agentVars, txVars
  <2> QED BY <2>2, <2>3, <2>4, Zenon
<1>3. MayDelete(t) => time[t] = "ended"
  <2>1. CopyInv(t)
    BY Zenon DEF IInv
  <2> QED BY ONLY <2>1 DEF MayDelete, CopyInv, CopyOf, HasCopy, NoCopy, Final
<1>4. deleting[t] # "no" => time[t] = "ended"
  BY Zenon DEF IInv, CopyInv
<1>5. ASSUME NEW u \in Tasks PROVE AgentInv(u)' /\ Grows(u)
  <2>1. Types /\ AgentInv(u)
    BY DEF IInv
  <2>2. CASE state'[u] = state[u]
    <3>1. TaskKept(u)
      BY <1>2, <2>1, <2>2 DEF TaskKept, Types
    <3> QED BY <1>1, <2>1, <3>1, KeptGrows
  <2>3. CASE state'[u] # state[u]
    <3>1. u = t /\ time[u] = "ended" /\ state'[u] = "none"
      BY <1>2, <1>4, <2>1, <2>3, Zenon DEF Types
    <3> QED BY <1>2, <2>1, <3>1, Zenon DEF AgentInv, Grows, Failed, Exists
  <2> QED BY <2>2, <2>3, Zenon
<1>6. QueueInv'
  BY <1>2, Zenon DEF IInv, QueueInv, Waiting, Executing
<1>7. ASSUME NEW u \in Tasks PROVE CopyKept(u)
  BY ZenonT(40) DEF Delete, DeleteAtAgent, DeleteCopy, copyVars, CopyKept, HasCopy, IInv, Types
<1>8. Quiet
  BY <1>2, <1>5, <1>7, Zenon DEF Quiet, FetchKept
<1>9. \A u \in Tasks : EndSeen(u)' => EndSeen(u)
  BY <1>2, Zenon DEF EndSeen
<1>10. \A u \in Tasks : deleting'[u] # "no" => deleting[u] # "no" \/ time[u] = "ended"
  BY <1>2, <1>3, Zenon
<1> QED BY <1>1, <1>2, <1>5, <1>6, <1>8, <1>9, <1>10, QuietKeeps, Zenon

LEMMA AskKeeps ==
    ASSUME IInv, NEW t \in Tasks, AskMonitor(t)
    PROVE IInv'
<1>1. Types'
  BY ClientTypes DEF IInv
<1>2. /\ UNCHANGED <<agentVars, pending, copy, called, builder, step, at, elem, deleting>>
      /\ HasCopy(t)
      /\ \/ copy[t].ended /\ asking' = asking \cup {t} /\ answer' = answer
         \/ asking' = asking /\ answer' = [answer EXCEPT ![t] = "accepted"]
  BY Zenon DEF AskMonitor, copyVars, txVars
<1>3. QueueInv' /\ \A u \in Tasks : AgentInv(u)' /\ Grows(u)
  BY <1>1, <1>2, AgentKept
<1>4. Quiet
  BY <1>2, <1>3, SameCopies DEF Quiet, FetchKept
<1>5. FetchInv' /\ \A u \in Tasks : CopyInv(u)' /\ CallInv(u)'
  BY <1>2, <1>4, QuietFetch, QuietCopies, QuietCalls, Zenon DEF IInv
<1>6. ASSUME NEW u \in Tasks PROVE SeenInv(u)'
  <2>1. Types /\ SeenInv(u) /\ answer \in [Tasks -> {"none", "accepted", "result", "failure", "missing",
                                                    "gone", "unreachable"}]
    BY Zenon DEF IInv, Types
  <2>2. answer'[u] \in {"result", "failure"} => answer'[u] = answer[u]
    BY <1>2, <2>1
  <2>3. CASE EndSeen(u)' => EndSeen(u)
    BY <1>2, <1>4, <2>1, <2>2, <2>3, QuietSeen, Zenon
  <2>4. CASE EndSeen(u)' /\ ~EndSeen(u)
    <3>1. u = t /\ copy[t].ended
      BY <1>2, <2>2, <2>4, Zenon DEF EndSeen
    <3>2. time[t] = "ended" /\ (Fetching(t) => elem.ended)
      BY <1>2, <3>1, Zenon DEF IInv, CopyInv, CopyOf, FetchInv, Fetching
    <3>3. UNCHANGED <<time, result, copy, builder, step, at, elem>>
      BY <1>2 DEF agentVars
    <3> QED BY ONLY <2>1, <2>2, <3>1, <3>2, <3>3, Zenon DEF SeenInv, Fetching, HasCopy
  <2> QED BY <2>3, <2>4
<1> QED BY <1>1, <1>3, <1>5, <1>6 DEF IInv

LEMMA AnswerKeeps ==
    ASSUME IInv, NEW t \in Tasks, AnswerMonitor(t)
    PROVE IInv'
<1>1. Types'
  BY ClientTypes DEF IInv
<1>2. /\ UNCHANGED <<agentVars, pending, copy, called, builder, step, at, elem, deleting>>
      /\ t \in asking /\ asking' = asking \ {t}
      /\ answer' = [answer EXCEPT ![t] = MonitorAnswer(t)]
  BY Zenon DEF AnswerMonitor, ResultsAfterRead, agentVars, copyVars, txVars
<1>3. QueueInv' /\ \A u \in Tasks : AgentInv(u)' /\ Grows(u)
  BY <1>1, <1>2, AgentKept, Zenon
<1>4. Quiet
  BY <1>2, <1>3, SameCopies DEF Quiet, FetchKept
<1>5. FetchInv' /\ \A u \in Tasks : CopyInv(u)' /\ CallInv(u)'
  BY <1>2, <1>4, QuietFetch, QuietCopies, QuietCalls, Zenon DEF IInv
<1>6. ASSUME NEW u \in Tasks PROVE SeenInv(u)'
  <2>1. Types /\ SeenInv(u) /\ answer \in [Tasks -> {"none", "accepted", "result", "failure", "missing",
                                                    "gone", "unreachable"}]
    BY DEF IInv, Types
  <2>2. CASE u # t
    BY <1>2, <1>4, <2>1, <2>2, QuietSeen, Zenon DEF EndSeen
  <2>3. CASE u = t
    <3>1. EndSeen(t)
      BY <1>2 DEF EndSeen
    <3>2. UNCHANGED <<time, result, copy, builder, step, at, elem>>
      BY <1>2, Zenon DEF agentVars
    <3>3. answer'[t] = MonitorAnswer(t)
      BY <1>2, <2>1, Zenon
    <3>4. /\ MonitorAnswer(t) = "result" => result[t] = "value" /\ t \in builder
          /\ MonitorAnswer(t) = "failure" => result[t] = "error"
      BY <2>1 DEF MonitorAnswer, TaskResultInfo, Types
    <3> QED BY ONLY <2>1, <2>3, <3>1, <3>2, <3>3, <3>4, Zenon DEF SeenInv, Fetching, HasCopy
  <2> QED BY <2>2, <2>3
<1> QED BY <1>1, <1>3, <1>5, <1>6 DEF IInv

-----------------------------------------------------------------------------
LEMMA Initially == Init => IInv
<1> SUFFICES ASSUME Init PROVE IInv
  OBVIOUS
<1>1. Types
  <2>1. /\ state \in [Tasks -> TaskState \cup {"none"}]
        /\ time \in [Tasks -> {"none", "started", "ended"}]
        /\ result \in [Tasks -> {"none", "value", "error"}]
        /\ pc \in [Tasks -> Callback \cup {"new", "queued", "done"}]
    BY Zenon DEF Init
  <2>2. /\ pending \in [Tasks -> Nat] /\ called \in [Tasks -> Nat]
        /\ copy \in [Tasks -> Copy \cup {NoCopy}]
    BY DEF Init
  <2>3. /\ deleting \in [Tasks -> {"no", "agent", "copy"}]
        /\ answer \in [Tasks -> {"none", "accepted", "result", "failure", "missing", "gone",
                                 "unreachable"}]
    BY DEF Init
  <2>4. queue \in Seq(Tasks)
    BY DEF Init
  <2> QED BY <2>1, <2>2, <2>3, <2>4, Zenon DEF Init, Types
<1>2. QueueInv
  <2>1. Waiting = {} /\ Executing = {}
    BY Zenon DEF Init, Waiting, Executing, Callback
  <2> QED BY <2>1, FS_EmptySet, ThreadsAssumption DEF Init, QueueInv
<1>3. FetchInv
  BY Zenon DEF Init, FetchInv
<1>4. ASSUME NEW t \in Tasks PROVE AgentInv(t) /\ CopyInv(t) /\ SeenInv(t) /\ CallInv(t)
  <2>1. AgentInv(t)
    BY DEF Init, AgentInv
  <2>2. CopyInv(t)
    BY Zenon DEF Init, CopyInv, HasCopy, NoCopy
  <2>3. SeenInv(t) /\ CallInv(t)
    BY DEF Init, SeenInv, EndSeen, CallInv
  <2> QED BY <2>1, <2>2, <2>3
<1> QED BY <1>1, <1>2, <1>3, <1>4 DEF IInv

LEMMA StepsKeep == IInv /\ [Next]_vars => IInv'
<1> SUFFICES ASSUME IInv, [Next]_vars PROVE IInv'
  OBVIOUS
<1>1. CASE UNCHANGED vars
  <2>1. Types'
    BY <1>1, Zenon DEF IInv, Types, vars, agentVars, copyVars, txVars, clientVars
  <2>2. /\ UNCHANGED <<agentVars, pending, called, clientVars>> /\ builder \subseteq builder'
        /\ UNCHANGED copy /\ FetchKept
    BY <1>1 DEF vars, copyVars, txVars, FetchKept
  <2> QED BY <2>1, <2>2, AgentKept, SameCopies, TransactionKeeps
<1>2. ASSUME NEW t \in Tasks, Execute(t) PROVE IInv'
  BY <1>2, ExecuteKeeps
<1>3. ASSUME NEW t \in Tasks, Post(t) PROVE IInv'
  BY <1>3, PostKeeps
<1>4. ASSUME NEW t \in Tasks, HandleUpdate(t) PROVE IInv'
  BY <1>4, HandleUpdateKeeps
<1>5. ASSUME NEW t \in Tasks, Delete(t) \/ DeleteAtAgent(t) \/ DeleteCopy(t) PROVE IInv'
  BY <1>5, DeletesKeep
<1>6. ASSUME NEW t \in Tasks, AskMonitor(t) \/ AnswerMonitor(t) PROVE IInv'
  BY <1>6, AskKeeps, AnswerKeeps
<1>7. CASE StartPoll
  BY <1>7, PollKeeps
<1>8. CASE Transaction
  <2>1. Types'
    BY <1>8, TransactionTypes DEF IInv
  <2>2. CASE FetchInfo
    BY <2>1, <2>2, FetchInfoKeeps, EndKeeps
  <2>3. CASE ReadCopy
    BY <2>1, <2>3, ReadCopyKeeps
  <2>4. CASE FetchResult
    BY <2>1, <2>4, FetchResultKeeps
  <2>5. CASE Store
    BY <2>1, <2>5, StoreKeeps
  <2>6. CASE Unreachable \/ AddNotifier \/ RemoveUntouched
    BY <2>6, EndKeeps
  <2>7. CASE \E t \in Tasks : PollNext(t)
    BY <2>7, PollKeeps
  <2> QED BY <1>8, <2>2, <2>3, <2>4, <2>5, <2>6, <2>7 DEF Transaction
<1> QED BY <1>1, <1>2, <1>3, <1>4, <1>5, <1>6, <1>7, <1>8, Zenon DEF Next

(***************************************************************************)
(* The invariant holds in every reachable state, for all interleavings of  *)
(* the pool's threads, the transactions with the agent and the clients.    *)
(***************************************************************************)
THEOREM Invariance == Spec => []IInv
BY Initially, StepsKeep, PTL DEF Spec

(***************************************************************************)
(* TypeOK: no more tasks wait than there are, no more threads are busy     *)
(* than the pool has, at most two Update notifications of a task are on    *)
(* their way, and its completion notifier is called three times at most.   *)
(***************************************************************************)
THEOREM TypesCorrect == Spec => []TypeOK
<1>1. IInv => TypeOK
  <2> SUFFICES ASSUME IInv PROVE TypeOK
    OBVIOUS
  <2>1. Types
    BY DEF IInv
  <2>2. Len(queue) <= Cardinality(Tasks) /\ Cardinality(Executing) <= Threads
    BY SetsFinite, Zenon DEF IInv, QueueInv
  <2>3. pending \in [Tasks -> 0..2]
    <3>1. \A t \in Tasks : pending[t] \in 0..2
      <4> SUFFICES ASSUME NEW t \in Tasks PROVE pending[t] \in 0..2
        OBVIOUS
      <4>1. pending[t] \in Nat
        BY <2>1, Zenon DEF Types
      <4>2. AgentInv(t)
        BY DEF IInv
      <4>3. pending[t] <= IF pc[t] = "done" THEN 2 ELSE 1
        BY <4>2, Zenon DEF AgentInv
      <4> QED BY ONLY <4>1, <4>3
    <3>2. pending \in [Tasks -> Nat]
      BY <2>1, Zenon DEF Types
    <3> QED BY ONLY <3>1, <3>2
  <2>4. called \in [Tasks -> 0..3]
    <3>1. \A t \in Tasks : called[t] \in 0..3
      BY DEF IInv, CallInv, Types
    <3>2. called \in [Tasks -> Nat]
      BY <2>1, Zenon DEF Types
    <3> QED BY ONLY <3>1, <3>2
  <2> QED BY <2>1, <2>2, <2>3, <2>4, Zenon DEF Types, TypeOK
<1> QED BY <1>1, Invariance, PTL

(***************************************************************************)
(* The result that TaskResultManager keeps is the one the task's state     *)
(* announces, whatever throws and whenever the task is deleted.            *)
(***************************************************************************)
THEOREM ResultsMatch == Spec => []ResultMatchesState
<1>1. IInv => ResultMatchesState
  <2> SUFFICES ASSUME IInv, NEW t \in Tasks
               PROVE /\ result[t] = "value" => state[t] \in {"Completed", "none"}
                     /\ result[t] = "error" => state[t] \in {"Exception", "none"}
                     /\ pc[t] \in {"postrun", "done"} => result[t] # "none" /\ time[t] = "ended"
    BY Zenon DEF ResultMatchesState
  <2> QED BY Zenon DEF IInv, AgentInv
<1> QED BY <1>1, Invariance, PTL

(***************************************************************************)
(* The completion notifier of a task that succeeds is called once at most, *)
(* in any order of fetches, deletes and crashes.                           *)
(***************************************************************************)
THEOREM NotifiersOnce == Spec => []NotifiedOnce
<1>1. IInv => NotifiedOnce
  BY Zenon DEF IInv, NotifiedOnce, CallInv, Failed, AgentInv
<1> QED BY <1>1, Invariance, PTL

(***************************************************************************)
(* When nothing but subtasks throws, no exception leaves Task::operator(). *)
(***************************************************************************)
THEOREM Survival ==
    ASSUME MayThrow \subseteq {"subtask"}
    PROVE Spec => []AgentSurvives
<1>1. Init => AgentSurvives
  BY DEF Init, AgentSurvives
<1>2. IInv /\ AgentSurvives /\ [Next]_vars => AgentSurvives'
  <2> SUFFICES ASSUME IInv, AgentSurvives, [Next]_vars PROVE AgentSurvives'
    OBVIOUS
  <2>1. CASE UNCHANGED crashed
    BY <2>1 DEF AgentSurvives
  <2>2. ASSUME NEW t \in Tasks, ExceptionState(t) PROVE AgentSurvives'
    <3>1. AgentInv(t) /\ pc[t] = "e_state"
      BY <2>2, Zenon DEF IInv, ExceptionState, Executes
    <3>2. state[t] = "Running" /\ time[t] = "started"
      BY <3>1, Zenon DEF AgentInv
    <3> QED BY <2>2, <3>2, Zenon DEF ExceptionState, StopThrows, Exists, AgentSurvives
  <2>3. ASSUME NEW t \in Tasks, PromisedError(t) PROVE AgentSurvives'
    BY <2>3, Zenon DEF PromisedError, AgentSurvives
  <2>4. CASE Next
    <3>1. \/ UNCHANGED crashed
          \/ \E t \in Tasks : ExceptionState(t) \/ PromisedError(t)
      BY <2>4, Zenon DEF Next, Execute, Start, Prerun, Run, CompletedState, SendEvent, PromisedResponse,
                 ExceptionHandler, Post, HandleUpdate, Delete, DeleteAtAgent, DeleteCopy, AskMonitor,
                 AnswerMonitor, StartPoll, Transaction, FetchInfo, ReadCopy, FetchResult, Unreachable,
                 Store, AddNotifier, RemoveUntouched, PollNext, agentVars
    <3> QED BY <2>1, <2>2, <2>3, <3>1
  <2> QED BY <2>1, <2>4 DEF vars, agentVars
<1> QED BY <1>1, <1>2, Invariance, PTL DEF Spec

(***************************************************************************)
(* The copy never runs ahead of a live agent: it says that a task has      *)
(* ended, and how, only after the agent's task did.                        *)
(***************************************************************************)
THEOREM CopiesFollow == Spec => [](crashed \/ CopyNotAhead)
<1>1. IInv => crashed \/ CopyNotAhead
  BY Zenon DEF IInv, CopyNotAhead, CopyInv, CopyOf, Final
<1> QED BY <1>1, Invariance, PTL

(***************************************************************************)
(* Of an agent of which only subtasks throw it never runs ahead.           *)
(***************************************************************************)
THEOREM CopiesNeverAhead ==
    ASSUME MayThrow \subseteq {"subtask"}
    PROVE Spec => []CopyNotAhead
<1>1. (crashed \/ CopyNotAhead) /\ AgentSurvives => CopyNotAhead
  BY DEF AgentSurvives
<1> QED BY <1>1, CopiesFollow, Survival, PTL

-----------------------------------------------------------------------------
LEMMA EndedStays ==
    ASSUME IInv, [Next]_vars, NEW t \in Tasks, HasCopy(t), copy[t].ended, HasCopy(t)'
    PROVE copy'[t].ended /\ copy'[t].state = copy[t].state
<1>1. CASE Store
  <2>1. /\ at \in Tasks /\ copy' = [copy EXCEPT ![at] = elem]
        /\ copy[at].ended => elem.ended /\ elem.state = copy[at].state
    BY <1>1 DEF IInv, FetchInv, Store
  <2> QED BY <2>1, Zenon DEF IInv, Types
<1>2. CASE Next /\ ~Store
  BY <1>2, CopiesKept, KeptData, Zenon DEF HasCopy
<1>3. CASE UNCHANGED vars
  BY <1>3 DEF vars, copyVars
<1> QED BY <1>1, <1>2, <1>3, Zenon

LEMMA AnswersStay ==
    ASSUME IInv, [Next]_vars, NEW t \in Tasks, answer[t] \in {"result", "failure"}
    PROVE \/ answer'[t] = answer[t]
          \/ answer'[t] = "missing" /\ ~Exists(t)
          \/ answer'[t] = "unreachable" /\ crashed
<1>1. /\ answer \in [Tasks -> {"none", "accepted", "result", "failure", "missing", "gone", "unreachable"}]
      /\ result[t] \in {"none", "value", "error"}
  BY Zenon DEF IInv, Types
<1>2. /\ EndSeen(t) /\ (HasCopy(t) => copy[t].ended)
      /\ answer[t] = "result" => result[t] = "value" /\ t \in builder
      /\ answer[t] = "failure" => result[t] = "error"
  BY Zenon DEF IInv, SeenInv, EndSeen
<1>3. ASSUME NEW u \in Tasks, AskMonitor(u) PROVE answer'[t] = answer[t]
  BY <1>1, <1>2, <1>3, Zenon DEF AskMonitor
<1>4. CASE AnswerMonitor(t)
  <2>1. answer'[t] = MonitorAnswer(t)
    BY <1>1, <1>4, Zenon DEF AnswerMonitor
  <2> QED BY <1>1, <1>2, <2>1 DEF MonitorAnswer, TaskResultInfo
<1>5. ASSUME NEW u \in Tasks \ {t}, AnswerMonitor(u) PROVE answer'[t] = answer[t]
  BY <1>1, <1>5, Zenon DEF AnswerMonitor
<1>6. UNCHANGED answer \/ \E u \in Tasks : AskMonitor(u) \/ AnswerMonitor(u)
  BY Zenon DEF Next, Execute, Start, Prerun, Run, CompletedState, ExceptionState, SendEvent, PromisedResponse,
         PromisedError, ExceptionHandler, Post, HandleUpdate, Delete, DeleteAtAgent, DeleteCopy,
         StartPoll, Transaction, FetchInfo, ReadCopy, FetchResult, Unreachable, Store, AddNotifier,
         RemoveUntouched, PollNext, clientVars, vars
<1> QED BY <1>3, <1>4, <1>5, <1>6, Zenon

(***************************************************************************)
(* What clients have learned of the end of a task is final: the copy stays *)
(* ended with the outcome it showed, and the monitor's outcome is got      *)
(* again until the task is deleted or the agent dies.                      *)
(***************************************************************************)
THEOREM EndsAreFinal == Spec => EndIsFinal
<1>1. IInv /\ [Next]_vars =>
        [\A t \in Tasks :
            /\ HasCopy(t) /\ copy[t].ended /\ HasCopy(t)' =>
                    copy'[t].ended /\ copy'[t].state = copy[t].state
            /\ answer[t] \in {"result", "failure"} =>
                    \/ answer'[t] = answer[t]
                    \/ answer'[t] = "missing" /\ ~Exists(t)
                    \/ answer'[t] = "unreachable" /\ crashed]_vars
  BY EndedStays, AnswersStay, Zenon
<1> QED BY <1>1, Invariance, PTL DEF Spec, EndIsFinal
-----------------------------------------------------------------------------
(***************************************************************************)
(* What a fetch stores has the notifier that the copy has: nobody but the  *)
(* one in the transaction writes copies, and a DELETE takes the copy away  *)
(* with its notifier.                                                      *)
(***************************************************************************)
NotifierRead ==
    step \in {"result", "store"} /\ HasCopy(at) => elem.notifier = copy[at].notifier

\* Only a fetch and the end of a request change a copy that stays (Task table).
LEMMA CopiesSame ==
    ASSUME IInv, Next, ~Store, ~AddNotifier, NEW t \in Tasks
    PROVE  copy'[t] = copy[t] \/ copy'[t] = NoCopy
<1>1. copy \in [Tasks -> Copy \cup {NoCopy}]
  BY Zenon DEF IInv, Types
<1>2. CASE RemoveUntouched
  BY <1>2, Zenon DEF RemoveUntouched
<1>3. CASE \E u \in Tasks : DeleteCopy(u)
  BY <1>1, <1>3, Zenon DEF DeleteCopy
<1>4. UNCHANGED copy \/ RemoveUntouched \/ \E u \in Tasks : DeleteCopy(u)
  BY Zenon DEF Next, Execute, Start, Prerun, Run, CompletedState, ExceptionState, SendEvent, PromisedResponse,
         PromisedError, ExceptionHandler, Post, HandleUpdate, Delete, DeleteAtAgent, AskMonitor,
         AnswerMonitor, StartPoll, Transaction, FetchInfo, ReadCopy, FetchResult, Unreachable,
         PollNext, copyVars
<1> QED BY <1>2, <1>3, <1>4, Zenon

\* What leads a fetch to its result and to the store (TaskHandler::fetch_entry).
LEMMA FetchGoesOn ==
    ASSUME Next, step' \in {"result", "store"}
    PROVE  ReadCopy \/ FetchResult \/ (UNCHANGED <<step, at, elem>> /\ ~Store /\ ~AddNotifier)
<1>1. ~Store /\ ~AddNotifier
  <2>1. ASSUME Store PROVE FALSE
    <3>1. step' \in {"none", "notifier", "next"}
      BY <2>1 DEF Store, Leave, Proceed
    <3> QED BY <3>1
  <2>2. ASSUME AddNotifier PROVE FALSE
    BY <2>2, Zenon DEF AddNotifier, Leave
  <2> QED BY <2>1, <2>2, Zenon
<1>2. CASE Transaction
  <2>1. ~FetchInfo /\ ~Unreachable /\ ~RemoveUntouched /\ ~(\E t \in Tasks : PollNext(t))
    BY Zenon DEF FetchInfo, FetchFails, Unreachable, RemoveUntouched, PollNext, Leave, Proceed
  <2> QED BY <1>1, <1>2, <2>1, Zenon DEF Transaction
<1>3. ~StartPoll
  BY Zenon DEF StartPoll, Enter
<1>4. ASSUME NEW t \in Tasks,
             \/ Execute(t) \/ Delete(t) \/ DeleteAtAgent(t) \/ DeleteCopy(t)
             \/ AskMonitor(t) \/ AnswerMonitor(t)
      PROVE  UNCHANGED <<step, at, elem>>
  BY <1>4, Zenon DEF Execute, Start, Prerun, Run, CompletedState, ExceptionState, SendEvent, PromisedResponse,
         PromisedError, ExceptionHandler, Delete, DeleteAtAgent, DeleteCopy, AskMonitor, AnswerMonitor, txVars
<1>5. ASSUME NEW t \in Tasks, Post(t) \/ HandleUpdate(t) PROVE UNCHANGED <<step, at, elem>>
  BY <1>5, Zenon DEF Post, HandleUpdate, Enter, txVars
<1> QED BY <1>1, <1>2, <1>3, <1>4, <1>5, Zenon DEF Next

\* No step comes between what a fetch read of the notifier and the copy.
LEMMA NotifierReadKept ==
    ASSUME IInv, NotifierRead, [Next]_vars
    PROVE  NotifierRead'
<1> SUFFICES ASSUME step' \in {"result", "store"}, HasCopy(at)' PROVE elem'.notifier = copy'[at'].notifier
  BY Zenon DEF NotifierRead
<1>1. elem \in Copy \cup {NoCopy} /\ copy \in [Tasks -> Copy \cup {NoCopy}]
  BY Zenon DEF IInv, Types
<1>2. CASE ReadCopy
  <2>1. elem' = Merged(at) /\ UNCHANGED <<at, copy>>
    BY <1>2, Zenon DEF ReadCopy, Proceed, copyVars
  <2> QED BY ONLY <1>1, <2>1 DEF Merged, Copy, NoCopy
<1>3. CASE FetchResult
  <2>1. UNCHANGED <<at, copy>> /\ step = "result"
    BY <1>3, Zenon DEF FetchResult, Proceed, copyVars
  <2>2. PICK m : elem' = [elem EXCEPT !.messages = m]
    BY <1>3, Zenon DEF FetchResult
  <2>3. elem'.notifier = elem.notifier
    BY ONLY <1>1, <2>2 DEF Copy, NoCopy
  <2> QED BY <2>1, <2>3, Zenon DEF NotifierRead, HasCopy
<1>4. CASE Next /\ UNCHANGED <<step, at, elem>> /\ ~Store /\ ~AddNotifier
  <2>1. at \in Tasks
    BY <1>4, Zenon DEF IInv, FetchInv
  <2>2. copy'[at] = copy[at]
    BY <1>4, <2>1, CopiesSame, Zenon DEF HasCopy
  <2> QED BY <1>4, <2>2, Zenon DEF NotifierRead, HasCopy
<1>5. CASE UNCHANGED vars
  BY <1>5, Zenon DEF vars, copyVars, txVars, NotifierRead, HasCopy
<1> QED BY <1>2, <1>3, <1>4, <1>5, FetchGoesOn, Zenon

\* A copy that stays keeps its notifier, and the store of the end calls it.
LEMMA NotifierKeptAndCalled ==
    ASSUME IInv, NotifierRead, [Next]_vars, NEW t \in Tasks, HasCopy(t), copy[t].notifier, HasCopy(t)'
    PROVE  /\ copy'[t].notifier
           /\ copy'[t].ended /\ ~copy[t].ended => called'[t] = called[t] + 1
<1>1. copy \in [Tasks -> Copy \cup {NoCopy}] /\ called \in [Tasks -> Nat]
  BY Zenon DEF IInv, Types
<1>2. CASE Store /\ at = t
  <2>1. copy'[t] = elem /\ elem.notifier
    BY <1>1, <1>2, Zenon DEF Store, NotifierRead
  <2>2. ASSUME elem.ended, ~copy[t].ended PROVE called'[t] = called[t] + 1
    <3>1. ASSUME Data(copy[t]) = Data(elem) PROVE FALSE
      <4>1. copy[t].ended = elem.ended
        BY ONLY <3>1 DEF Data
      <4> QED BY <2>2, <4>1, Zenon
    <3>2. called' = [called EXCEPT ![t] = called[t] + 1]
      BY <1>2, <2>1, <2>2, <3>1, Zenon DEF Store, Notifies
    <3> QED BY <1>1, <3>2, Zenon
  <2> QED BY <2>1, <2>2, Zenon
<1>3. CASE Store /\ at # t
  BY <1>1, <1>3, Zenon DEF Store
<1>4. CASE AddNotifier
  <2>1. at \in Tasks /\ UNCHANGED called
    BY <1>4 DEF IInv, FetchInv, AddNotifier
  <2>2. CASE t = at
    <3>1. copy'[t] = [copy[t] EXCEPT !.notifier = TRUE] /\ copy[t] \in Copy
      BY <1>1, <1>4, <2>2 DEF AddNotifier, HasCopy
    <3> QED BY ONLY <3>1 DEF Copy
  <2>3. CASE t # at
    BY <1>1, <1>4, <2>1, <2>3 DEF AddNotifier
  <2> QED BY <2>2, <2>3, Zenon
<1>5. CASE Next /\ ~Store /\ ~AddNotifier
  BY <1>5, CopiesSame, Zenon DEF HasCopy
<1>6. CASE UNCHANGED vars
  BY <1>6, Zenon DEF vars, copyVars
<1> QED BY <1>2, <1>3, <1>4, <1>5, <1>6, Zenon

(***************************************************************************)
(* No completion notifier is lost by a refresh, and the refresh that       *)
(* brings the end of the task calls it, for any tasks, requests and        *)
(* exceptions (TaskHandler::fetch_entry, add_or_update_entry).             *)
(***************************************************************************)
THEOREM EndsCallNotifiers == Spec => EndCallsNotifier
<1>1. Init => NotifierRead
  BY DEF Init, NotifierRead
<1>2. IInv /\ NotifierRead /\ [Next]_vars => NotifierRead'
  BY NotifierReadKept, Zenon
<1>3. IInv /\ NotifierRead /\ [Next]_vars =>
        [\A t \in Tasks : HasCopy(t) /\ copy[t].notifier /\ HasCopy(t)' =>
            /\ copy'[t].notifier
            /\ copy'[t].ended /\ ~copy[t].ended => called'[t] = called[t] + 1]_vars
  BY NotifierKeptAndCalled, Zenon
<1> QED BY <1>1, <1>2, <1>3, Invariance, PTL DEF Spec, EndCallsNotifier
=============================================================================
