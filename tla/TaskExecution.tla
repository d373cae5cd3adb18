--------------------------- MODULE TaskExecution ---------------------------
(***************************************************************************)
(* Long operations as tasks.  An agent command registers a Task resource   *)
(* and queues an action::Task on the thread pool of TaskRunner; the        *)
(* callbacks that TaskCreator installs move the resource from Pending to   *)
(* Completed or Exception and keep the result.  The REST server keeps a    *)
(* copy of the resource, which REST requests, Update notifications and     *)
(* polls refresh, calls the completion notifiers of the copy, answers the  *)
(* task monitor with the agent's result, and deletes finished tasks.       *)
(***************************************************************************)
EXTENDS Naturals, Sequences, FiniteSets

CONSTANTS
    Tasks,       \* tasks, each created by one REST request
    None,        \* no task
    Threads,     \* threads of the agent's pool
    MayThrow,    \* what may throw: the subtasks, the promised response or error
    Requests     \* what clients ask for after a task is started: delete, monitor

ASSUME TasksAssumption == None \notin Tasks /\ IsFiniteSet(Tasks)
ASSUME ThreadsAssumption == Threads \in Nat \ {0}
ASSUME ThrowAssumption == MayThrow \subseteq {"subtask", "response", "error"}
ASSUME RequestsAssumption == Requests \subseteq {"delete", "monitor"}

VARIABLES
    state,     \* agent: TaskState of the resource, "none" if there is no resource
    time,      \* agent: whether start_time and end_time are set
    result,    \* agent: TaskResultManager::m_results
    pc,        \* agent: the next callback of Task::operator()
    queue,     \* agent: Threadpool::m_tasks
    crashed,   \* agent: an exception left a pool thread
    pending,   \* Update notifications on their way to the watcher
    copy,      \* REST: the Task resources, or NoCopy
    builder,   \* REST: tasks with a response builder in MonitorContentBuilder
    called,    \* REST: calls of the completion notifier
    tx,        \* REST: who is in the agent's transaction
    step,      \* REST: its next step
    at,        \* REST: the task it fetches
    elem,      \* REST: what fetch_entry has got so far
    todo,      \* REST: listed tasks a poll has still to fetch
    touched,   \* REST: tasks stored by this poll
    deleting,  \* REST: where the DELETE of a task is
    deleted,   \* tasks removed by a DELETE
    asking,    \* REST: monitor requests that ask the agent for the result
    answer     \* the last answer of a task's monitor

agentVars == <<state, time, result, pc, queue, crashed>>
copyVars == <<copy, called>>
txVars == <<tx, step, at, elem, todo, touched>>
clientVars == <<deleting, deleted, asking, answer>>
vars == <<agentVars, pending, copyVars, builder, txVars, clientVars>>

-----------------------------------------------------------------------------
TaskState == {"Pending", "Running", "Completed", "Exception"}
Callback == {"prerun", "run", "c_state", "c_event", "c_result",
             "e_state", "e_event", "e_result", "handler", "postrun"}

(***************************************************************************)
(* What a copy holds: the state, whether end_time is set, the messages     *)
(* (none, those of the task's error, or those of an agent that does not    *)
(* have the result), and whether a completion notifier was added.          *)
(***************************************************************************)
Copy == [state: TaskState, ended: BOOLEAN, messages: {"none", "error", "missing"},
         notifier: BOOLEAN]
NoCopy == [state |-> "none", ended |-> FALSE, messages |-> "none", notifier |-> FALSE]

Exists(t) == state[t] # "none"
HasCopy(t) == copy[t] # NoCopy

(***************************************************************************)
(* The tasks that occupy a thread of the pool.                             *)
(***************************************************************************)
Executing == {t \in Tasks : pc[t] \in Callback}

TypeOK ==
    /\ state \in [Tasks -> TaskState \cup {"none"}]
    /\ time \in [Tasks -> {"none", "started", "ended"}]
    /\ result \in [Tasks -> {"none", "value", "error"}]
    /\ pc \in [Tasks -> Callback \cup {"new", "queued", "done"}]
    /\ queue \in Seq(Tasks) /\ Len(queue) <= Cardinality(Tasks)
    /\ Cardinality(Executing) <= Threads
    /\ crashed \in BOOLEAN
    /\ pending \in [Tasks -> 0..2]
    /\ copy \in [Tasks -> Copy \cup {NoCopy}]
    /\ builder \subseteq Tasks
    /\ called \in [Tasks -> 0..3]
    /\ tx \in {"free", "post", "update", "poll"}
    /\ step \in {"info", "read", "result", "store", "notifier", "next", "none"}
    /\ at \in Tasks \cup {None}
    /\ elem \in Copy \cup {NoCopy}
    /\ todo \subseteq Tasks /\ touched \subseteq Tasks
    /\ deleting \in [Tasks -> {"no", "agent", "copy"}]
    /\ deleted \subseteq Tasks
    /\ asking \subseteq Tasks
    /\ answer \in [Tasks -> {"none", "accepted", "result", "failure", "missing", "gone",
                             "unreachable"}]

Init ==
    /\ state = [t \in Tasks |-> "none"]
    /\ time = [t \in Tasks |-> "none"]
    /\ result = [t \in Tasks |-> "none"]
    /\ pc = [t \in Tasks |-> "new"]
    /\ queue = <<>> /\ crashed = FALSE
    /\ pending = [t \in Tasks |-> 0]
    /\ copy = [t \in Tasks |-> NoCopy]
    /\ builder = {} /\ called = [t \in Tasks |-> 0]
    /\ tx = "free" /\ step = "none" /\ at = None /\ elem = NoCopy
    /\ todo = {} /\ touched = {}
    /\ deleting = [t \in Tasks |-> "no"] /\ deleted = {}
    /\ asking = {} /\ answer = [t \in Tasks |-> "none"]

-----------------------------------------------------------------------------
(***************************************************************************)
(* The agent's pool.  Task::operator() runs the prerun actions, the        *)
(* subtasks and the completion callbacks; an exception of any of them      *)
(* starts the exception callbacks and handlers.  Nothing catches what      *)
(* those throw: std::terminate ends the agent.                             *)
(***************************************************************************)
Executes(t, at_) == ~crashed /\ pc[t] = at_

Goto(t, next) == pc' = [pc EXCEPT ![t] = next]

ThreadAlways == TRUE
ThreadIdle == Cardinality(Executing) < Threads

Popped(q) == Tail(q)

Start(t) ==
    /\ ~crashed /\ queue # <<>> /\ t = Head(queue) /\ ThreadIdle
    /\ queue' = Popped(queue) /\ Goto(t, "prerun")
    /\ UNCHANGED <<state, time, result, crashed, pending, copyVars, builder, txVars, clientVars>>

(***************************************************************************)
(* set_state(Running) and Task::start(), under the lock that the entry     *)
(* reference holds.  start() throws for a task that was started before.    *)
(***************************************************************************)
Prerun(t) ==
    /\ Executes(t, "prerun")
    /\ state' = IF Exists(t) THEN [state EXCEPT ![t] = "Running"] ELSE state
    /\ IF Exists(t) /\ time[t] = "none"
       THEN time' = [time EXCEPT ![t] = "started"] /\ Goto(t, "run")
       ELSE Goto(t, "e_state") /\ UNCHANGED time
    /\ UNCHANGED <<result, queue, crashed, pending, copyVars, builder, txVars, clientVars>>

(***************************************************************************)
(* The other prerun actions and the subtasks of the command.               *)
(***************************************************************************)
Run(t) ==
    /\ Executes(t, "run")
    /\ Goto(t, "c_state") \/ ("subtask" \in MayThrow /\ Goto(t, "e_state"))
    /\ UNCHANGED <<state, time, result, queue, crashed, pending, copyVars, builder, txVars,
                   clientVars>>

(***************************************************************************)
(* set_state(s) and Task::stop(), which throws unless the task is running. *)
(***************************************************************************)
StopThrows(t) == ~Exists(t) \/ time[t] # "started"

FinishStateOnly(t, s) ==
    /\ state' = IF Exists(t) THEN [state EXCEPT ![t] = s] ELSE state
    /\ UNCHANGED time
Finish(t, s) ==
    /\ state' = IF Exists(t) THEN [state EXCEPT ![t] = s] ELSE state
    /\ time' = IF StopThrows(t) THEN time ELSE [time EXCEPT ![t] = "ended"]

CompletedState(t) ==
    /\ Executes(t, "c_state")
    /\ Finish(t, "Completed")
    /\ Goto(t, IF StopThrows(t) THEN "e_state" ELSE "c_event")
    /\ UNCHANGED <<result, queue, crashed, pending, copyVars, builder, txVars, clientVars>>

ExceptionState(t) ==
    /\ Executes(t, "e_state")
    /\ Finish(t, "Exception")
    /\ crashed' = StopThrows(t)
    /\ Goto(t, "e_event")
    /\ UNCHANGED <<result, queue, pending, copyVars, builder, txVars, clientVars>>

(***************************************************************************)
(* send_task_update_event, a callback on both paths and a postrun action.  *)
(***************************************************************************)
SendEvent(t) ==
    /\ \/ Executes(t, "c_event") /\ Goto(t, "c_result")
       \/ Executes(t, "e_event") /\ Goto(t, "e_result")
       \/ Executes(t, "postrun") /\ Goto(t, "done")
    /\ pending' = [pending EXCEPT ![t] = @ + 1]
    /\ UNCHANGED <<state, time, result, queue, crashed, copyVars, builder, txVars, clientVars>>

(***************************************************************************)
(* m_results.insert keeps the first result of a task.                      *)
(***************************************************************************)
InsertedIfExists(t, r) ==
    IF Exists(t) /\ result[t] = "none" THEN [result EXCEPT ![t] = r] ELSE result
Inserted(t, r) == IF result[t] = "none" THEN [result EXCEPT ![t] = r] ELSE result

(***************************************************************************)
(* set_promised_response: compute the response, then keep it.              *)
(***************************************************************************)
PromisedResponse(t) ==
    /\ Executes(t, "c_result")
    /\ \/ result' = Inserted(t, "value") /\ Goto(t, "postrun")
       \/ "response" \in MayThrow /\ Goto(t, "e_state") /\ UNCHANGED result
    /\ UNCHANGED <<state, time, queue, crashed, pending, copyVars, builder, txVars, clientVars>>

(***************************************************************************)
(* set_promised_error_thrower, which not every command calls, and the      *)
(* command's own exception callbacks.                                      *)
(***************************************************************************)
PromisedError(t) ==
    /\ Executes(t, "e_result")
    /\ \/ result' \in {result, Inserted(t, "error")} /\ UNCHANGED crashed
       \/ "error" \in MayThrow /\ crashed' = TRUE /\ UNCHANGED result
    /\ Goto(t, "handler")
    /\ UNCHANGED <<state, time, queue, pending, copyVars, builder, txVars, clientVars>>

ExceptionHandler(t) ==
    /\ Executes(t, "handler")
    /\ result' = Inserted(t, "error") /\ Goto(t, "postrun")
    /\ UNCHANGED <<state, time, queue, crashed, pending, copyVars, builder, txVars, clientVars>>

Execute(t) ==
    \/ Start(t) \/ Prerun(t) \/ Run(t) \/ CompletedState(t) \/ ExceptionState(t)
    \/ SendEvent(t) \/ PromisedResponse(t) \/ PromisedError(t) \/ ExceptionHandler(t)
-----------------------------------------------------------------------------
(***************************************************************************)
(* Transactions of the REST server.  A thread that finds the transaction   *)
(* taken gives up.  The thread inside fetches one task at a time.          *)
(***************************************************************************)
Enter(who, t) ==
    /\ tx = "free" /\ tx' = who
    /\ at' = t /\ step' = IF t = None THEN "next" ELSE "info"
    /\ elem' = NoCopy

Leave ==
    /\ tx' = "free" /\ step' = "none" /\ at' = None /\ elem' = NoCopy
    /\ todo' = {} /\ touched' = {}

(***************************************************************************)
(* A request that starts a task, as ZonesCollection::post does: the agent  *)
(* registers the task, queues it and answers with its UUID.                *)
(***************************************************************************)
Post(t) ==
    /\ ~crashed /\ pc[t] = "new"
    /\ Enter("post", t)
    /\ state' = [state EXCEPT ![t] = "Pending"]
    /\ queue' = Append(queue, t) /\ Goto(t, "queued")
    /\ UNCHANGED <<time, result, crashed, pending, copyVars, builder, todo, touched, clientVars>>

(***************************************************************************)
(* process_notification, on the thread that also polls.  An Update of a    *)
(* task without a copy is ignored, and one that meets a request in the     *)
(* transaction is lost.                                                    *)
(***************************************************************************)
Ignored(t) == tx # "free" \/ ~HasCopy(t)

HandleUpdate(t) ==
    /\ pending[t] > 0 /\ tx \notin {"update", "poll"}
    /\ pending' = [pending EXCEPT ![t] = @ - 1]
    /\ IF Ignored(t) THEN UNCHANGED txVars
       ELSE Enter("update", t) /\ UNCHANGED <<todo, touched>>
    /\ UNCHANGED <<agentVars, copyVars, builder, clientVars>>

(***************************************************************************)
(* The part of a poll that fetches the tasks: GetTasksCollection, every    *)
(* listed task, then remove_untouched.                                     *)
(***************************************************************************)
StartPoll ==
    /\ ~crashed /\ Enter("poll", None)
    /\ todo' = {t \in Tasks : Exists(t)} /\ touched' = {}
    /\ UNCHANGED <<agentVars, pending, copyVars, builder, clientVars>>

PollNext(t) ==
    /\ tx = "poll" /\ step = "next" /\ t \in todo
    /\ todo' = todo \ {t} /\ at' = t /\ step' = "info" /\ elem' = NoCopy
    /\ UNCHANGED <<agentVars, pending, copyVars, builder, tx, touched, clientVars>>

KeepsEnded(t) == t \in touched \/ copy[t].ended
Keeps(t) == t \in touched

RemoveUntouched ==
    /\ tx = "poll" /\ step = "next" /\ todo = {}
    /\ copy' = [t \in Tasks |-> IF Keeps(t) THEN copy[t] ELSE NoCopy]
    /\ Leave
    /\ UNCHANGED <<agentVars, pending, called, builder, clientVars>>

-----------------------------------------------------------------------------
(***************************************************************************)
(* TaskHandler::fetch_entry.  GetTaskInfo, then the messages and notifiers *)
(* of the copy, then GetTaskResultInfo for a task in state Exception.      *)
(***************************************************************************)
Proceed(next) == step' = next /\ UNCHANGED <<tx, at, todo, touched>>

(***************************************************************************)
(* A fetch that fails ends a request or an update; a poll goes on.         *)
(***************************************************************************)
FetchFails ==
    IF tx = "poll" THEN Proceed("next") /\ elem' = NoCopy ELSE Leave

TaskInfoStarted(t) == [NoCopy EXCEPT !.state = state[t], !.ended = (time[t] # "none")]
TaskInfo(t) == [NoCopy EXCEPT !.state = state[t], !.ended = (time[t] = "ended")]

FetchInfo ==
    /\ step = "info" /\ ~crashed
    /\ IF Exists(at)
       THEN elem' = TaskInfo(at) /\ Proceed("read")
       ELSE FetchFails
    /\ UNCHANGED <<agentVars, pending, copyVars, builder, clientVars>>

MergedMessagesOnly(t) == [elem EXCEPT !.messages = copy[t].messages]
Merged(t) == [elem EXCEPT !.messages = copy[t].messages, !.notifier = copy[t].notifier]

ReadCopy ==
    /\ step = "read"
    /\ elem' = Merged(at)
    /\ Proceed(IF elem.state = "Exception" THEN "result" ELSE "store")
    /\ UNCHANGED <<agentVars, pending, copyVars, builder, clientVars>>

(***************************************************************************)
(* get_task_result_info of the agent: what it answers.                     *)
(***************************************************************************)
TaskResultInfo(t) == IF Exists(t) THEN result[t] ELSE "none"

FetchResult ==
    /\ step = "result" /\ ~crashed
    /\ elem' = [elem EXCEPT !.messages = CASE TaskResultInfo(at) = "none" -> "missing"
                                           [] TaskResultInfo(at) = "error" -> "error"
                                           [] TaskResultInfo(at) = "value" -> @]
    /\ Proceed("store")
    /\ UNCHANGED <<agentVars, pending, copyVars, builder, clientVars>>

(***************************************************************************)
(* AgentUnreachable ends whatever is in the transaction.                   *)
(***************************************************************************)
CallsForInfo == step = "info"
Calls == step \in {"info", "result"}

Unreachable ==
    /\ crashed /\ Calls
    /\ Leave
    /\ UNCHANGED <<agentVars, pending, copyVars, builder, clientVars>>

(***************************************************************************)
(* add_or_update_entry of the Task table.  It calls the completion         *)
(* notifiers when a copy whose data changed has an end time; a new copy    *)
(* has none to call.  A notifier reloads what the task has changed, which  *)
(* ends the transaction if the agent is gone; its other exceptions are     *)
(* swallowed.                                                              *)
(***************************************************************************)
Data(c) == <<c.state, c.ended, c.messages>>

NotifiesAlways(t) == HasCopy(t) /\ elem.ended /\ elem.notifier
Notifies(t) == HasCopy(t) /\ Data(copy[t]) # Data(elem) /\ elem.ended /\ elem.notifier

Store ==
    /\ step = "store"
    /\ copy' = [copy EXCEPT ![at] = elem]
    /\ called' = IF Notifies(at) THEN [called EXCEPT ![at] = @ + 1] ELSE called
    /\ CASE tx = "update" \/ (Notifies(at) /\ crashed) -> Leave
         [] tx = "post" -> Proceed("notifier") /\ UNCHANGED elem
         [] OTHER       -> /\ step' = "next" /\ elem' = NoCopy /\ touched' = touched \cup {at}
                           /\ UNCHANGED <<tx, at, todo>>
    /\ UNCHANGED <<agentVars, pending, builder, clientVars>>

(***************************************************************************)
(* The end of the request: add_builder, then add_completion_notifier to    *)
(* the copy, which throws if a DELETE has removed it.                      *)
(***************************************************************************)
AddNotifier ==
    /\ step = "notifier"
    /\ builder' = builder \cup {at}
    /\ copy' = IF HasCopy(at) THEN [copy EXCEPT ![at].notifier = TRUE] ELSE copy
    /\ Leave
    /\ UNCHANGED <<agentVars, pending, called, clientVars>>

Transaction ==
    \/ FetchInfo \/ ReadCopy \/ FetchResult \/ Unreachable \/ Store \/ AddNotifier
    \/ RemoveUntouched \/ \E t \in Tasks : PollNext(t)
-----------------------------------------------------------------------------
(***************************************************************************)
(* DELETE of a task that the copy says is finished: first at the agent,    *)
(* then in the table, and not in a transaction.                            *)
(***************************************************************************)
MayDeleteAny(t) == HasCopy(t)
MayDelete(t) == copy[t].state \in {"Completed", "Exception"}

Delete(t) ==
    /\ "delete" \in Requests /\ deleting[t] = "no" /\ MayDelete(t)
    /\ deleting' = [deleting EXCEPT ![t] = "agent"]
    /\ UNCHANGED <<agentVars, pending, copyVars, builder, txVars, deleted, asking, answer>>

DeleteAtAgent(t) ==
    /\ deleting[t] = "agent"
    /\ IF Exists(t) /\ ~crashed
       THEN /\ state' = [state EXCEPT ![t] = "none"]
            /\ deleting' = [deleting EXCEPT ![t] = "copy"]
       ELSE deleting' = [deleting EXCEPT ![t] = "no"] /\ UNCHANGED state
    /\ UNCHANGED <<time, result, pc, queue, crashed, pending, copyVars, builder, txVars,
                   deleted, asking, answer>>

DeleteCopy(t) ==
    /\ deleting[t] = "copy"
    /\ copy' = [copy EXCEPT ![t] = NoCopy]
    /\ deleting' = [deleting EXCEPT ![t] = "no"]
    /\ deleted' = deleted \cup {t}
    /\ UNCHANGED <<agentVars, pending, called, builder, txVars, asking, answer>>

(***************************************************************************)
(* Monitor::get: 202 Accepted for a task without an end time, otherwise    *)
(* what the agent answers.  A task without a builder is gone.              *)
(***************************************************************************)
AskMonitor(t) ==
    /\ "monitor" \in Requests /\ t \notin asking /\ HasCopy(t)
    /\ IF copy[t].ended
       THEN asking' = asking \cup {t} /\ UNCHANGED answer
       ELSE answer' = [answer EXCEPT ![t] = "accepted"] /\ UNCHANGED asking
    /\ UNCHANGED <<agentVars, pending, copyVars, builder, txVars, deleting, deleted>>

MonitorAnswer(t) ==
    CASE crashed                                  -> "unreachable"
      [] ~crashed /\ TaskResultInfo(t) = "none"   -> "missing"
      [] ~crashed /\ TaskResultInfo(t) = "error"  -> "failure"
      [] ~crashed /\ TaskResultInfo(t) = "value"  -> IF t \in builder THEN "result" ELSE "gone"

(***************************************************************************)
(* get_result leaves the result where it is.                               *)
(***************************************************************************)
ResultsLessRead(t) == [result EXCEPT ![t] = "none"]
ResultsAfterRead(t) == result

AnswerMonitor(t) ==
    /\ t \in asking
    /\ asking' = asking \ {t}
    /\ answer' = [answer EXCEPT ![t] = MonitorAnswer(t)]
    /\ result' = ResultsAfterRead(t)
    /\ UNCHANGED <<state, time, pc, queue, crashed, pending, copyVars, builder, txVars, deleting, deleted>>

-----------------------------------------------------------------------------
Next ==
    \/ \E t \in Tasks :
         \/ Execute(t) \/ Post(t) \/ HandleUpdate(t)
         \/ Delete(t) \/ DeleteAtAgent(t) \/ DeleteCopy(t)
         \/ AskMonitor(t) \/ AnswerMonitor(t)
    \/ StartPoll \/ Transaction

Spec == Init /\ [][Next]_vars

(***************************************************************************)
(* The pool's threads run, subtasks end, a thread in a transaction goes    *)
(* on, requests under way are finished, and the watcher polls again and    *)
(* again.  No client has to ask or delete anything.                        *)
(***************************************************************************)
Fairness ==
    /\ \A t \in Tasks : WF_vars(Execute(t)) /\ WF_vars(DeleteAtAgent(t)) /\ WF_vars(DeleteCopy(t))
    /\ WF_vars(Transaction) /\ WF_vars(StartPoll)

FairSpec == Spec /\ Fairness

-----------------------------------------------------------------------------
(***************************************************************************)
(* No exception leaves Task::operator(): the callbacks that move the       *)
(* resource to its final state always find it, running, although clients   *)
(* may delete finished tasks while callbacks are still to run.             *)
(***************************************************************************)
AgentSurvives == ~crashed

(***************************************************************************)
(* The result a task keeps is the one its state announces, and it is there *)
(* when the last Update notification of the task is sent.                  *)
(***************************************************************************)
ResultMatchesState ==
    \A t \in Tasks :
        /\ result[t] = "value" => state[t] \in {"Completed", "none"}
        /\ result[t] = "error" => state[t] \in {"Exception", "none"}
        /\ pc[t] \in {"postrun", "done"} => result[t] # "none" /\ time[t] = "ended"

(***************************************************************************)
(* The copy in the REST server never runs ahead of the agent: it says that *)
(* a task has ended, and how, only after the agent's task did.             *)
(***************************************************************************)
CopyNotAhead ==
    \A t \in Tasks : HasCopy(t) /\ copy[t].ended =>
        /\ time[t] = "ended"
        /\ copy[t].state \in {"Completed", "Exception"}
        /\ state[t] \in {copy[t].state, "none"}

(***************************************************************************)
(* What clients have learned of the end of a task is final.  A copy seen   *)
(* ended is never seen running again, nor with another outcome: fetches    *)
(* cannot overtake each other.  An outcome got from the monitor is got     *)
(* again, until the task is deleted or the agent dies.                     *)
(***************************************************************************)
EndIsFinal ==
    [][\A t \in Tasks :
        /\ HasCopy(t) /\ copy[t].ended /\ HasCopy(t)' =>
                copy'[t].ended /\ copy'[t].state = copy[t].state
        /\ answer[t] \in {"result", "failure"} =>
                \/ answer'[t] = answer[t]
                \/ answer'[t] = "missing" /\ ~Exists(t)
                \/ answer'[t] = "unreachable" /\ crashed]_vars

(***************************************************************************)
(* The completion notifier of a task that succeeds is called once at most, *)
(* however often Update notifications and polls fetch the ended task.      *)
(***************************************************************************)
NotifiedOnce == \A t \in Tasks : called[t] > 1 => result[t] # "value"

(***************************************************************************)
(* A refresh keeps the completion notifier that only the copy has, and the *)
(* one that brings the end of the task calls it (TaskHandler::fetch_entry, *)
(* add_or_update_entry): a notifier is missed only if it is added late.    *)
(***************************************************************************)
EndCallsNotifier ==
    [][\A t \in Tasks : HasCopy(t) /\ copy[t].notifier /\ HasCopy(t)' =>
        /\ copy'[t].notifier
        /\ copy'[t].ended /\ ~copy[t].ended => called'[t] = called[t] + 1]_vars

(***************************************************************************)
(* A notifier that is added before the copy shows the end of the task is   *)
(* called, even if every Update notification is lost, as long as the agent *)
(* lives.                                                                  *)
(***************************************************************************)
NotifierCalled ==
    \A t \in Tasks : HasCopy(t) /\ copy[t].notifier /\ ~copy[t].ended ~> called[t] > 0 \/ crashed

(***************************************************************************)
(* Every task that a request started is seen to end if the agent lives.    *)
(***************************************************************************)
EndIsSeen ==
    \A t \in Tasks : pc[t] = "queued" ~>
        (HasCopy(t) /\ copy[t].ended) \/ t \in deleted \/ crashed

(***************************************************************************)
(* Every transaction ends, also when the agent dies in the middle of it:   *)
(* nobody is locked out of the agent for ever.                             *)
(***************************************************************************)
TransactionEnds == []<>(tx = "free")

(***************************************************************************)
(* A deleted task may be stored again by a fetch under way, but in the end *)
(* it is gone for good.  (The copies of a dead agent go with the agent.)   *)
(***************************************************************************)
DeletedIsGone ==
    \A t \in Tasks : t \in deleted ~> [](~HasCopy(t) \/ crashed)

(***************************************************************************)
(* "Add a function that should be called on task completion": every        *)
(* notifier that is added is called, unless the task is deleted.           *)
(***************************************************************************)
EveryNotifierCalled ==
    \A t \in Tasks : HasCopy(t) /\ copy[t].notifier ~> called[t] > 0 \/ t \in deleted
=============================================================================
