----------------------------- MODULE Threadpool -----------------------------
(***************************************************************************)
(* The pool of threads that runs an agent's tasks (threadpool.cpp) and its *)
(* queue (thread_queue.tpp): a list under a mutex with a condition         *)
(* variable.  A thread ends when it pops a STOP task; stop(true), the only *)
(* way the pool is stopped, pushes one per thread and waits for them.      *)
(* SpdkAgent puts the pool into an agent.                                  *)
(***************************************************************************)
EXTENDS Naturals, Sequences, FiniteSets

CONSTANTS
    MaxJobs,    \* bound: tasks given to the pool
    ThreadIds   \* the threads

ASSUME MaxJobsAssumption == MaxJobs \in Nat
ASSUME ThreadsAssumption == IsFiniteSet(ThreadIds) /\ ThreadIds # {}

Jobs == 1..MaxJobs  \* the tasks, in the order they are given to the pool
Stop == 0           \* a task of type STOP

VARIABLES
    queue,      \* ThreadQueue::m_data
    thread,     \* where a thread is: in wait_and_pop (check, wait), running, or ended
    task,       \* the task a thread runs, or Stop
    stopping,   \* where the caller of stop() is
    pushed,     \* STOP tasks pushed so far
    submitted,  \* jobs given to run() so far
    started     \* history: jobs popped, oldest first

vars == <<queue, thread, task, stopping, pushed, submitted, started>>

-----------------------------------------------------------------------------
Elements(s) == {s[i] : i \in DOMAIN s}
OnlyJobs(s) ==
    LET jobs[n \in 0..Len(s)] ==
            IF n = 0 THEN <<>> ELSE IF s[n] = Stop THEN jobs[n - 1] ELSE Append(jobs[n - 1], s[n])
    IN  jobs[Len(s)]
Submitted == 1..submitted

TypeOK ==
    /\ queue \in Seq(Jobs \cup {Stop})
    /\ thread \in [ThreadIds -> {"check", "wait", "running", "ended"}]
    /\ task \in [ThreadIds -> Jobs \cup {Stop}]
    /\ stopping \in {"no", "pushing", "joining", "stopped"}
    /\ pushed \in Nat
    /\ submitted \in 0..MaxJobs /\ started \in Seq(Jobs)

Init ==
    /\ queue = <<>>
    /\ thread = [i \in ThreadIds |-> "check"] /\ task = [i \in ThreadIds |-> Stop]
    /\ stopping = "no" /\ pushed = 0
    /\ submitted = 0 /\ started = <<>>

(***************************************************************************)
(* push_back and push_front: both append, and wake every waiting thread.   *)
(***************************************************************************)
NotWoken == thread
Woken == [i \in ThreadIds |-> IF thread[i] = "wait" THEN "check" ELSE thread[i]]

PushBack(x) == queue' = Append(queue, x) /\ thread' = Woken
PushFront(x) == queue' = Append(queue, x) /\ thread' = Woken

(***************************************************************************)
(* Threadpool::run, called by the threads that serve agent commands.       *)
(***************************************************************************)
RunJob ==
    /\ submitted < MaxJobs
    /\ submitted' = submitted + 1
    /\ PushBack(submitted')
    /\ UNCHANGED <<task, stopping, pushed, started>>

(***************************************************************************)
(* stop(true): stop_threads, then join_threads.                            *)
(***************************************************************************)
CallStop ==
    /\ stopping = "no"
    /\ stopping' = "pushing"
    /\ UNCHANGED <<queue, thread, task, pushed, submitted, started>>

StopsButOne == Cardinality(ThreadIds) - 1
Stops == Cardinality(ThreadIds)

PushStop ==
    /\ stopping = "pushing"
    /\ IF pushed < Stops
       THEN PushFront(Stop) /\ pushed' = pushed + 1 /\ UNCHANGED stopping
       ELSE stopping' = "joining" /\ UNCHANGED <<queue, thread, pushed>>
    /\ UNCHANGED <<task, submitted, started>>

JoinThreads ==
    /\ stopping = "joining" /\ \A i \in ThreadIds : thread[i] = "ended"
    /\ stopping' = "stopped"
    /\ UNCHANGED <<queue, thread, task, pushed, submitted, started>>

-----------------------------------------------------------------------------
(***************************************************************************)
(* run_loop.  wait_and_pop checks the queue and waits while it is empty,   *)
(* with the mutex held except while it waits.                              *)
(***************************************************************************)
TakenLast == queue[Len(queue)]
Taken == Head(queue)
Rest == Tail(queue)

Pop(i) ==
    /\ thread[i] = "check" /\ queue # <<>>
    /\ task' = [task EXCEPT ![i] = Taken] /\ queue' = Rest
    /\ thread' = [thread EXCEPT ![i] = IF Taken = Stop THEN "ended" ELSE "running"]
    /\ started' = IF Taken = Stop THEN started ELSE Append(started, Taken)
    /\ UNCHANGED <<stopping, pushed, submitted>>

Wait(i) ==
    /\ thread[i] = "check" /\ queue = <<>>
    /\ thread' = [thread EXCEPT ![i] = "wait"]
    /\ UNCHANGED <<queue, task, stopping, pushed, submitted, started>>

(***************************************************************************)
(* A condition variable may wake a thread for no reason.                   *)
(***************************************************************************)
WakeUp(i) ==
    /\ thread[i] = "wait"
    /\ thread' = [thread EXCEPT ![i] = "check"]
    /\ UNCHANGED <<queue, task, stopping, pushed, submitted, started>>

EndTask(i) ==
    /\ thread[i] = "running"
    /\ thread' = [thread EXCEPT ![i] = "check"] /\ task' = [task EXCEPT ![i] = Stop]
    /\ UNCHANGED <<queue, stopping, pushed, submitted, started>>

-----------------------------------------------------------------------------
(***************************************************************************)
(* No job is lost, run twice or overtaken: the jobs popped so far and the  *)
(* jobs still queued are the jobs given to run(), in that order.           *)
(***************************************************************************)
InOrderOnce == [j \in Submitted |-> j] = started \o OnlyJobs(queue)

(***************************************************************************)
(* No thread sleeps while a task is queued, and when stop() waits for the  *)
(* threads there is a STOP task in the queue for each that has not ended:  *)
(* it never waits for a thread that nothing will end (wait_and_pop,        *)
(* push_front, stop_threads).                                              *)
(***************************************************************************)
QueuedStops == {k \in DOMAIN queue : queue[k] = Stop}
Unended == {i \in ThreadIds : thread[i] # "ended"}

NoneWaitsInVain ==
    /\ queue # <<>> => \A i \in ThreadIds : thread[i] # "wait"
    /\ stopping = "joining" => Cardinality(QueuedStops) = Cardinality(Unended)
=============================================================================
