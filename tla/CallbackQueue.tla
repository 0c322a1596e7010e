---------------------------- MODULE CallbackQueue ----------------------------
(***************************************************************************)
(* SingleThreadedSchedulerClient, through which validation tells its       *)
(* listeners what happened, on top of CScheduler: threads add callbacks,   *)
(* service threads take tasks from taskQueue, one of them being            *)
(* ProcessQueue, and at shutdown the main thread runs what is left, while  *)
(* it and the threads that have not ended yet go on adding callbacks.  A   *)
(* critical section is one step.                                           *)
(*                                                                         *)
(* Tasks are copies of ProcessQueue, which are due at once, and one that   *)
(* repeats itself from time to time (scheduleEvery).                       *)
(***************************************************************************)
EXTENDS Integers, Sequences

CONSTANTS
    Producer,       \* threads that call AddToProcessQueue
    Service,        \* threads in serviceQueue
    Main,           \* the thread that shuts down
    Callback,       \* numbered in the order in which they are added
    None

Thread == Producer \cup Service \cup {Main}

ASSUME ThreadAssumption ==
    /\ Producer \cap Service = {} /\ Main \notin Producer \cup Service
    /\ Callback \subseteq Nat /\ None \notin Callback

VARIABLES
    pending,        \* m_callbacks_pending
    running,        \* m_are_callbacks_running
    ready,          \* the tasks in taskQueue that are due, earliest first
    timer,          \* the repeated task waits in taskQueue for its time
    stopRequested,
    shutdown,       \* how far Shutdown has come since the scheduler stopped
    at,             \* where each thread is
    callback,       \* the callback a thread executes
    done,           \* history: the callbacks that have run
    fresh           \* the callbacks not added yet

tasks == <<ready, timer>>
vars == <<pending, running, tasks, stopRequested, shutdown, at, callback, done, fresh>>

Init ==
    /\ pending = <<>> /\ running = FALSE
    /\ ready = <<>> /\ timer = TRUE
    /\ stopRequested = FALSE /\ shutdown = "no"
    /\ at = [t \in Thread |-> IF t \in Service THEN "top" ELSE "idle"]
    /\ callback = [t \in Thread |-> None]
    /\ done = <<>> /\ fresh = Callback

\* Where a thread goes on: service threads loop; the main thread comes from
\* the first flush, from ProcessQueue in EmptyQueue, or from the second flush.
Back(t) ==
    IF t \in Service THEN "top"
    ELSE IF t # Main THEN "idle"
    ELSE IF shutdown = "flushing" THEN "empty"
    ELSE IF shutdown = "emptying" THEN "drain" ELSE "finished"

-----------------------------------------------------------------------------
(* The client.                                                             *)

\* Any thread, at any time until the queue itself is destroyed; the main thread
\* when it flushes the chain state.
MayAdd(t) ==
    \/ t \in Producer /\ at[t] = "idle" /\ at[Main] # "finished"
    \/ t = Main /\ at[t] = "flush"

AddToProcessQueue(t, c) ==
    /\ MayAdd(t)
    /\ c \in fresh /\ \A d \in fresh : c <= d
    /\ fresh' = fresh \ {c}
    /\ pending' = Append(pending, c)
    /\ at' = [at EXCEPT ![t] = "maybe"]
    /\ UNCHANGED <<running, tasks, stopRequested, shutdown, callback, done>>

\* Nobody else is about to run what is pending.
MustSchedule == ~running /\ pending # <<>>

MaybeScheduleProcessQueue(t) ==
    /\ at[t] = "maybe"
    /\ at' = [at EXCEPT ![t] = IF MustSchedule THEN "schedule" ELSE Back(t)]
    /\ UNCHANGED <<pending, running, tasks, stopRequested, shutdown, callback, done, fresh>>

\* CScheduler::schedule, first the task and then, unlocked, the notification.
Schedule(t) ==
    /\ at[t] = "schedule"
    /\ ready' = Append(ready, "process")
    /\ at' = [at EXCEPT ![t] = "notify"]
    /\ UNCHANGED <<pending, running, timer, stopRequested, shutdown, callback, done, fresh>>

\* notify_one: some service thread that waits, if there is one.
Waiting == {s \in Service : at[s] \in {"wait", "until_now", "until_later"}}

NotifyOne(t) ==
    /\ at[t] = "notify"
    /\ \/ Waiting # {} /\ \E s \in Waiting : at' = [at EXCEPT ![t] = Back(t), ![s] = "top"]
       \/ Waiting = {} /\ at' = [at EXCEPT ![t] = Back(t)]
    /\ UNCHANGED <<pending, running, tasks, stopRequested, shutdown, callback, done, fresh>>

\* Mutant of MayProcess: another copy's callback may still run.
MayProcessAny == pending # <<>>

\* ProcessQueue: the callback is taken, or there is nothing to do.
MayProcess == ~running /\ pending # <<>>

ProcessQueue(t) ==
    /\ at[t] = "process"
    /\ IF MayProcess
       THEN /\ running' = TRUE
            /\ callback' = [callback EXCEPT ![t] = Head(pending)]
            /\ pending' = Tail(pending)
            /\ at' = [at EXCEPT ![t] = "callback"]
       ELSE /\ at' = [at EXCEPT ![t] = Back(t)]
            /\ UNCHANGED <<pending, running, callback>>
    /\ UNCHANGED <<tasks, stopRequested, shutdown, done, fresh>>

RunCallback(t) ==
    /\ at[t] = "callback"
    /\ done' = Append(done, callback[t])
    /\ callback' = [callback EXCEPT ![t] = None]
    /\ at' = [at EXCEPT ![t] = "raii"]
    /\ UNCHANGED <<pending, running, tasks, stopRequested, shutdown, fresh>>

\* Mutant of CallbacksNotRunning: what was added meanwhile is left.
CallbacksNotRunningOnly(t) ==
    /\ at[t] = "raii"
    /\ running' = FALSE
    /\ at' = [at EXCEPT ![t] = Back(t)]
    /\ UNCHANGED <<pending, tasks, stopRequested, shutdown, callback, done, fresh>>

\* ~RAIICallbacksRunning, before it calls MaybeScheduleProcessQueue.
CallbacksNotRunning(t) ==
    /\ at[t] = "raii"
    /\ running' = FALSE
    /\ at' = [at EXCEPT ![t] = "maybe"]
    /\ UNCHANGED <<pending, tasks, stopRequested, shutdown, callback, done, fresh>>

-----------------------------------------------------------------------------
(* CScheduler::serviceQueue.                                               *)

NoTask == ready = <<>> /\ ~timer

\* The head of the loop: end, wait for a task, or wait for its time.
ServiceTop(s) ==
    /\ at[s] = "top"
    /\ at' = [at EXCEPT ![s] =
          IF stopRequested THEN "ended"
          ELSE IF NoTask THEN "wait"
          ELSE IF ready # <<>> THEN "until_now" ELSE "until_later"]
    /\ UNCHANGED <<pending, running, tasks, stopRequested, shutdown, callback, done, fresh>>

\* wait_until times out, at the time of the task that was first.
TimedOut(s) ==
    \/ at[s] = "until_now"
    \/ at[s] = "until_later" /\ ~timer

\* The first task is taken.  When another thread has taken the one that was
\* due, this is the repeated task, before its time.
TakeTask(s) ==
    /\ TimedOut(s)
    /\ \/ /\ stopRequested \/ NoTask
          /\ at' = [at EXCEPT ![s] = "top"]
          /\ UNCHANGED tasks
       \/ /\ ~stopRequested /\ ready # <<>>
          /\ ready' = Tail(ready) /\ UNCHANGED timer
          /\ at' = [at EXCEPT ![s] = Head(ready)]
       \/ /\ ~stopRequested /\ ready = <<>> /\ timer
          /\ timer' = FALSE /\ UNCHANGED ready
          /\ at' = [at EXCEPT ![s] = "repeat"]
    /\ UNCHANGED <<pending, running, stopRequested, shutdown, callback, done, fresh>>

\* The timer's function, and its next run scheduled.
Repeat(s) ==
    /\ at[s] = "repeat"
    /\ timer' = TRUE
    /\ at' = [at EXCEPT ![s] = "notify"]
    /\ UNCHANGED <<pending, running, ready, stopRequested, shutdown, callback, done, fresh>>

TimerDue ==
    /\ timer /\ timer' = FALSE
    /\ ready' = Append(ready, "repeat")
    /\ UNCHANGED <<pending, running, stopRequested, shutdown, at, callback, done, fresh>>

-----------------------------------------------------------------------------
(* Shutdown on the main thread: stop(), a flush of the chain state,        *)
(* FlushBackgroundCallbacks, another flush, and the end of the queue.      *)

\* The minter and the thread that loads blocks may still run.
StopScheduler ==
    /\ at[Main] = "idle"
    /\ stopRequested' = TRUE
    /\ at' = [t \in Thread |-> IF t = Main THEN "join" ELSE IF t \in Waiting THEN "top" ELSE at[t]]
    /\ UNCHANGED <<pending, running, tasks, shutdown, callback, done, fresh>>

Join ==
    /\ at[Main] = "join" /\ \A s \in Service : at[s] = "ended"
    /\ shutdown' = "flushing"
    /\ at' = [at EXCEPT ![Main] = "flush"]
    /\ UNCHANGED <<pending, running, tasks, stopRequested, callback, done, fresh>>

\* ForceFlushStateToDisk adds a ChainStateFlushed callback, or there was nothing
\* to flush or it failed.
NothingFlushed ==
    /\ at[Main] = "flush"
    /\ at' = [at EXCEPT ![Main] = Back(Main)]
    /\ UNCHANGED <<pending, running, tasks, stopRequested, shutdown, callback, done, fresh>>

ForceFlush == NothingFlushed \/ \E c \in Callback : AddToProcessQueue(Main, c)

\* EmptyQueue runs ProcessQueue, and runs it again while anything is pending.
EmptyQueue ==
    /\ at[Main] = "empty"
    /\ shutdown' = "emptying"
    /\ at' = [at EXCEPT ![Main] = "process"]
    /\ UNCHANGED <<pending, running, tasks, stopRequested, callback, done, fresh>>

\* When nothing is left the main thread flushes again; what is added from here
\* on is dropped.
ShouldContinue ==
    /\ at[Main] = "drain"
    /\ IF pending # <<>>
       THEN at' = [at EXCEPT ![Main] = "process"] /\ UNCHANGED shutdown
       ELSE at' = [at EXCEPT ![Main] = "flush"] /\ shutdown' = "dropping"
    /\ UNCHANGED <<pending, running, tasks, stopRequested, callback, done, fresh>>

ShutdownStep == Join \/ ForceFlush \/ EmptyQueue \/ ShouldContinue

-----------------------------------------------------------------------------
ClientStep(t) ==
    \/ MaybeScheduleProcessQueue(t)
    \/ Schedule(t)
    \/ NotifyOne(t)
    \/ ProcessQueue(t)
    \/ RunCallback(t)
    \/ CallbacksNotRunning(t)

ServiceStep(s) == ServiceTop(s) \/ TakeTask(s) \/ Repeat(s)

Next ==
    \/ \E t \in Producer, c \in Callback : AddToProcessQueue(t, c)
    \/ \E t \in Thread : ClientStep(t)
    \/ \E s \in Service : ServiceStep(s)
    \/ TimerDue
    \/ StopScheduler
    \/ ShutdownStep

\* Every thread that is not waiting goes on, wait_until ends at its time, and
\* callbacks return.  Nothing makes the node add callbacks or shut down, but
\* once Shutdown has begun it goes on.
Fairness ==
    /\ \A t \in Thread : WF_vars(ClientStep(t))
    /\ \A s \in Service : WF_vars(ServiceStep(s))
    /\ WF_vars(ShutdownStep)

Spec == Init /\ [][Next]_vars /\ Fairness

-----------------------------------------------------------------------------
(* Properties.                                                             *)

Running == {t \in Thread : at[t] = "callback"}

Serial == INSTANCE SerialCallbacks
    WITH current <- IF Running = {} THEN None ELSE callback[CHOOSE t \in Running : TRUE]

\* AddToProcessQueue and ProcessQueue: callbacks run one at a time, each
\* completely, in the order in which they were added, whichever thread runs
\* them and though several copies of ProcessQueue may be scheduled.
ImplementsSerial == Serial!Spec

\* Every callback added before FlushBackgroundCallbacks has found the queue
\* empty runs: also one added while another one ends, when a notification finds
\* no thread waiting, when the scheduler has stopped or by the main thread's
\* own first flush.  Shutdown says of later ones that they "will be dropped".
EveryCallbackRuns ==
    \A c \in Callback :
        (c \notin fresh /\ shutdown # "dropping") ~> (\E i \in DOMAIN done : done[i] = c)

==============================================================================
