------------------------------ MODULE CheckQueue ------------------------------
(***************************************************************************)
(* CCheckQueue: the script checks of a block, run by worker threads and,   *)
(* once it has added them all, by the master that connects the block.  A   *)
(* critical section under m_mutex is one step; the checks run outside.     *)
(*                                                                         *)
(* A check is good or bad.  The queue is a set, "as the order of booleans  *)
(* doesn't matter": a batch may be any part of it of the right size.       *)
(***************************************************************************)
EXTENDS Integers, FiniteSets

CONSTANTS
    Worker,
    Master,
    Check,
    Bad,            \* the checks that return false
    BatchSize,      \* nBatchSize
    MaxStarts       \* bound: calls of StartWorkerThreads

CheckThread == Worker \cup {Master}

ASSUME QueueAssumption ==
    /\ Master \notin Worker /\ Worker # {}
    /\ IsFiniteSet(Check) /\ Bad \subseteq Check
    /\ BatchSize \in Nat \ {0}

VARIABLES
    queue,
    nIdle,
    nTotal,
    fAllOk,
    nTodo,
    requestStop,    \* m_request_stop
    stage,          \* where a thread is in Loop; "out" when it is not
    batch,          \* a thread's vChecks
    fOk,            \* a thread's own result
    notify,         \* the notification the master still owes the workers
    added,          \* history: the checks added since the last Wait
    verdict,        \* what Wait has returned
    starts

shared == <<queue, nIdle, nTotal, fAllOk, nTodo>>
local == <<stage, batch, fOk>>
checkVars == <<shared, requestStop, local, notify, added, verdict, starts>>

CheckInit ==
    /\ queue = {} /\ nIdle = 0 /\ nTotal = 0 /\ fAllOk = TRUE /\ nTodo = 0
    /\ requestStop = FALSE
    /\ stage = [t \in CheckThread |-> "out"]
    /\ batch = [t \in CheckThread |-> {}]
    /\ fOk = [t \in CheckThread |-> TRUE]
    /\ notify = "none"
    /\ added = {} /\ verdict = TRUE
    /\ starts = 0

-----------------------------------------------------------------------------
(* The master, and the threads' start and end.                             *)

Sleeping == {t \in Worker : stage[t] = "wait"}

\* A notified thread must take the lock before it goes on.
Wake(ts) == [t \in CheckThread |-> IF t \in ts THEN "woken" ELSE stage[t]]

StartWorkerThreads ==
    /\ starts < MaxStarts
    /\ stage[Master] = "out" /\ ~requestStop
    /\ \A t \in Worker : stage[t] = "out"
    /\ nIdle' = 0 /\ nTotal' = 0 /\ fAllOk' = TRUE
    /\ stage' = [t \in CheckThread |-> IF t \in Worker THEN "enter" ELSE stage[t]]
    /\ fOk' = [t \in CheckThread |-> TRUE]
    /\ starts' = starts + 1
    /\ UNCHANGED <<queue, nTodo, requestStop, batch, notify, added, verdict>>

\* ConnectBlock uses the queue only when there are worker threads.
Add(cs) ==
    /\ stage[Master] = "out" /\ notify = "none" /\ ~requestStop
    /\ \A t \in Worker : stage[t] # "out"
    /\ cs # {} /\ cs \cap added = {}
    /\ queue' = queue \cup cs
    /\ nTodo' = nTodo + Cardinality(cs)
    /\ added' = added \cup cs
    /\ notify' = IF Cardinality(cs) = 1 THEN "one" ELSE "all"
    /\ UNCHANGED <<nIdle, nTotal, fAllOk, requestStop, local, verdict, starts>>

\* After the lock is released: one worker that sleeps, or all of them.
Notify ==
    /\ notify # "none"
    /\ \/ notify = "all" /\ stage' = Wake(Sleeping)
       \/ notify = "one" /\ Sleeping # {} /\ \E t \in Sleeping : stage' = Wake({t})
       \/ notify = "one" /\ Sleeping = {} /\ UNCHANGED stage
    /\ notify' = "none"
    /\ UNCHANGED <<shared, requestStop, batch, fOk, added, verdict, starts>>

Wait ==
    /\ stage[Master] = "out" /\ notify = "none" /\ ~requestStop
    /\ \A t \in Worker : stage[t] # "out"
    /\ stage' = [stage EXCEPT ![Master] = "enter"]
    /\ fOk' = [fOk EXCEPT ![Master] = TRUE]
    /\ UNCHANGED <<shared, requestStop, batch, notify, added, verdict, starts>>

\* The block is connected or refused; the next one starts afresh.
NextBlock ==
    /\ stage[Master] = "returned"
    /\ stage' = [stage EXCEPT ![Master] = "out"]
    /\ added' = {}
    /\ UNCHANGED <<shared, requestStop, batch, fOk, notify, verdict, starts>>

\* At shutdown, when no block is being connected.
StopWorkerThreads ==
    /\ stage[Master] = "out" /\ added = {} /\ notify = "none" /\ ~requestStop
    /\ \A t \in Worker : stage[t] # "out"
    /\ requestStop' = TRUE
    /\ stage' = Wake(Sleeping)
    /\ UNCHANGED <<shared, batch, fOk, notify, added, verdict, starts>>

Joined ==
    /\ requestStop
    /\ \A t \in Worker : stage[t] = "out"
    /\ requestStop' = FALSE
    /\ UNCHANGED <<shared, local, notify, added, verdict, starts>>

-----------------------------------------------------------------------------
(* Loop, the part under the lock.                                          *)

InCritSect(t) == stage[t] \in {"enter", "ran", "woken"}

\* Mutant of AllOk: the last batch decides.
AllOkLast(t) == IF stage[t] = "ran" THEN fOk[t] ELSE fAllOk

\* The clean-up of the previous run: the result and the count of the batch.
Todo(t) == IF stage[t] = "ran" THEN nTodo - Cardinality(batch[t]) ELSE nTodo
AllOk(t) == IF stage[t] = "ran" THEN fAllOk /\ fOk[t] ELSE fAllOk
Total(t) == IF stage[t] = "enter" THEN nTotal + 1 ELSE nTotal
Idle(t) == IF stage[t] = "woken" THEN nIdle - 1 ELSE nIdle

\* A worker that finished the last check tells the master.
TellsMaster(t) == stage[t] = "ran" /\ Todo(t) = 0 /\ t # Master /\ stage[Master] = "wait"

\* Mutant of AtAfter: the master is not told.
AtAfterSilent(t, where) == [stage EXCEPT ![t] = where]

AtAfter(t, where) ==
    [u \in CheckThread |-> IF u = t THEN where
                      ELSE IF u = Master /\ TellsMaster(t) THEN "woken" ELSE stage[u]]

\* Nothing is left: the master returns, and resets the status.
Return ==
    /\ InCritSect(Master)
    /\ queue = {} /\ ~requestStop /\ Todo(Master) = 0
    /\ nTotal' = Total(Master) - 1 /\ nIdle' = Idle(Master) /\ nTodo' = Todo(Master)
    /\ verdict' = AllOk(Master)
    /\ fAllOk' = TRUE
    /\ stage' = AtAfter(Master, "returned")
    /\ batch' = [batch EXCEPT ![Master] = {}]
    /\ UNCHANGED <<queue, requestStop, fOk, notify, added, starts>>

Sleep(t) ==
    /\ InCritSect(t)
    /\ queue = {} /\ ~requestStop /\ ~(t = Master /\ Todo(t) = 0)
    /\ nTotal' = Total(t) /\ nIdle' = Idle(t) + 1 /\ nTodo' = Todo(t)
    /\ fAllOk' = AllOk(t)
    /\ stage' = AtAfter(t, "wait")
    /\ batch' = [batch EXCEPT ![t] = {}]
    /\ UNCHANGED <<queue, requestStop, fOk, notify, added, verdict, starts>>

Stop(t) ==
    /\ InCritSect(t) /\ t # Master
    /\ requestStop
    /\ nTotal' = Total(t) /\ nIdle' = Idle(t) /\ nTodo' = Todo(t)
    /\ fAllOk' = AllOk(t)
    /\ stage' = AtAfter(t, "out")
    /\ batch' = [batch EXCEPT ![t] = {}]
    /\ UNCHANGED <<queue, requestStop, fOk, notify, added, verdict, starts>>

\* std::max(1U, std::min(nBatchSize, queue.size() / (nTotal + nIdle + 1)))
NumNow(t) ==
    LET share == Cardinality(queue) \div (Total(t) + Idle(t) + 1)
        capped == IF BatchSize < share THEN BatchSize ELSE share
    IN  IF capped < 1 THEN 1 ELSE capped

Take(t, cs) ==
    /\ InCritSect(t)
    /\ queue # {} /\ ~requestStop
    /\ cs \subseteq queue /\ Cardinality(cs) = NumNow(t)
    /\ nTotal' = Total(t) /\ nIdle' = Idle(t) /\ nTodo' = Todo(t)
    /\ fAllOk' = AllOk(t)
    /\ queue' = queue \ cs
    /\ batch' = [batch EXCEPT ![t] = cs]
    /\ fOk' = [fOk EXCEPT ![t] = AllOk(t)]
    /\ stage' = AtAfter(t, "run")
    /\ UNCHANGED <<requestStop, notify, added, verdict, starts>>

\* The checks, outside the lock, until one fails.
Execute(t) ==
    /\ stage[t] = "run"
    /\ fOk' = [fOk EXCEPT ![t] = fOk[t] /\ batch[t] \cap Bad = {}]
    /\ stage' = [stage EXCEPT ![t] = "ran"]
    /\ UNCHANGED <<shared, requestStop, batch, notify, added, verdict, starts>>

-----------------------------------------------------------------------------
Loop(t) ==
    \/ Sleep(t)
    \/ Stop(t)
    \/ \E cs \in SUBSET queue : Take(t, cs)
    \/ Execute(t)

CheckNext ==
    \/ StartWorkerThreads
    \/ \E cs \in SUBSET Check : Add(cs)
    \/ Notify
    \/ Wait
    \/ NextBlock
    \/ StopWorkerThreads
    \/ Joined
    \/ Return
    \/ \E t \in CheckThread : Loop(t)

\* Threads run.  No condition variable wakes without being notified, and what
\* the master does between two calls of the queue it may do when it likes.
CheckFairness ==
    /\ \A t \in Worker : WF_checkVars(Loop(t))
    /\ WF_checkVars(Loop(Master) \/ Return)
    /\ WF_checkVars(Notify)

CheckSpec == CheckInit /\ [][CheckNext]_checkVars /\ CheckFairness

-----------------------------------------------------------------------------
(* Properties.                                                             *)

\* CCheckQueueControl::Wait, on which ConnectBlock decides: true exactly when
\* none of the checks added for this block is bad.  No check of the block is
\* still with a worker, and no result of an earlier block is left over.
VerdictExact ==
    stage[Master] = "returned" => verdict = (added \cap Bad = {})

\* Nobody is left asleep.  The master's Wait returns: whoever finishes last, the
\* master hears of it.  And StopWorkerThreads ends: no worker sleeps through
\* the request, though it is made while workers are between two loops.
NobodyLeftAsleep ==
    /\ (stage[Master] = "enter") ~> (stage[Master] = "returned")
    /\ requestStop ~> \A t \in Worker : stage[t] = "out"

==============================================================================
