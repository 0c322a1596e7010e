----------------------------- MODULE QueueProofs -----------------------------
(***************************************************************************)
(* The two queues that threads share.                                      *)
(*                                                                         *)
(* CCheckQueue: VerdictExact for any number of workers, any set of checks  *)
(* and any batch size.  The invariant follows every check of the block     *)
(* from the queue into one batch and out of it: nTodo counts exactly the   *)
(* checks that are queued or in a batch, and fAllOk tells whether a        *)
(* finished one was bad.  At nTodo = 0 every check added is finished, so   *)
(* the status is the verdict.                                              *)
(*                                                                         *)
(* The validation interface's queue: it implements SerialCallbacks, for    *)
(* any number of threads that add callbacks and of threads that serve the  *)
(* scheduler.  m_are_callbacks_running is held like a lock from the moment *)
(* a callback is taken to ~RAIICallbacksRunning, so at most one thread has *)
(* a callback, and it was the oldest.                                      *)
(***************************************************************************)
EXTENDS CheckQueue, CallbackQueue, FiniteSetTheorems, TLAPS

-----------------------------------------------------------------------------
(* CCheckQueue.                                                            *)

Stages == {"out", "enter", "wait", "woken", "run", "ran", "returned"}

\* The checks nTodo counts.
Pending == {c \in Check : c \in queue \/ \E t \in CheckThread : c \in batch[t]}

Types ==
    /\ queue \in SUBSET Check /\ added \in SUBSET Check
    /\ fAllOk \in BOOLEAN /\ requestStop \in BOOLEAN
    /\ stage \in [CheckThread -> Stages]
    /\ batch \in [CheckThread -> SUBSET Check]
    /\ fOk \in [CheckThread -> BOOLEAN]

\* A check is in one place, and was added.
Placed ==
    /\ \A t \in CheckThread : batch[t] # {} <=> stage[t] \in {"run", "ran"}
    /\ Pending \subseteq added
    /\ \A t \in CheckThread : batch[t] \cap queue = {}
    /\ \A t, u \in CheckThread : t # u => batch[t] \cap batch[u] = {}
    /\ nTodo = Cardinality(Pending)

\* What the results say of the checks that are finished.
Results ==
    /\ stage[Master] # "returned" /\ fAllOk => (added \ Pending) \cap Bad = {}
    /\ ~fAllOk => added \cap Bad # {}
    /\ \A t \in CheckThread : stage[t] = "ran" /\ fOk[t] => batch[t] \cap Bad = {}
    /\ \A t \in CheckThread : stage[t] \in {"run", "ran"} /\ ~fOk[t] => added \cap Bad # {}

\* The master's Wait is over, or there are no workers.
Phases ==
    /\ stage[Master] = "returned" => Pending = {} /\ fAllOk
    /\ requestStop \/ (\E t \in Worker : stage[t] = "out") => added = {} /\ stage[Master] = "out"

CheckInv == Types /\ Placed /\ Results /\ Phases /\ VerdictExact

-----------------------------------------------------------------------------
\* Two disjoint sets of checks are counted by adding their numbers.
LEMMA DisjointUnion ==
    ASSUME NEW S \in SUBSET Check, NEW T \in SUBSET Check, S \cap T = {}
    PROVE  /\ Cardinality(S) \in Nat /\ Cardinality(T) \in Nat
           /\ Cardinality(S \cup T) = Cardinality(S) + Cardinality(T)
<1>1. IsFiniteSet(S) /\ IsFiniteSet(T)
  BY Zenon, QueueAssumption, FS_Subset
<1>2. Cardinality(S) \in Nat /\ Cardinality(T) \in Nat
  BY Zenon, <1>1, FS_CardinalityType
<1> DEFINE both == S \cap T
<1>3. Cardinality(S \cup T) = Cardinality(S) + Cardinality(T) - Cardinality(both)
  BY Zenon, <1>1, FS_Union
<1>4. both = {} /\ IsFiniteSet(both)
  BY Zenon, FS_EmptySet
<1> HIDE DEF both
<1>5. Cardinality(both) = 0
  BY Zenon, <1>4, FS_EmptySet
<1> QED
  BY <1>2, <1>3, <1>5

\* The clean-up at the top of Loop takes a batch out of the count, and its
\* result into the status.
LEMMA CleanUp ==
    ASSUME CheckInv, NEW t \in CheckThread, InCritSect(t)
    PROVE  /\ Todo(t) = Cardinality(Pending \ batch[t])
           /\ Todo(t) = 0 => Pending \ batch[t] = {}
           /\ AllOk(t) \in BOOLEAN
           /\ stage[Master] # "returned" /\ AllOk(t) => (added \ (Pending \ batch[t])) \cap Bad = {}
           /\ ~AllOk(t) => added \cap Bad # {}
<1>1. IsFiniteSet(Pending) /\ IsFiniteSet(batch[t]) /\ IsFiniteSet(Pending \ batch[t])
  BY Zenon, QueueAssumption, FS_Subset DEF CheckInv, Types, Pending
<1>2. batch[t] \subseteq Pending
  BY Zenon DEF CheckInv, Types, Pending
<1>3. Cardinality(Pending) = Cardinality(Pending \ batch[t]) + Cardinality(batch[t])
  <2>1. (Pending \ batch[t]) \cup batch[t] = Pending /\ (Pending \ batch[t]) \cap batch[t] = {}
    BY Zenon, <1>2
  <2>2. Pending \ batch[t] \in SUBSET Check /\ batch[t] \in SUBSET Check
    BY Zenon DEF Pending, CheckInv, Types
  <2> QED
    BY Zenon, <2>1, <2>2, DisjointUnion
<1>4. Cardinality(Pending \ batch[t]) \in Nat /\ Cardinality(batch[t]) \in Nat
  BY Zenon, <1>1, FS_CardinalityType
<1>5. Todo(t) = Cardinality(Pending \ batch[t])
  <2>1. CASE stage[t] = "ran"
    BY <1>3, <1>4, <2>1 DEF Todo, CheckInv, Placed
  <2>2. CASE stage[t] # "ran"
    <3>1. batch[t] = {}
      BY Zenon, <2>2 DEF CheckInv, Placed, InCritSect
    <3>2. Pending \ batch[t] = Pending
      BY Zenon, <3>1
    <3> QED
      BY Zenon, <2>2, <3>2 DEF Todo, CheckInv, Placed
  <2> QED
    BY Zenon, <2>1, <2>2
<1>6. Todo(t) = 0 => Pending \ batch[t] = {}
  BY Zenon, <1>1, <1>5, FS_EmptySet
<1>7. AllOk(t) \in BOOLEAN
  BY Zenon DEF CheckInv, Types, AllOk
<1>8. stage[Master] # "returned" /\ AllOk(t) => (added \ (Pending \ batch[t])) \cap Bad = {}
  <2>1. CASE stage[t] = "ran"
    BY Zenon, <2>1 DEF CheckInv, Results, AllOk
  <2>2. CASE stage[t] # "ran"
    BY Zenon, <2>2 DEF CheckInv, Results, Placed, AllOk, InCritSect
  <2> QED
    BY Zenon, <2>1, <2>2
<1>9. ~AllOk(t) => added \cap Bad # {}
  BY Zenon DEF CheckInv, Results, AllOk
<1> QED
  BY Zenon, <1>5, <1>6, <1>7, <1>8, <1>9

-----------------------------------------------------------------------------
\* The steps of Loop under the lock: what is pending afterwards is what was
\* pending without the batch just finished.
LEMMA LoopStep ==
    ASSUME CheckInv, NEW t \in CheckThread, InCritSect(t),
           NEW cs \in SUBSET queue, NEW where \in {"out", "wait", "run"},
           cs # {} <=> where = "run",
           where = "out" => t # Master /\ requestStop,
           requestStop => where = "out",
           queue' = queue \ cs, batch' = [batch EXCEPT ![t] = cs],
           nTodo' = Todo(t), fAllOk' = AllOk(t), stage' = AtAfter(t, where),
           fOk' = IF where = "run" THEN [fOk EXCEPT ![t] = AllOk(t)] ELSE fOk,
           UNCHANGED <<requestStop, added, verdict>>
    PROVE  CheckInv'
<1> USE DEF CheckThread
<1>1. /\ stage'[t] = where
      /\ \A u \in CheckThread : u # t => stage'[u] = stage[u] \/ (u = Master /\ stage[u] = "wait" /\ stage'[u] = "woken")
  BY Zenon DEF AtAfter, TellsMaster
<1>2. batch'[t] = cs /\ \A u \in CheckThread : u # t => batch'[u] = batch[u]
  BY Zenon DEF CheckInv, Types
<1>3. Pending' = Pending \ batch[t]
  <2>1. ASSUME NEW c \in Check PROVE c \in Pending' <=> c \in Pending /\ c \notin batch[t]
    BY Zenon, <1>2 DEF CheckInv, Placed, Pending
  <2> QED
    BY Zenon, <2>1 DEF Pending
<1>4. Types'
  <2>1. stage' \in [CheckThread -> Stages]
    BY Zenon DEF AtAfter, CheckInv, Types, Stages
  <2>2. fOk' \in [CheckThread -> BOOLEAN]
    BY Zenon, CleanUp DEF CheckInv, Types
  <2>3. batch' \in [CheckThread -> SUBSET Check] /\ queue' \in SUBSET Check
    BY Zenon DEF CheckInv, Types
  <2> QED
    BY Zenon, <2>1, <2>2, <2>3, CleanUp DEF CheckInv, Types
<1>5. Placed'
  <2>1. \A u \in CheckThread : batch'[u] # {} <=> stage'[u] \in {"run", "ran"}
    BY Zenon, <1>1, <1>2 DEF CheckInv, Placed
  <2>2. \A u \in CheckThread : batch'[u] \cap queue' = {}
    BY Zenon, <1>2 DEF CheckInv, Placed
  <2>3. \A u, v \in CheckThread : u # v => batch'[u] \cap batch'[v] = {}
    BY Zenon, <1>2 DEF CheckInv, Placed
  <2>4. nTodo' = Cardinality(Pending')
    BY Zenon, <1>3, CleanUp
  <2> QED
    BY Zenon, <1>3, <2>1, <2>2, <2>3, <2>4 DEF CheckInv, Placed
<1>6. (stage[Master] = "returned") = (stage'[Master] = "returned")
  BY Zenon, <1>1 DEF InCritSect
<1>7. Results'
  <2>1. stage'[Master] # "returned" /\ fAllOk' => (added' \ Pending') \cap Bad = {}
    BY Zenon, <1>3, <1>6, CleanUp
  <2>2. ~fAllOk' => added' \cap Bad # {}
    BY Zenon, CleanUp
  <2>3. \A u \in CheckThread : stage'[u] = "ran" /\ fOk'[u] => batch'[u] \cap Bad = {}
    BY Zenon, <1>1, <1>2 DEF CheckInv, Results, Types
  <2>4. \A u \in CheckThread : stage'[u] \in {"run", "ran"} /\ ~fOk'[u] => added' \cap Bad # {}
    <3> SUFFICES ASSUME NEW u \in CheckThread, stage'[u] \in {"run", "ran"}, ~fOk'[u]
                 PROVE  added \cap Bad # {}
      BY Zenon
    <3>1. CASE u = t
      <4>1. fOk'[t] = AllOk(t)
        BY Zenon, <1>1, <3>1 DEF CheckInv, Types
      <4> QED
        BY Zenon, <3>1, <4>1, CleanUp
    <3>2. CASE u # t
      <4>1. stage[u] \in {"run", "ran"} /\ fOk'[u] = fOk[u]
        BY Zenon, <1>1, <3>2 DEF CheckInv, Types
      <4> QED
        BY Zenon, <4>1 DEF CheckInv, Results
    <3> QED
      BY Zenon, <3>1, <3>2
  <2> QED
    BY Zenon, <2>1, <2>2, <2>3, <2>4 DEF Results
<1>8. Phases'
  <2>1. stage'[Master] = "returned" => Pending' = {} /\ fAllOk'
    <3> SUFFICES ASSUME stage'[Master] = "returned" PROVE Pending' = {} /\ fAllOk'
      BY Zenon
    <3>1. Pending = {} /\ fAllOk
      BY Zenon, <1>6 DEF CheckInv, Phases
    <3>2. batch[t] = {}
      BY Zenon, <3>1 DEF CheckInv, Types, Pending
    <3>3. stage[t] # "ran"
      BY Zenon, <3>2 DEF CheckInv, Placed
    <3> QED
      BY Zenon, <1>3, <3>1, <3>3 DEF AllOk
  <2>2. requestStop' \/ (\E u \in Worker : stage'[u] = "out") => added' = {} /\ stage'[Master] = "out"
    BY Zenon, <1>1 DEF CheckInv, Phases, InCritSect
  <2> QED
    BY Zenon, <2>1, <2>2 DEF Phases
<1>9. VerdictExact'
  BY Zenon, <1>6 DEF CheckInv, VerdictExact
<1> QED
  BY Zenon, <1>4, <1>5, <1>7, <1>8, <1>9 DEF CheckInv

-----------------------------------------------------------------------------
\* The inductive invariant: no check is lost or counted twice, and the status
\* knows of every bad one that is finished.
LEMMA CheckInvHolds == CheckSpec => []CheckInv
<1>1. CheckInit => CheckInv
  <2> SUFFICES ASSUME CheckInit PROVE CheckInv
    BY Zenon
  <2>1. Pending = {}
    BY Zenon DEF CheckInit, Pending
  <2>2. Cardinality(Pending) = 0
    BY Zenon, <2>1, FS_EmptySet
  <2> QED
    BY Zenon, <2>1, <2>2, QueueAssumption
    DEF CheckInit, CheckInv, Types, Placed, Results, Phases, VerdictExact, Stages, CheckThread
<1>2. CheckInv /\ [CheckNext]_checkVars => CheckInv'
  <2> SUFFICES ASSUME CheckInv, [CheckNext]_checkVars PROVE CheckInv'
    BY Zenon
  <2>1. CASE StartWorkerThreads
    <3>1. Pending' = Pending
      BY Zenon, <2>1 DEF StartWorkerThreads, Pending
    <3>2. added = {}
      BY Zenon, <2>1, QueueAssumption DEF StartWorkerThreads, CheckInv, Phases
    <3> QED
      BY Zenon, <2>1, <3>1, <3>2, QueueAssumption
      DEF StartWorkerThreads, CheckInv, Types, Placed, Results, Phases, VerdictExact, Stages, CheckThread
  <2>2. ASSUME NEW cs \in SUBSET Check, Add(cs) PROVE CheckInv'
    <3>1. Pending' = Pending \cup cs
      BY Zenon, <2>2 DEF Add, Pending, local
    <3>2. Pending \cap cs = {}
      BY Zenon, <2>2 DEF Add, CheckInv, Placed
    <3>3. Cardinality(Pending \cup cs) = Cardinality(Pending) + Cardinality(cs)
      BY Zenon, <3>2, QueueAssumption, FS_Subset, DisjointUnion DEF Pending
    <3> QED
      BY Zenon, <2>2, <3>1, <3>2, <3>3
      DEF Add, local, CheckInv, Types, Placed, Results, Phases, VerdictExact, Pending
  <2>3. CASE Notify
    <3>1. Pending' = Pending
      BY Zenon, <2>3 DEF Notify, Pending, shared
    <3>2. \A t \in CheckThread : stage'[t] = stage[t] \/ (stage[t] = "wait" /\ stage'[t] = "woken")
      BY Zenon, <2>3 DEF Notify, Wake, Sleeping, CheckInv, Types
    <3> QED
      BY <2>3, <3>1, <3>2 
      DEF Notify, shared, CheckInv, Types, Placed, Results, Phases, VerdictExact, Stages, CheckThread, Wake, Sleeping
  <2>4. CASE Wait
    BY Zenon, <2>4
    DEF Wait, shared, CheckInv, Types, Placed, Results, Phases, VerdictExact, Stages, CheckThread, Pending
  <2>5. CASE NextBlock
    BY <2>5
    DEF NextBlock, shared, CheckInv, Types, Placed, Results, Phases, VerdictExact, Stages, CheckThread, Pending
  <2>6. CASE StopWorkerThreads
    BY Zenon, <2>6
    DEF StopWorkerThreads, shared, CheckInv, Types, Placed, Results, Phases, VerdictExact, Stages, CheckThread, Pending,
        Wake, Sleeping
  <2>7. CASE Joined
    BY Zenon, <2>7
    DEF Joined, shared, local, CheckInv, Types, Placed, Results, Phases, VerdictExact, Pending
  <2>8. CASE Return
    <3> DEFINE left == Pending \ batch[Master]
    <3>1. Master \in CheckThread /\ left = {} /\ queue = {} /\ AllOk(Master) \in BOOLEAN
      BY Zenon, <2>8, CleanUp DEF Return, CheckThread
    <3>2. /\ stage'[Master] = "returned" /\ \A u \in CheckThread : u # Master => stage'[u] = stage[u]
          /\ batch'[Master] = {} /\ \A u \in CheckThread : u # Master => batch'[u] = batch[u]
      BY Zenon, <2>8 DEF Return, AtAfter, TellsMaster, CheckThread, CheckInv, Types
    <3>3. Pending' = {}
      BY Zenon, <2>8, <3>1, <3>2 DEF Return, Pending, CheckInv, Types, Placed
    <3>4. Cardinality(Pending') = 0 /\ nTodo' = 0
      BY Zenon, <2>8, <3>3, FS_EmptySet DEF Return
    <3>5. Types'
      BY Zenon, <2>8 DEF Return, AtAfter, CheckInv, Types, Stages, CheckThread
    <3>6. verdict' = (added' \cap Bad = {})
      <4>1. stage[Master] # "returned"
        BY Zenon, <2>8 DEF Return, InCritSect
      <4>2. (AllOk(Master) => added \cap Bad = {}) /\ (~AllOk(Master) => added \cap Bad # {})
        BY Zenon, <2>8, <3>1, <4>1, CleanUp DEF Return
      <4>3. verdict' = AllOk(Master) /\ added' = added
        BY Zenon, <2>8 DEF Return
      <4> QED
        BY Zenon, <3>1, <4>2, <4>3
    <3>7. \A u \in CheckThread : batch'[u] = {} /\ stage'[u] \notin {"run", "ran"}
      BY <3>2, <3>3, <3>5 DEF Pending, CheckInv, Placed, Types
    <3>8. Placed'
      BY Zenon, <2>8, <3>3, <3>4, <3>7 DEF Placed, Return
    <3>9. Results'
      BY Zenon, <2>8, <3>2, <3>7 DEF Results, Return
    <3>10. Phases'
      BY Zenon, <2>8, <3>2, <3>3, QueueAssumption DEF Phases, Return, CheckInv, InCritSect, CheckThread
    <3> QED
      BY Zenon, <3>5, <3>6, <3>8, <3>9, <3>10 DEF CheckInv, VerdictExact
  <2>9. ASSUME NEW t \in CheckThread, Sleep(t) PROVE CheckInv'
    <3>1. /\ InCritSect(t) /\ ~requestStop
          /\ queue' = queue \ {} /\ batch' = [batch EXCEPT ![t] = {}]
          /\ nTodo' = Todo(t) /\ fAllOk' = AllOk(t) /\ stage' = AtAfter(t, "wait")
          /\ fOk' = fOk /\ UNCHANGED <<requestStop, added, verdict>>
      BY Zenon, <2>9 DEF Sleep
    <3> QED
      BY Zenon, <3>1, LoopStep
  <2>10. ASSUME NEW t \in CheckThread, Stop(t) PROVE CheckInv'
    <3>1. /\ InCritSect(t) /\ t # Master /\ requestStop
          /\ queue' = queue \ {} /\ batch' = [batch EXCEPT ![t] = {}]
          /\ nTodo' = Todo(t) /\ fAllOk' = AllOk(t) /\ stage' = AtAfter(t, "out")
          /\ fOk' = fOk /\ UNCHANGED <<requestStop, added, verdict>>
      BY Zenon, <2>10 DEF Stop
    <3> QED
      BY Zenon, <3>1, LoopStep
  <2>11. ASSUME NEW t \in CheckThread, NEW cs \in SUBSET queue, Take(t, cs) PROVE CheckInv'
    <3>1. /\ InCritSect(t) /\ ~requestStop
          /\ queue' = queue \ cs /\ batch' = [batch EXCEPT ![t] = cs]
          /\ nTodo' = Todo(t) /\ fAllOk' = AllOk(t) /\ stage' = AtAfter(t, "run")
          /\ fOk' = [fOk EXCEPT ![t] = AllOk(t)] /\ UNCHANGED <<requestStop, added, verdict>>
      BY Zenon, <2>11 DEF Take
    <3>2. cs # {}
      <4>1. Cardinality(cs) # 0
        BY <2>11 DEF Take, NumNow
      <4> QED
        BY Zenon, <4>1, FS_EmptySet
    <3> QED
      BY Zenon, <3>1, <3>2, LoopStep
  <2>12. ASSUME NEW t \in CheckThread, Execute(t) PROVE CheckInv'
    BY SMTT(60), <2>12 DEF Execute, shared, CheckInv, Types, Placed, Results, Phases, VerdictExact, Stages, CheckThread, Pending
  <2>13. CASE UNCHANGED checkVars
    BY Zenon, <2>13
    DEF checkVars, shared, local, CheckInv, Types, Placed, Results, Phases, VerdictExact, Pending
  <2> QED
    BY Zenon, <2>1, <2>2, <2>3, <2>4, <2>5, <2>6, <2>7, <2>8, <2>9, <2>10, <2>11, <2>12, <2>13 DEF CheckNext, Loop
<1> QED
  BY <1>1, <1>2, PTL DEF CheckSpec

\* Wait returns true exactly when every check of the block is good, for any
\* number of worker threads, checks and any batch size.
THEOREM VerdictCorrect == CheckSpec => []VerdictExact
<1>1. CheckInv => VerdictExact
  BY Zenon DEF CheckInv
<1> QED
  BY <1>1, CheckInvHolds, PTL


-----------------------------------------------------------------------------
(* The validation interface's queue.                                       *)

Places == {"idle", "maybe", "schedule", "notify", "process", "callback", "raii", "top", "wait",
           "until_now", "until_later", "repeat", "ended", "join", "flush", "empty", "drain",
           "finished"}

Holds(t) == at[t] \in {"callback", "raii"}

SerialInv ==
    /\ pending \in Seq(Callback)
    /\ ready \in Seq({"process", "repeat"})
    /\ running \in BOOLEAN
    /\ at \in [Thread -> Places]
    /\ callback \in [Thread -> Callback \cup {None}]
    /\ \A t \in Thread : Holds(t) => running
    /\ \A t, u \in Thread : Holds(t) /\ Holds(u) => t = u
    /\ \A t \in Thread : at[t] = "callback" => callback[t] \in Callback

Cur == IF Running = {} THEN None ELSE callback[CHOOSE t \in Running : TRUE]

\* A step of a thread that neither takes nor ends a callback.
Quiet ==
    /\ \A t \in Thread : (Holds(t)' <=> Holds(t)) /\ (at[t] = "callback" <=> at'[t] = "callback")
    /\ at' \in [Thread -> Places]
    /\ UNCHANGED <<running, callback>>

-----------------------------------------------------------------------------
\* The invariant is about the callback taken alone.
LEMMA QuietInvariant ==
    ASSUME SerialInv, Quiet, pending' \in Seq(Callback), ready' \in Seq({"process", "repeat"})
    PROVE  SerialInv'
BY Zenon DEF SerialInv, Quiet, Holds

\* ... and so is what the abstract specification sees running.
LEMMA QuietCurrent ==
    ASSUME Quiet PROVE Cur' = Cur
<1>1. Running' = Running
  BY Zenon DEF Quiet, Running
<1> QED
  BY <1>1 DEF Cur, Quiet

\* While a thread has the callback, that is the one that runs.
LEMMA CurrentIs ==
    ASSUME SerialInv, NEW t \in Thread, at[t] = "callback" PROVE Cur = callback[t] /\ Cur # None
<1>1. Running = {t}
  BY Zenon DEF SerialInv, Running, Holds
<1>2. (CHOOSE u \in Running : TRUE) = t
  BY Zenon, <1>1
<1> QED
  BY Zenon, <1>1, <1>2, ThreadAssumption DEF Cur, SerialInv

\* While nobody is inside a callback, the mapped current callback is None.
LEMMA NoneCurrent ==
    ASSUME \A t \in Thread : at[t] # "callback" PROVE Cur = None
BY Zenon DEF Cur, Running

-----------------------------------------------------------------------------
QuietStep ==
    \/ \E t \in Thread : MaybeScheduleProcessQueue(t) \/ Schedule(t) \/ NotifyOne(t)
    \/ \E s \in Service : ServiceStep(s)
    \/ TimerDue \/ StopScheduler
    \/ Join \/ NothingFlushed \/ EmptyQueue \/ ShouldContinue
    \/ UNCHANGED vars

\* Steps other than adding, taking and ending a callback are quiet.
LEMMA QuietSteps ==
    ASSUME SerialInv, QuietStep
    PROVE  Quiet /\ UNCHANGED <<pending, done>> /\ ready' \in Seq({"process", "repeat"})
<1> USE DEF SerialInv, Quiet, Holds, Back, Thread, tasks, Places
<1>1. ASSUME NEW t \in Thread, MaybeScheduleProcessQueue(t) \/ Schedule(t)
      PROVE  Quiet /\ UNCHANGED <<pending, done>> /\ ready' \in Seq({"process", "repeat"})
  <2>1. Append(ready, "process") \in Seq({"process", "repeat"})
    OBVIOUS
  <2>2. CASE MaybeScheduleProcessQueue(t)
    BY Zenon, <2>2 DEF MaybeScheduleProcessQueue
  <2>3. CASE Schedule(t)
    BY Zenon, <2>1, <2>3 DEF Schedule
  <2> QED
    BY Zenon, <1>1, <2>2, <2>3
<1>2. ASSUME NEW t \in Thread, NotifyOne(t)
      PROVE  Quiet /\ UNCHANGED <<pending, done>> /\ ready' \in Seq({"process", "repeat"})
  BY Zenon, <1>2 DEF NotifyOne, Waiting
<1>3. ASSUME NEW s \in Service, ServiceTop(s) \/ Repeat(s)
      PROVE  Quiet /\ UNCHANGED <<pending, done>> /\ ready' \in Seq({"process", "repeat"})
  BY Zenon, <1>3 DEF ServiceTop, Repeat
<1>4. ASSUME NEW s \in Service, TakeTask(s)
      PROVE  Quiet /\ UNCHANGED <<pending, done>> /\ ready' \in Seq({"process", "repeat"})
  <2>1. ready # <<>> => Head(ready) \in {"process", "repeat"} /\ Tail(ready) \in Seq({"process", "repeat"})
    OBVIOUS
  <2> QED
    BY Zenon, <1>4, <2>1 DEF TakeTask, TimedOut
<1>5. CASE TimerDue
  BY <1>5 DEF TimerDue
<1>6. CASE StopScheduler
  BY Zenon, <1>6 DEF StopScheduler, Waiting
<1>7. CASE Join \/ NothingFlushed \/ EmptyQueue \/ ShouldContinue
  BY Zenon, <1>7 DEF Join, NothingFlushed, EmptyQueue, ShouldContinue
<1>8. CASE UNCHANGED vars
  BY Zenon, <1>8 DEF vars
<1> QED
  BY Zenon, <1>1, <1>2, <1>3, <1>4, <1>5, <1>6, <1>7, <1>8 DEF QuietStep, ServiceStep

\* The main thread and those that call AddToProcessQueue are threads.
LEMMA MainThread == Main \in Thread /\ Producer \subseteq Thread
BY Zenon DEF Thread

\* One callback at a time: m_are_callbacks_running is a lock.
LEMMA SerialInvHolds == Spec => []SerialInv
<1>1. Init => SerialInv
  <2> SUFFICES ASSUME Init PROVE SerialInv
    BY Zenon
  <2>1. pending \in Seq(Callback) /\ ready \in Seq({"process", "repeat"})
    BY DEF Init
  <2>2. at \in [Thread -> Places] /\ \A t \in Thread : at[t] \in {"top", "idle"}
    BY Zenon DEF Init, Places
  <2> QED
    BY Zenon, <2>1, <2>2 DEF Init, SerialInv, Holds
<1>2. SerialInv /\ [Next]_vars => SerialInv'
  <2> SUFFICES ASSUME SerialInv, [Next]_vars PROVE SerialInv'
    BY Zenon
  <2>1. ASSUME NEW t \in Thread, NEW c \in Callback, AddToProcessQueue(t, c) PROVE SerialInv'
    <3>1. Quiet
      BY Zenon, <2>1 DEF AddToProcessQueue, MayAdd, Quiet, Holds, SerialInv, Places
    <3>2. pending' \in Seq(Callback) /\ ready' \in Seq({"process", "repeat"})
      BY <2>1 DEF AddToProcessQueue, SerialInv, tasks
    <3> QED
      BY Zenon, <3>1, <3>2, QuietInvariant
  <2>2. ASSUME NEW t \in Thread, ProcessQueue(t) PROVE SerialInv'
    <3>1. CASE MayProcess
      <4>1. Head(pending) \in Callback /\ Tail(pending) \in Seq(Callback)
        BY <3>1 DEF MayProcess, SerialInv
      <4> QED
        BY Zenon, <2>2, <3>1, <4>1 DEF ProcessQueue, MayProcess, SerialInv, Holds, tasks, Places
    <3>2. CASE ~MayProcess
      BY <2>2, <3>2 DEF ProcessQueue, SerialInv, Holds, tasks, Back, Places
    <3> QED
      BY Zenon, <3>1, <3>2
  <2>3. ASSUME NEW t \in Thread, RunCallback(t) \/ CallbacksNotRunning(t) PROVE SerialInv'
    BY Zenon, <2>3 DEF RunCallback, CallbacksNotRunning, SerialInv, Holds, tasks, Places
  <2>4. CASE QuietStep
    BY Zenon, <2>4, QuietSteps, QuietInvariant DEF SerialInv
  <2> QED
    BY Zenon, <2>1, <2>2, <2>3, <2>4, MainThread
    DEF Next, ClientStep, ShutdownStep, ForceFlush, QuietStep
<1> QED
  BY <1>1, <1>2, PTL DEF Spec

-----------------------------------------------------------------------------
\* SingleThreadedSchedulerClient on any number of threads implements
\* callbacks that are run in order, one after the other.
THEOREM SerialCorrect == Spec => ImplementsSerial
<1>1. Init => Serial!Init
  <2> SUFFICES ASSUME Init PROVE Serial!Init
    BY Zenon
  <2>1. Cur = None
    BY Zenon, NoneCurrent DEF Init
  <2> QED
    BY Zenon, <2>1 DEF Init, Serial!Init, Cur
<1>2. SerialInv /\ SerialInv' /\ [Next]_vars => [Serial!Next]_(Serial!vars)
  <2> SUFFICES ASSUME SerialInv, SerialInv', [Next]_vars
               PROVE  Serial!Next \/ UNCHANGED <<pending, Cur, done>>
    BY Zenon DEF Serial!vars, Cur
  <2>1. ASSUME NEW t \in Thread, NEW c \in Callback, AddToProcessQueue(t, c) PROVE Serial!Next
    <3>1. Quiet
      BY Zenon, <2>1 DEF AddToProcessQueue, MayAdd, Quiet, Holds, SerialInv, Places
    <3>2. Cur' = Cur
      BY Zenon, <3>1, QuietCurrent
    <3>3. Serial!Add(c)
      BY Zenon, <2>1, <3>2 DEF AddToProcessQueue, Serial!Add, Cur
    <3> QED
      BY Zenon, <3>3 DEF Serial!Next
  <2>2. ASSUME NEW t \in Thread, ProcessQueue(t)
        PROVE  Serial!Next \/ UNCHANGED <<pending, Cur, done>>
    <3>1. CASE MayProcess
      <4>1. \A u \in Thread : at[u] # "callback"
        BY Zenon, <3>1 DEF MayProcess, SerialInv, Holds
      <4>2. Cur = None
        BY Zenon, <4>1, NoneCurrent
      <4>3. at'[t] = "callback" /\ callback'[t] = Head(pending)
        BY Zenon, <2>2, <3>1 DEF ProcessQueue, SerialInv
      <4>4. Cur' = callback'[t]
        <5>1. Running' = {t}
          BY Zenon, <4>3 DEF SerialInv, Running, Holds
        <5> QED
          BY Zenon, <5>1 DEF Cur
      <4>5. Serial!Begin
        BY Zenon, <2>2, <3>1, <4>2, <4>3, <4>4 DEF ProcessQueue, MayProcess, Serial!Begin, Cur
      <4> QED
        BY Zenon, <4>5 DEF Serial!Next
    <3>2. CASE ~MayProcess
      <4>1. Quiet
        BY Zenon, <2>2, <3>2 DEF ProcessQueue, Quiet, Holds, SerialInv, Back, Places
      <4> QED
        BY Zenon, <2>2, <3>2, <4>1, QuietCurrent DEF ProcessQueue
    <3> QED
      BY Zenon, <3>1, <3>2
  <2>3. ASSUME NEW t \in Thread, RunCallback(t) PROVE Serial!Next
    <3>1. Cur = callback[t] /\ Cur # None
      BY Zenon, <2>3, CurrentIs DEF RunCallback
    <3>2. \A u \in Thread : at'[u] # "callback"
      BY Zenon, <2>3 DEF RunCallback, SerialInv, Holds
    <3>3. Cur' = None
      BY Zenon, <3>2 DEF Cur, Running
    <3>4. Serial!End
      BY Zenon, <2>3, <3>1, <3>3 DEF RunCallback, Serial!End, Cur
    <3> QED
      BY Zenon, <3>4 DEF Serial!Next
  <2>4. ASSUME NEW t \in Thread, CallbacksNotRunning(t) PROVE UNCHANGED <<pending, Cur, done>>
    <3>1. Running' = Running
      BY Zenon, <2>4 DEF CallbacksNotRunning, Running, SerialInv
    <3> QED
      BY <2>4, <3>1 DEF CallbacksNotRunning, Cur
  <2>5. CASE QuietStep
    BY Zenon, <2>5, QuietSteps, QuietCurrent
  <2> QED
    BY Zenon, <2>1, <2>2, <2>3, <2>4, <2>5, MainThread
    DEF Next, ClientStep, ShutdownStep, ForceFlush, QuietStep
<1> QED
  BY <1>1, <1>2, SerialInvHolds, PTL DEF Spec, ImplementsSerial, Serial!Spec

==============================================================================
