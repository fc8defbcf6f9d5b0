------------------------- MODULE JobLifecycleProofs -------------------------
(***************************************************************************)
(* JobRunner implements JobLifecycle, for every set of jobs and every      *)
(* value of its constants: under the inductive invariant each step of the  *)
(* job runner is one step of the line of jobs, or none.                    *)
(***************************************************************************)
EXTENDS JobRunnerProofs

\* The line, the active and the ended jobs stay as they are when the queue
\* and every status do.
LEMMA LifecycleStutter ==
  ASSUME UNCHANGED <<status, job_queue>>
  PROVE  UNCHANGED <<job_queue, Active, Ended>>
BY DEF Active, Ended, Waiting

\* A job that is active is given a terminal status: it ends.
LEMMA ActiveEnds ==
  ASSUME TypeOK, QueueInv, NEW j \in Active, NEW s \in Terminal,
         status' = [status EXCEPT ![j] = s], job_queue' = job_queue
  PROVE  Lifecycle!End(j)
<1>1. j \in Jobs /\ status[j] \in {"RUNNING", "STARTING"}
  BY DEF Active
<1>2. j \notin Waiting /\ Waiting' = Waiting
  BY <1>1 DEF QueueInv, QueueComplete, Waiting
<1>3. \A k \in Jobs : status'[k] = IF k = j THEN s ELSE status[k]
  BY <1>1 DEF TypeOK
<1>4. Active' = Active \ {j}
  BY <1>1, <1>3 DEF Active, Terminal
<1>5. Ended' = Ended \cup {j}
  BY <1>1, <1>2, <1>3 DEF Ended
<1> QED
  BY <1>4, <1>5 DEF Lifecycle!End

\* Every step of the job runner, seen as a step of the line of jobs.
LEMMA LifecycleStep ==
  IInv /\ [Next]_vars
    => [Lifecycle!Next]_<<job_queue, Active, Ended>>
<1> SUFFICES ASSUME IInv, [Next]_vars
             PROVE Lifecycle!Next \/ UNCHANGED <<job_queue, Active, Ended>>
  OBVIOUS
<1> DEFINE Goal == Lifecycle!Next \/ UNCHANGED <<job_queue, Active, Ended>>
<1>0. TypeOK /\ PhaseInv /\ CountInv /\ QueueInv /\ ScanInv
  BY DEF IInv
<1>1. ASSUME NEW j \in Jobs, submit_job(j) PROVE Goal
  <2>1. j \notin Waiting /\ status[j] = "ABSENT"
    BY <1>0, <1>1 DEF submit_job, QueueInv, QueueComplete
  <2>2. Waiting' = Waiting \cup {j} /\ job_queue' = Append(job_queue, j)
    BY <1>0, <1>1, <2>1, PushQueue DEF submit_job
  <2>3. \A k \in Jobs : status'[k] = IF k = j THEN "QUEUED" ELSE status[k]
    BY <1>0, <1>1 DEF submit_job, TypeOK
  <2>4. Active' = Active /\ Ended' = Ended
    BY <2>1, <2>2, <2>3 DEF Active, Ended, Terminal
  <2>5. j \notin Active \cup Ended /\ ~Lifecycle!InLine(j)
    BY <2>1 DEF Active, Ended, Terminal, Waiting, Lifecycle!InLine
  <2> QED
    BY <2>2, <2>4, <2>5 DEF Lifecycle!Next, Lifecycle!Submit
<1>2. ASSUME NEW j \in Jobs, CancelQueued(j) PROVE Goal
  <2>1. job_queue' = job_queue /\ Waiting' = Waiting /\ j \in Waiting
    BY <1>0, <1>2 DEF CancelQueued, Waiting, QueueInv, QueueComplete, Queued
  <2>2. \A k \in Jobs : status'[k] = IF k = j THEN "CANCELLED" ELSE status[k]
    BY <1>0, <1>2 DEF CancelQueued, TypeOK
  <2> QED
    BY <1>2, <2>1, <2>2 DEF CancelQueued, Active, Ended, Terminal
<1>3. CASE CancelKill
  <2>1. job_queue' = job_queue /\ cur \in Active /\ "CANCELLED" \in Terminal
    BY <1>0, <1>3 DEF CancelKill, PhaseInv, TypeOK, Active, Terminal
  <2>2. CASE status' = status
    BY <2>1, <2>2, LifecycleStutter
  <2>3. CASE status' = [status EXCEPT ![cur] = "CANCELLED"]
    BY <1>0, <2>1, <2>3, ActiveEnds DEF Lifecycle!Next, Active
  <2> QED
    BY <1>3, <2>2, <2>3 DEF CancelKill
<1>4. CASE SpawnFork \/ SpawnFail
  <2> DEFINE j == Head(job_queue)
  <2>1. job_queue # <<>> /\ job_queue' = Tail(job_queue)
    BY <1>4 DEF SpawnFork, SpawnFail, MayStartNext, PopFront
  <2>2. j \in Jobs /\ j \in Waiting /\ Waiting' = Waiting \ {j}
    BY <1>0, <2>1, PopQueue
  <2>3. status[j] \in {"QUEUED", "CANCELLED"}
    BY <1>0, <2>2 DEF QueueInv, QueueComplete
  <2> HIDE DEF j
  <2>4. CASE SpawnFork
    <3>1. \A k \in Jobs : status'[k] = IF k = j THEN "STARTING" ELSE status[k]
      BY <1>0, <2>2, <2>4 DEF SpawnFork, TypeOK, j
    <3>2. Active' = Active \cup {j} /\ Ended' = Ended
      BY <2>2, <3>1 DEF Active, Ended, Terminal
    <3>3. Cardinality(Active) < MaxConcurrent
      <4>1. Cardinality(Active) \in Nat
        BY FiniteJobSets DEF Active
      <4> QED
        BY <1>0, <2>4, <4>1, BudgetAssumption
        DEF SpawnFork, MayStartNext, CountInv, TypeOK
    <3>4. Lifecycle!Cardinality(Active) = Cardinality(Active)
      BY DEF Lifecycle!Cardinality, Cardinality
    <3> QED
      BY <2>1, <3>2, <3>3, <3>4 DEF Lifecycle!Next, Lifecycle!Start, j
  <2>5. CASE SpawnFail
    <3>1. \A k \in Jobs : status'[k] = IF k = j THEN "FAILED" ELSE status[k]
      BY <1>0, <2>2, <2>5 DEF SpawnFail, TypeOK, j
    <3>2. Active' = Active /\ Ended' = Ended \cup {j}
      BY <2>2, <2>3, <3>1 DEF Active, Ended, Terminal
    <3> QED
      BY <2>1, <3>2 DEF Lifecycle!Next, Lifecycle!Fail, j
  <2> QED
    BY <1>4, <2>4, <2>5
<1>5. CASE SpawnObserve
  <2>1. /\ job_queue' = job_queue /\ Waiting' = Waiting
        /\ cur \in Jobs /\ status[cur] = "STARTING"
    BY <1>0, <1>5 DEF SpawnObserve, PhaseInv, TypeOK, Waiting
  <2>2. \A k \in Jobs : status'[k] = IF k = cur THEN "RUNNING" ELSE status[k]
    BY <1>0, <1>5 DEF SpawnObserve, TypeOK
  <2> QED
    BY <2>1, <2>2 DEF Active, Ended, Terminal
<1>6. ASSUME NEW j \in Jobs, ScanJob(j) PROVE Goal
  <2>1. j \in Active /\ job_queue' = job_queue
    BY <1>0, <1>6, ScannedIsRunning DEF ScanJob, Active
  <2>2. CASE status' = status
    BY <2>1, <2>2, LifecycleStutter
  <2>3. ASSUME NEW s \in {"COMPLETED", "FAILED", "TIMEOUT", "PROC_LIMIT"},
               status' = [status EXCEPT ![j] = s]
        PROVE Goal
    <3>1. s \in Terminal
      BY DEF Terminal
    <3> QED
      BY <1>0, <2>1, <2>3, <3>1, ActiveEnds DEF Lifecycle!Next
  <2> QED
    BY <1>0, <1>6, <2>2, <2>3, ScanStatus
<1>7. CASE UNCHANGED <<status, job_queue>>
  BY <1>7, LifecycleStutter
<1> QED
  BY <1>1, <1>2, <1>3, <1>4, <1>5, <1>6, <1>7
  DEF Next, Submit, Cancel, CancelTerm, Tick, TickBegin, StartDone, Scan,
      TickEnd, Os, ChildSetpgid, LeaderExit, KidFork, KidExit, osUnchanged,
      vars, jobVars

\* The job runner implements the line of jobs: submission order, one start
\* per job, at most max_concurrent_ places, and no return from the end.
THEOREM Refines == Spec => ImplementsLifecycle
<1>1. Init => Lifecycle!Init
  BY DEF Init, Lifecycle!Init, Active, Ended, Terminal
<1> QED
  BY <1>1, LifecycleStep, Inductive, PTL
  DEF Spec, ImplementsLifecycle, Lifecycle!Spec
=============================================================================
