--------------------------- MODULE JobRunnerProofs ---------------------------
(***************************************************************************)
(* The safety properties of JobRunner, for every set of jobs and every     *)
(* value of the budgets, limits and policy.  IInv (JobRunnerInv) is shown  *)
(* to be inductive, one lemma per conjunct and in each one step per        *)
(* action.                                                                 *)
(***************************************************************************)
EXTENDS JobRunnerInv, JobLogProofs, FiniteSetTheorems

-----------------------------------------------------------------------------
(* Facts about the operators.                                              *)

\* The set of active jobs, like every set of jobs, is finite.
LEMMA FiniteJobSets ==
  ASSUME NEW S, S \subseteq Jobs
  PROVE  IsFiniteSet(S) /\ Cardinality(S) \in Nat
BY JobsAssumption, FS_Subset, FS_CardinalityType

\* A set without new members is not larger.
LEMMA SmallerSet ==
  ASSUME NEW S, S \subseteq Jobs, NEW T, T \subseteq S
  PROVE  Cardinality(T) <= Cardinality(S)
BY FiniteJobSets, FS_Subset

\* A non-empty set of jobs has at least one member to divide by.
LEMMA PositiveCardinality ==
  ASSUME NEW S, S \subseteq Jobs, S # {}
  PROVE  Cardinality(S) \in Nat \ {0}
BY FiniteJobSets, FS_EmptySet

\* One read returns -1, 0 or at most Chunk bytes.
LEMMA ReadResultsBound ==
  ASSUME NEW j, NEW s, NEW n \in ReadResults(j, s)
  PROVE  n \in Int /\ n <= Chunk
BY BudgetAssumption DEF ReadResults

-----------------------------------------------------------------------------
(* Type correctness, with the part of PhaseInv it needs.                   *)

LEMMA TypeInit == Init => TypeOK
<1> SUFFICES ASSUME Init PROVE TypeOK
  OBVIOUS
<1>1. EmptyLog \in Log
  BY DEF EmptyLog, Log
<1>2. 0 \in 0..MaxTime /\ 0 \in 0..MaxKids
  BY BudgetAssumption
<1> QED
  BY <1>1, <1>2 DEF Init, TypeOK, JobStatus

LEMMA TypeStep == TypeOK /\ PhaseInv /\ [Next]_vars => TypeOK'
<1> SUFFICES ASSUME TypeOK, PhaseInv, [Next]_vars PROVE TypeOK'
  OBVIOUS
<1> USE DEF TypeOK, jobVars, tickVars, scanVars, osVars
<1>1. ASSUME NEW j \in Jobs, submit_job(j) PROVE TypeOK'
  <2>1. PICK r \in [Submitted \cup {j} -> 1..Cardinality(Submitted \cup {j})] :
          rank' = [k \in Jobs |-> IF k \in DOMAIN r THEN r[k] ELSE 0]
    BY <1>1 DEF submit_job
  <2>2. Cardinality(Submitted \cup {j}) \in Nat
    BY FiniteJobSets DEF Submitted
  <2>3. rank' \in [Jobs -> Nat]
    BY <2>1, <2>2, SMTT(30)
  <2>4. job_queue' \in Seq(Jobs)
    BY <1>1 DEF submit_job
  <2> QED
    BY <1>1, <2>3, <2>4 DEF submit_job, JobStatus
<1>2. ASSUME NEW j \in Jobs, CancelQueued(j) PROVE TypeOK'
  BY <1>2 DEF CancelQueued, JobStatus
<1>3. ASSUME NEW j \in Jobs, CancelTerm(j) PROVE TypeOK'
  BY <1>3 DEF CancelTerm, Sigterm, Hit
<1>4. CASE CancelKill
  <2>1. 0 \in 0..MaxKids
    BY BudgetAssumption
  <2> QED
    BY <1>4, <2>1 DEF CancelKill, JobStatus
<1>5. ASSUME NEW t \in 0..MaxTime, NEW m \in Loads, TickBegin(t, m) PROVE TypeOK'
  <2>1. Cardinality(Active) \in Nat /\ Active \subseteq Jobs
    BY FiniteJobSets DEF Active
  <2>2. /\ running' \in Nat /\ started' \in Nat /\ checked' \in Nat
        /\ pc' \in {"start", "scan", "idle"} /\ scan' \subseteq Jobs
    <3> DEFINE r == decide(Policy, m.cpu, MemPct(m), Cardinality(Active),
                           Cardinality(Queued))
    <3>1. CASE r.decision = "START_NOW"
      BY <1>5, <2>1, <3>1 DEF TickBegin
    <3>2. CASE r.decision # "START_NOW"
      BY <1>5, <2>1, <3>2 DEF TickBegin, BeginScan
    <3> QED
      BY <3>1, <3>2
  <2> QED
    BY <1>5, <2>2 DEF TickBegin
<1>6. CASE SpawnFork
  <2>1. Head(job_queue) \in Jobs /\ Tail(job_queue) \in Seq(Jobs)
    BY <1>6 DEF SpawnFork, MayStartNext
  <2> QED
    BY <1>6, <2>1 DEF PopFront, SpawnFork, JobStatus
<1>7. CASE SpawnFail
  <2> DEFINE j == Head(job_queue)
  <2>1. j \in Jobs /\ Tail(job_queue) \in Seq(Jobs)
    BY <1>7 DEF SpawnFail, MayStartNext
  <2>2. SetError(log[j]) \in Log
    BY <2>1 DEF Log, SetError
  <2>3. log' = [log EXCEPT ![j] = SetError(log[j])]
    BY <1>7 DEF SpawnFail
  <2>4. log' \in [Jobs -> Log]
    BY <2>1, <2>2, <2>3
  <2> QED
    BY <1>7, <2>1, <2>4, SMTT(30) DEF PopFront, SpawnFail, JobStatus
<1>8. CASE SpawnObserve
  BY <1>8 DEF SpawnObserve, CountStart, JobStatus
<1>9. CASE StartDone
  <2>1. Active \subseteq Jobs
    BY DEF Active
  <2> QED
    BY <1>9, <2>1 DEF StartDone, BeginScan
<1>10. ASSUME NEW j \in Jobs, ScanJob(j) PROVE TypeOK'
  <2>1. PICK n_out \in ReadResults(j, "out"), n_err \in ReadResults(j, "err") :
          \/ JobFinished(j, n_out, n_err)
          \/ enforce_job_timeout(j, n_out, n_err)
          \/ enforce_job_log_cap(j, n_out, n_err)
          \/ enforce_job_process_cap(j, n_out, n_err)
    BY <1>10 DEF ScanJob
  <2> DEFINE new == AppendReads(log[j], n_out, n_err)
  <2>2. new \in Log
    <3>1. n_out \in Int /\ n_err \in Int /\ n_out <= Chunk /\ n_err <= Chunk
      BY ReadResultsBound
    <3>2. log[j] \in Log /\ Chunk \in Int
      BY BudgetAssumption
    <3> QED
      BY <3>1, <3>2, AppendReadsBound
  <2>3. Truncate(new, Limits[j].max_log_bytes) \in Log
    <3>1. Limits[j].max_log_bytes \in Nat
      BY LimitsAssumption
    <3> QED
      BY <2>2, <3>1, TruncateBound
  <2>4. AfterEof(j, n_out, n_err) \subseteq {"out", "err", "out_w"}
    BY DEF AfterEof
  <2>5. /\ log' \in [Jobs -> Log]
        /\ status' \in [Jobs -> JobStatus \cup {"ABSENT"}]
        /\ proc' \in [Jobs -> {"none", "forked", "alive", "zombie", "reaped"}]
        /\ fds' \in [Jobs -> SUBSET {"out", "err", "out_w"}]
        /\ signalled' \subseteq {"job", "daemon", "stranger"}
    <3> HIDE DEF new
    <3>1. CASE JobFinished(j, n_out, n_err)
      BY <3>1, <2>2 DEF JobFinished, FdsAfterExit, JobStatus, new
    <3>2. CASE enforce_job_timeout(j, n_out, n_err)
      BY <3>2, <2>2, <2>4 DEF enforce_job_timeout, JobStatus, Sigterm, Hit, new
    <3>3. CASE enforce_job_log_cap(j, n_out, n_err)
      BY <3>3, <2>3, <2>4 DEF enforce_job_log_cap, new
    <3>4. CASE enforce_job_process_cap(j, n_out, n_err)
      BY <3>4, <2>2, <2>4 DEF enforce_job_process_cap, JobStatus, Sigterm, Hit,
                              new
    <3> QED
      BY <2>1, <3>1, <3>2, <3>3, <3>4
  <2> QED
    BY <1>10, <2>5 DEF ScanJob
<1>11. CASE TickEnd
  <2>1. Cardinality(scan) \in Nat \ {0}
    BY <1>11, PositiveCardinality DEF TickEnd, PhaseInv
  <2>2. scan_cursor' \in Nat
    BY <1>11, <2>1 DEF TickEnd, NextCursor
  <2> QED
    BY <1>11, <2>2 DEF TickEnd
<1>12. ASSUME NEW j \in Jobs,
              ChildSetpgid(j) \/ LeaderExit(j) \/ KidFork(j) \/ KidExit(j)
       PROVE TypeOK'
  <2> USE DEF osUnchanged
  <2>1. CASE ChildSetpgid(j)
    BY <2>1 DEF ChildSetpgid
  <2>2. CASE LeaderExit(j)
    BY <2>2 DEF LeaderExit
  <2>3. CASE KidFork(j)
    BY <2>3, BudgetAssumption, SMTT(30) DEF KidFork
  <2>4. CASE KidExit(j)
    BY <2>4, BudgetAssumption, SMTT(30) DEF KidExit
  <2> QED
    BY <1>12, <2>1, <2>2, <2>3, <2>4
<1>13. CASE UNCHANGED vars
  BY <1>13 DEF vars
<1> QED
  BY <1>1, <1>2, <1>3, <1>4, <1>5, <1>6, <1>7, <1>8, <1>9, <1>10, <1>11,
     <1>12, <1>13 DEF Next, Submit, Cancel, Tick, Scan, Os

-----------------------------------------------------------------------------
(* Where the holder of mutex_ is.                                          *)

\* Only ScanJob's four outcomes change the status of a scanned job, and none
\* of them to STARTING.
LEMMA ScanStatus ==
  ASSUME TypeOK, NEW j \in Jobs, ScanJob(j)
  PROVE  \/ status' = status
         \/ \E s \in {"COMPLETED", "FAILED", "TIMEOUT", "PROC_LIMIT"} :
              status' = [status EXCEPT ![j] = s]
BY DEF ScanJob, JobFinished, enforce_job_timeout, enforce_job_log_cap,
       enforce_job_process_cap

LEMMA PhaseStep == TypeOK /\ PhaseInv /\ [Next]_vars => PhaseInv'
<1> SUFFICES ASSUME TypeOK, PhaseInv, [Next]_vars PROVE PhaseInv'
  OBVIOUS
<1> USE DEF TypeOK, PhaseInv, jobVars, tickVars, scanVars, osVars
<1>1. ASSUME NEW j \in Jobs, submit_job(j) PROVE PhaseInv'
  BY <1>1 DEF submit_job
<1>2. ASSUME NEW j \in Jobs, CancelQueued(j) PROVE PhaseInv'
  BY <1>2 DEF CancelQueued
<1>3. ASSUME NEW j \in Jobs, CancelTerm(j) PROVE PhaseInv'
  BY <1>3 DEF Cancellable, CancelTerm
<1>4. CASE CancelKill
  BY <1>4 DEF CancelKill
<1>5. ASSUME NEW t \in 0..MaxTime, NEW m \in Loads, TickBegin(t, m)
      PROVE PhaseInv'
  <2>1. Cardinality(Active) \in Nat
    BY FiniteJobSets DEF Active
  <2> DEFINE r == decide(Policy, m.cpu, MemPct(m), Cardinality(Active),
                         Cardinality(Queued))
  <2>2. CASE r.decision = "START_NOW"
    BY <1>5, <2>2 DEF TickBegin
  <2>3. CASE r.decision # "START_NOW"
    BY <1>5, <2>1, <2>3 DEF TickBegin, BeginScan
  <2> QED
    BY <2>2, <2>3
<1>6. CASE SpawnFork
  <2>1. Head(job_queue) \in Jobs
    BY <1>6 DEF SpawnFork, MayStartNext
  <2> QED
    BY <1>6, <2>1 DEF SpawnFork
<1>7. CASE SpawnFail
  <2>1. Head(job_queue) \in Jobs
    BY <1>7 DEF SpawnFail, MayStartNext
  <2> QED
    BY <1>7, <2>1 DEF SpawnFail
<1>8. CASE SpawnObserve
  BY <1>8 DEF SpawnObserve, CountStart
<1>9. CASE StartDone
  <2>1. Cardinality(Active) \in Nat
    BY FiniteJobSets DEF Active
  <2> QED
    BY <1>9, <2>1 DEF StartDone, BeginScan
<1>10. ASSUME NEW j \in Jobs, ScanJob(j) PROVE PhaseInv'
  <2>1. /\ pc = "scan" /\ pc' = pc /\ scan' = scan /\ cur' = cur
        /\ checked' = checked + 1 /\ checked < Cardinality(scan)
    BY <1>10 DEF ScanJob, Turn
  <2>2. Cardinality(scan) \in Nat
    BY FiniteJobSets
  <2>3. \A k \in Jobs : status'[k] # "STARTING"
    BY <1>10, <2>1, ScanStatus
  <2> QED
    BY <2>1, <2>2, <2>3, SMTT(30)
<1>11. CASE TickEnd
  BY <1>11 DEF TickEnd
<1>12. ASSUME NEW j \in Jobs,
              ChildSetpgid(j) \/ LeaderExit(j) \/ KidFork(j) \/ KidExit(j)
       PROVE PhaseInv'
  BY <1>12 DEF ChildSetpgid, LeaderExit, KidFork, KidExit, osUnchanged
<1>13. CASE UNCHANGED vars
  BY <1>13 DEF vars
<1> QED
  BY <1>1, <1>2, <1>3, <1>4, <1>5, <1>6, <1>7, <1>8, <1>9, <1>10, <1>11,
     <1>12, <1>13 DEF Next, Submit, Cancel, Tick, Scan, Os

-----------------------------------------------------------------------------
(* The accounting of active jobs.                                          *)

\* decide admits a start only below max_running_jobs.
LEMMA StartNowBelowLimit ==
  ASSUME NEW cpu, NEW mem, NEW r \in Nat, NEW q \in Nat,
         decide(Policy, cpu, mem, r, q).decision = "START_NOW"
  PROVE  r < Policy.max_running_jobs
BY PolicyAssumption DEF decide, AtRunningLimit, Result, GovernorPolicy

LEMMA CountStep ==
  TypeOK /\ PhaseInv /\ CountInv /\ [Next]_vars => CountInv'
<1> SUFFICES ASSUME TypeOK, PhaseInv, CountInv, [Next]_vars PROVE CountInv'
  OBVIOUS
<1> DEFINE n == Cardinality(Active)
           limit == Policy.max_running_jobs
<1>0. /\ Active \subseteq Jobs /\ IsFiniteSet(Active) /\ n \in Nat
      /\ limit \in Nat
      /\ MaxConcurrent \in Nat /\ MaxStarts \in Nat
      /\ running \in Nat /\ started \in Nat
  BY FiniteJobSets, PolicyAssumption, BudgetAssumption DEF Active, TypeOK
\* A step that activates no job and keeps the loop's counters.
<1>a. ASSUME Active' \subseteq Active,
             \/ pc' = pc /\ UNCHANGED <<running, started>>
             \/ pc' \notin {"start", "observe"} /\ started' = 0
      PROVE CountInv'
  <2>1. n' \in Nat /\ n' <= n
    BY <1>a, <1>0, SmallerSet, FiniteJobSets
  <2> QED
    BY <1>a, <1>0, <2>1 DEF CountInv
<1>1. ASSUME NEW j \in Jobs, submit_job(j) PROVE CountInv'
  BY <1>1, <1>a DEF submit_job, Active, TypeOK, tickVars
<1>2. ASSUME NEW j \in Jobs, CancelQueued(j) PROVE CountInv'
  BY <1>2, <1>a DEF CancelQueued, Active, TypeOK, tickVars
<1>3. ASSUME NEW j \in Jobs, CancelTerm(j) PROVE CountInv'
  <2>1. Active' = Active /\ pc' = "cancel" /\ started = 0
    BY <1>3 DEF CancelTerm, Active, jobVars, CountInv
  <2> QED
    BY <1>3, <2>1, <1>a DEF CancelTerm, tickVars
<1>4. CASE CancelKill
  <2>1. Active' \subseteq Active
    BY <1>4 DEF CancelKill, Active, TypeOK
  <2>2. pc' \in {"dead", "idle"} /\ started = 0
    BY <1>4 DEF CancelKill, CountInv
  <2> QED
    BY <1>4, <2>1, <2>2, <1>a DEF CancelKill, tickVars
<1>5. ASSUME NEW t \in 0..MaxTime, NEW m \in Loads, TickBegin(t, m)
      PROVE CountInv'
  <2> DEFINE r == decide(Policy, m.cpu, MemPct(m), n, Cardinality(Queued))
  <2>1. Active' = Active
    BY <1>5 DEF TickBegin, Active, jobVars
  <2>2. started = 0 /\ started' = started
    BY <1>5 DEF TickBegin, CountInv
  <2>3. CASE r.decision = "START_NOW"
    <3>1. n < limit
      BY <2>3, <1>0, StartNowBelowLimit, FiniteJobSets DEF Queued
    <3>2. pc' = "start" /\ running' = n
      BY <1>5, <2>3 DEF TickBegin
    <3> QED
      BY <1>0, <2>1, <2>2, <3>1, <3>2 DEF CountInv
  <2>4. CASE r.decision # "START_NOW"
    BY <1>5, <2>1, <2>2, <2>4, <1>a DEF TickBegin, BeginScan
  <2> QED
    BY <2>3, <2>4
<1>6. CASE SpawnFork
  <2> DEFINE j == Head(job_queue)
  <2>1. /\ pc = "start" /\ pc' = "observe" /\ j \in Jobs
        /\ started < MaxStarts /\ running + started < MaxConcurrent
        /\ running' = running /\ started' = started
    BY <1>6 DEF SpawnFork, MayStartNext, TypeOK, tickVars
  <2>2. Active' \subseteq Active \cup {j}
    BY <1>6, <2>1 DEF SpawnFork, Active, TypeOK
  <2>3. n' \in Nat /\ n' <= n + 1
    <3>1. /\ IsFiniteSet(Active \cup {j})
          /\ Cardinality(Active \cup {j}) \in {n, n + 1}
      BY <1>0, FS_AddElement
    <3> QED
      BY <1>0, <2>2, <3>1, FS_Subset, FS_CardinalityType
  <2> QED
    BY <1>0, <2>1, <2>3 DEF CountInv
<1>7. CASE SpawnFail
  <2>1. Head(job_queue) \in Jobs
    BY <1>7 DEF SpawnFail, MayStartNext, TypeOK
  <2> QED
    BY <1>7, <2>1, <1>a DEF SpawnFail, Active, TypeOK, tickVars
<1>8. CASE SpawnObserve
  <2>1. /\ pc = "observe" /\ pc' = "start" /\ cur \in Jobs
        /\ status[cur] = "STARTING"
        /\ running' = running /\ started' = started + 1
    BY <1>8 DEF SpawnObserve, CountStart, PhaseInv, TypeOK
  <2>2. Active' = Active
    BY <1>8, <2>1 DEF SpawnObserve, CountStart, Active, TypeOK
  <2> QED
    BY <1>0, <2>1, <2>2 DEF CountInv
<1>9. CASE StartDone
  BY <1>9, <1>a DEF StartDone, BeginScan, Active, jobVars
<1>10. ASSUME NEW j \in Jobs, ScanJob(j) PROVE CountInv'
  <2>1. Active' \subseteq Active
    BY <1>10, ScanStatus DEF Active, TypeOK
  <2> QED
    BY <1>10, <2>1, <1>a DEF ScanJob, tickVars
<1>11. CASE TickEnd
  <2>1. Active' = Active /\ pc' = "idle" /\ started = 0
    BY <1>11 DEF TickEnd, Active, jobVars, CountInv
  <2> QED
    BY <1>11, <2>1, <1>a DEF TickEnd, tickVars
<1>12. ASSUME NEW j \in Jobs,
              ChildSetpgid(j) \/ LeaderExit(j) \/ KidFork(j) \/ KidExit(j)
       PROVE CountInv'
  BY <1>12, <1>a DEF ChildSetpgid, LeaderExit, KidFork, KidExit, osUnchanged,
                     Active, jobVars, tickVars
<1>13. CASE UNCHANGED vars
  BY <1>13, <1>a DEF vars, Active, jobVars, tickVars
<1> QED
  BY <1>1, <1>2, <1>3, <1>4, <1>5, <1>6, <1>7, <1>8, <1>9, <1>10, <1>11,
     <1>12, <1>13 DEF Next, Submit, Cancel, Tick, Scan, Os

-----------------------------------------------------------------------------
(* The round-robin index.                                                  *)

\* Two positions less than n apart differ modulo n.
LEMMA ModDistinct ==
  ASSUME NEW n \in Nat \ {0}, NEW a \in Nat, NEW c \in Nat, NEW d \in Nat,
         c < d, d < n
  PROVE  (a + c) % n # (a + d) % n
<1> SUFFICES ASSUME (a + c) % n = (a + d) % n PROVE FALSE
  OBVIOUS
<1> DEFINE p == (a + c) \div n
           q == (a + d) \div n
<1>1. /\ p \in Int /\ q \in Int
      /\ a + c = n * p + ((a + c) % n)
      /\ a + d = n * q + ((a + d) % n)
  OBVIOUS
<1> HIDE DEF p, q
<1>2. d - c = n * (q - p)
  BY <1>1
<1>3. n * (q - p) <= 0 \/ n * (q - p) >= n
  <2>1. CASE q - p <= 0
    BY <1>1, <2>1
  <2>2. CASE q - p >= 1
    BY <1>1, <2>2
  <2> QED
    BY <1>1, <2>1, <2>2
<1> QED
  BY <1>2, <1>3

\* The job whose turn it is has not been dealt with in this tick.
LEMMA ScannedIsRunning ==
  ASSUME TypeOK, PhaseInv, ScanInv, NEW j \in Jobs, Turn(j)
  PROVE  status[j] = "RUNNING"
<1> SUFFICES ASSUME status[j] # "RUNNING" PROVE FALSE
  OBVIOUS
<1> DEFINE n == Cardinality(scan)
<1>1. n \in Nat \ {0}
  BY PositiveCardinality DEF Turn, TypeOK
<1>2. PICK c \in 0..(checked - 1) : Index(j) = (scan_cursor + c) % n
  BY DEF ScanInv, Turn
<1>3. /\ checked \in Nat /\ scan_cursor \in Nat /\ checked < n
      /\ Index(j) = (scan_cursor + checked) % n
  BY DEF Turn, TypeOK
<1> HIDE DEF n
<1>4. c \in Nat /\ c < checked
  BY <1>3
<1> QED
  BY <1>1, <1>2, <1>3, <1>4, ModDistinct

LEMMA ScanStep ==
  TypeOK /\ PhaseInv /\ ScanInv /\ [Next]_vars => ScanInv'
<1> SUFFICES ASSUME TypeOK, PhaseInv, ScanInv, [Next]_vars PROVE ScanInv'
  OBVIOUS
\* A fresh list of active jobs: with no spawn under way all are RUNNING.
<1>a. ASSUME BeginScan, pc # "observe", status' = status PROVE ScanInv'
  BY <1>a DEF BeginScan, ScanInv, PhaseInv, Active
<1>1. ASSUME NEW j \in Jobs, ScanJob(j) PROVE ScanInv'
  <2>1. /\ Turn(j) /\ pc' = "scan" /\ scan' = scan /\ rank' = rank
        /\ scan_cursor' = scan_cursor /\ checked' = checked + 1
        /\ checked \in Nat
    BY <1>1 DEF ScanJob, Turn, TypeOK
  <2>2. \A k \in scan : k # j => status'[k] = status[k]
    <3>1. \/ status' = status
          \/ \E s \in {"COMPLETED", "FAILED", "TIMEOUT", "PROC_LIMIT"} :
               status' = [status EXCEPT ![j] = s]
      BY <1>1, ScanStatus
    <3> QED
      BY <3>1 DEF TypeOK
  <2>a. \A k \in scan : Index(k)' = Index(k)
    BY <2>1 DEF Index
  <2>3. SUFFICES ASSUME NEW k \in scan
                 PROVE  \/ status'[k] = "RUNNING"
                        \/ \E c \in 0..checked :
                             Index(k) = (scan_cursor + c) % Cardinality(scan)
    <3>1. (checked + 1) - 1 = checked
      BY <2>1
    <3> QED
      BY <2>1, <2>a, <3>1 DEF ScanInv
  <2>4. CASE k = j
    BY <2>1, <2>4 DEF Turn
  <2>5. CASE k # j
    <3>1. CASE status[k] = "RUNNING"
      BY <2>2, <2>5, <3>1
    <3>2. CASE status[k] # "RUNNING"
      <4>1. PICK c \in 0..(checked - 1) :
              Index(k) = (scan_cursor + c) % Cardinality(scan)
        BY <2>1, <3>2 DEF ScanInv, Turn
      <4>2. c \in 0..checked
        BY <2>1
      <4> QED
        BY <4>1, <4>2
    <3> QED
      BY <3>1, <3>2
  <2> QED
    BY <2>4, <2>5
<1>2. ASSUME NEW t \in 0..MaxTime, NEW m \in Loads, TickBegin(t, m)
      PROVE ScanInv'
  <2> DEFINE r == decide(Policy, m.cpu, MemPct(m), Cardinality(Active),
                         Cardinality(Queued))
  <2>1. CASE r.decision = "START_NOW"
    BY <1>2, <2>1 DEF TickBegin, ScanInv
  <2>2. CASE r.decision # "START_NOW"
    BY <1>2, <2>2, <1>a DEF TickBegin, jobVars
  <2> QED
    BY <2>1, <2>2
<1>3. CASE StartDone
  BY <1>3, <1>a DEF StartDone, jobVars
<1>4. CASE Submit \/ Cancel \/ CancelKill \/ SpawnFork \/ SpawnFail
           \/ SpawnObserve \/ TickEnd
  <2>1. pc' # "scan"
    BY <1>4 DEF Submit, submit_job, Cancel, CancelQueued, CancelTerm,
                CancelKill, SpawnFork, SpawnFail, SpawnObserve, CountStart, TickEnd
  <2> QED
    BY <2>1 DEF ScanInv
<1>5. CASE Os \/ UNCHANGED vars
  <2>1. UNCHANGED <<pc, status, scan, rank, scan_cursor, checked>>
    BY <1>5 DEF Os, ChildSetpgid, LeaderExit, KidFork, KidExit, osUnchanged,
                vars, jobVars, scanVars
  <2> QED
    BY <2>1 DEF ScanInv, Index
<1> QED
  BY <1>1, <1>2, <1>3, <1>4, <1>5 DEF Next, Tick, Scan

-----------------------------------------------------------------------------
(* The queue.                                                              *)

\* push at the back: one more waiting job, still no duplicates.
LEMMA PushQueue ==
  ASSUME TypeOK, QueueInv, NEW j \in Jobs, j \notin Waiting,
         job_queue' = Append(job_queue, j)
  PROVE  /\ Waiting' = Waiting \cup {j}
         /\ \A i, k \in DOMAIN job_queue' :
              job_queue'[i] = job_queue'[k] => i = k
<1> DEFINE n == Len(job_queue)
<1>1. /\ n \in Nat /\ DOMAIN job_queue = 1..n
      /\ DOMAIN job_queue' = 1..(n + 1)
      /\ job_queue'[n + 1] = j
      /\ \A i \in 1..n : job_queue'[i] = job_queue[i]
  BY DEF TypeOK
<1> HIDE DEF n
<1>2. Waiting' = Waiting \cup {j}
  BY <1>1 DEF Waiting
<1>3. \A i, k \in 1..n : job_queue[i] = job_queue[k] => i = k
  BY <1>1 DEF QueueInv, QueueComplete
<1>4. \A i \in 1..n : job_queue[i] # j
  BY <1>1 DEF Waiting
<1> QED
  BY <1>1, <1>2, <1>3, <1>4

\* front and pop: exactly the first job leaves.
LEMMA PopQueue ==
  ASSUME TypeOK, QueueInv, job_queue # <<>>, job_queue' = Tail(job_queue)
  PROVE  /\ Head(job_queue) \in Jobs /\ Head(job_queue) \in Waiting
         /\ Waiting' = Waiting \ {Head(job_queue)}
         /\ \A i, k \in DOMAIN job_queue' :
              job_queue'[i] = job_queue'[k] => i = k
<1> DEFINE n == Len(job_queue)
<1>1. /\ n \in Nat \ {0} /\ DOMAIN job_queue = 1..n
      /\ Head(job_queue) = job_queue[1] /\ Head(job_queue) \in Jobs
      /\ DOMAIN job_queue' = 1..(n - 1)
      /\ \A i \in 1..(n - 1) : job_queue'[i] = job_queue[i + 1]
  BY DEF TypeOK
<1> HIDE DEF n
<1>2. \A i, k \in 1..n : job_queue[i] = job_queue[k] => i = k
  BY <1>1 DEF QueueInv, QueueComplete
<1>3. Head(job_queue) \in Waiting
  BY <1>1 DEF Waiting
<1>4. \A i, k \in DOMAIN job_queue' : job_queue'[i] = job_queue'[k] => i = k
  BY <1>1, <1>2
<1>5. ASSUME NEW x \in Waiting \ {Head(job_queue)} PROVE x \in Waiting'
  <2>1. PICK i \in 1..n : x = job_queue[i]
    BY <1>1 DEF Waiting
  <2>2. i # 1
    BY <1>1, <1>5, <2>1
  <2>3. i - 1 \in 1..(n - 1) /\ job_queue'[i - 1] = x
    BY <1>1, <2>1, <2>2
  <2> QED
    BY <1>1, <2>3 DEF Waiting
<1>6. ASSUME NEW x \in Waiting' PROVE x \in Waiting \ {Head(job_queue)}
  <2>1. PICK i \in 1..(n - 1) : x = job_queue'[i]
    BY <1>1 DEF Waiting
  <2>2. i + 1 \in 1..n /\ 1 \in 1..n /\ i + 1 # 1 /\ x = job_queue[i + 1]
    BY <1>1, <2>1
  <2> QED
    BY <1>1, <1>2, <2>2 DEF Waiting
<1> QED
  BY <1>1, <1>3, <1>4, <1>5, <1>6

LEMMA QueueStep ==
  TypeOK /\ PhaseInv /\ JobInv /\ QueueInv /\ ScanInv /\ [Next]_vars
    => QueueInv'
<1> SUFFICES ASSUME TypeOK, PhaseInv, JobInv, QueueInv, ScanInv, [Next]_vars
             PROVE QueueInv'
  OBVIOUS
\* What a waiting job needs to stay as QueueInv says.
<1> DEFINE Fresh(j) == ~Ran(j) /\ Silent(j) /\ proc[j] = "none"
\* A step that leaves the queue alone, touches no waiting job except to
\* cancel it, and queues none.
<1>a. ASSUME job_queue' = job_queue, Queued' \subseteq Queued,
             \A j \in Waiting :
               /\ status'[j] \in {"QUEUED", "CANCELLED"}
               /\ UNCHANGED <<process_group[j], log[j], proc[j]>>
      PROVE QueueInv'
  <2>1. Waiting' = Waiting
    BY <1>a DEF Waiting
  <2> QED
    BY <1>a, <2>1 DEF QueueInv, QueueComplete, Ran, Silent
<1>b. \A j \in Waiting : j \in Jobs /\ status[j] \in {"QUEUED", "CANCELLED"}
                         /\ Fresh(j)
  BY SMTT(30) DEF QueueInv, QueueComplete, Waiting, TypeOK
<1>1. ASSUME NEW j \in Jobs, submit_job(j) PROVE QueueInv'
  <2>1. j \notin Waiting
    BY <1>1, <1>b DEF submit_job
  <2>2. /\ Waiting' = Waiting \cup {j}
        /\ \A i, k \in DOMAIN job_queue' :
             job_queue'[i] = job_queue'[k] => i = k
    BY <1>1, <2>1, PushQueue DEF submit_job
  <2>3. Fresh(j)
    BY <1>1 DEF submit_job, JobInv
  <2>4. UNCHANGED <<process_group, log, proc>>
    BY <1>1 DEF submit_job, osVars
  <2>5. \A k \in Waiting' :
          status'[k] \in {"QUEUED", "CANCELLED"} /\ Fresh(k)'
    BY <1>1, <1>b, <2>2, <2>3, <2>4 DEF submit_job, TypeOK, Ran, Silent
  <2>6. Queued' \subseteq Waiting'
    BY <1>1, <2>2 DEF submit_job, Queued, QueueInv, QueueComplete, TypeOK
  <2> QED
    BY <2>2, <2>5, <2>6 DEF QueueInv, QueueComplete
<1>2. ASSUME NEW j \in Jobs, CancelQueued(j) PROVE QueueInv'
  BY <1>2, <1>a, <1>b DEF CancelQueued, Queued, TypeOK, osVars
<1>3. ASSUME NEW j \in Jobs, CancelTerm(j) PROVE QueueInv'
  BY <1>3, <1>a, <1>b DEF CancelTerm, Queued, jobVars, osVars
<1>4. CASE CancelKill
  <2>1. cur \in Jobs /\ cur \notin Waiting
    BY <1>4, <1>b DEF CancelKill, PhaseInv, TypeOK
  <2> QED
    BY <1>4, <2>1, <1>a, <1>b DEF CancelKill, Queued, TypeOK
<1>5. ASSUME NEW j \in Jobs, SpawnFork \/ SpawnFail, j = Head(job_queue)
      PROVE QueueInv'
  <2>1. job_queue # <<>> /\ job_queue' = Tail(job_queue)
    BY <1>5 DEF SpawnFork, SpawnFail, MayStartNext, PopFront
  <2>2. /\ Waiting' = Waiting \ {j}
        /\ \A i, k \in DOMAIN job_queue' :
             job_queue'[i] = job_queue'[k] => i = k
    BY <1>5, <2>1, PopQueue
  <2>3. /\ status'[j] \in {"STARTING", "FAILED"}
        /\ \A k \in Jobs : k # j =>
             UNCHANGED <<status[k], process_group[k], log[k], proc[k]>>
    BY <1>5, ZenonT(60) DEF SpawnFork, SpawnFail, TypeOK, osVars
  <2>4. Queued' \subseteq Waiting'
    BY <2>2, <2>3 DEF Queued, QueueInv, QueueComplete
  <2>5. \A k \in Waiting' :
          status'[k] \in {"QUEUED", "CANCELLED"} /\ Fresh(k)'
    BY <1>b, <2>2, <2>3 DEF Ran, Silent
  <2> QED
    BY <2>2, <2>4, <2>5 DEF QueueInv, QueueComplete
<1>6. CASE SpawnObserve
  <2>1. cur \in Jobs /\ cur \notin Waiting
    BY <1>6, <1>b DEF SpawnObserve, CountStart, PhaseInv, TypeOK
  <2> QED
    BY <1>6, <2>1, <1>a, <1>b DEF SpawnObserve, CountStart, Queued, TypeOK, osVars
<1>7. ASSUME NEW j \in Jobs, ScanJob(j) PROVE QueueInv'
  <2>1. status[j] = "RUNNING"
    BY <1>7, ScannedIsRunning DEF ScanJob
  <2>2. j \notin Waiting
    BY <1>b, <2>1
  <2>3. \A k \in Jobs : k # j =>
          UNCHANGED <<status[k], process_group[k], log[k], proc[k]>>
    BY <1>7 DEF ScanJob, JobFinished, enforce_job_timeout,
                enforce_job_log_cap, enforce_job_process_cap, TypeOK
  <2>4. \/ status' = status
        \/ \E s \in {"COMPLETED", "FAILED", "TIMEOUT", "PROC_LIMIT"} :
             status' = [status EXCEPT ![j] = s]
    BY <1>7, ScanStatus
  <2>5. Queued' \subseteq Queued
    BY <2>4 DEF Queued, TypeOK
  <2>6. job_queue' = job_queue
    BY <1>7 DEF ScanJob
  <2> QED
    BY <2>2, <2>3, <2>5, <2>6, <1>a, <1>b
<1>8. CASE Tick \/ StartDone \/ TickEnd \/ UNCHANGED vars
  <2>1. UNCHANGED <<job_queue, status, process_group, log, proc>>
    BY <1>8 DEF Tick, TickBegin, StartDone, TickEnd, vars, jobVars, osVars
  <2> QED
    BY <2>1, <1>a, <1>b DEF Queued
<1>9. ASSUME NEW j \in Jobs,
             ChildSetpgid(j) \/ LeaderExit(j) \/ KidFork(j) \/ KidExit(j)
      PROVE QueueInv'
  <2>1. UNCHANGED <<job_queue, status, process_group, log>>
    BY <1>9 DEF ChildSetpgid, LeaderExit, KidFork, KidExit, osUnchanged,
                jobVars
  <2>2. \A k \in Jobs : proc[k] = "none" => proc'[k] = "none"
    BY <1>9 DEF ChildSetpgid, LeaderExit, KidFork, KidExit, TypeOK
  <2> QED
    BY <2>1, <2>2, <1>a, <1>b DEF Queued
<1> QED
  <2>1. ASSUME SpawnFork \/ SpawnFail PROVE Head(job_queue) \in Jobs
    BY <2>1 DEF SpawnFork, SpawnFail, MayStartNext, TypeOK
  <2> QED
    BY <2>1, <1>1, <1>2, <1>3, <1>4, <1>5, <1>6, <1>7, <1>8, <1>9
    DEF Next, Submit, Cancel, Scan, Os

-----------------------------------------------------------------------------
(* Status, process and log of one job.                                     *)

\* The job at the head of the queue was never spawned.
LEMMA HeadIsFresh ==
  ASSUME TypeOK, QueueInv, job_queue # <<>>
  PROVE  LET j == Head(job_queue) IN
           /\ j \in Jobs /\ ~Ran(j) /\ Silent(j) /\ proc[j] = "none"
           /\ status[j] \in {"QUEUED", "CANCELLED"}
<1>1. Head(job_queue) \in Jobs /\ Head(job_queue) \in Waiting
  BY DEF TypeOK, Waiting
<1> QED
  BY <1>1 DEF QueueInv, QueueComplete

LEMMA JobStep ==
  TypeOK /\ PhaseInv /\ JobInv /\ QueueInv /\ ScanInv /\ [Next]_vars => JobInv'
<1> SUFFICES ASSUME TypeOK, PhaseInv, JobInv, QueueInv, ScanInv, [Next]_vars
             PROVE JobInv'
  OBVIOUS
<1> USE DEF JobInv, TypeOK, Ran, Silent
<1>1. ASSUME NEW j \in Jobs, submit_job(j) PROVE JobInv'
  BY <1>1 DEF submit_job, osVars
<1>2. ASSUME NEW j \in Jobs, CancelQueued(j) PROVE JobInv'
  BY <1>2 DEF CancelQueued, osVars
<1>3. ASSUME NEW j \in Jobs, CancelTerm(j) PROVE JobInv'
  BY <1>3 DEF CancelTerm, jobVars, osVars
<1>4. CASE CancelKill
  BY <1>4 DEF CancelKill, PhaseInv
<1>5. CASE SpawnFork
  <2> DEFINE j == Head(job_queue)
  <2>1. /\ j \in Jobs /\ ~Ran(j) /\ Silent(j)
        /\ status' = [status EXCEPT ![j] = "STARTING"]
        /\ fds' = [fds EXCEPT ![j] = {"out", "err"}]
        /\ proc' = [proc EXCEPT ![j] = "forked"]
        /\ UNCHANGED <<process_group, log>>
    BY <1>5, HeadIsFresh DEF SpawnFork, MayStartNext
  <2> HIDE DEF j
  <2> QED
    BY <2>1
<1>6. CASE SpawnFail
  <2> DEFINE j == Head(job_queue)
  <2>1. /\ j \in Jobs /\ ~Ran(j) /\ proc[j] = "none"
        /\ status' = [status EXCEPT ![j] = "FAILED"]
        /\ \A k \in Jobs : k # j => fds'[k] = fds[k] /\ log'[k] = log[k]
        /\ UNCHANGED <<process_group, proc>>
    BY <1>6, HeadIsFresh, SMTT(30) DEF SpawnFail, MayStartNext, osVars
  <2> HIDE DEF j
  <2> QED
    BY <2>1
<1>7. CASE SpawnObserve
  BY <1>7 DEF SpawnObserve, CountStart, PhaseInv, osVars
<1>8. ASSUME NEW j \in Jobs, ScanJob(j) PROVE JobInv'
  <2>1. status[j] = "RUNNING" /\ Ran(j) /\ proc[j] # "reaped"
    BY <1>8, ScannedIsRunning DEF ScanJob
  <2>2. /\ process_group' = process_group
        /\ \A k \in Jobs : k # j =>
             UNCHANGED <<status[k], fds[k], log[k], proc[k]>>
    BY <1>8 DEF ScanJob, JobFinished, enforce_job_timeout,
                enforce_job_log_cap, enforce_job_process_cap
  <2>3. \/ /\ status'[j] \in {"COMPLETED", "FAILED"}
           /\ proc'[j] = "reaped" /\ fds'[j] = {}
           /\ process_group[j] = "own"
        \/ /\ status'[j] \in {"RUNNING", "TIMEOUT", "PROC_LIMIT"}
           /\ proc'[j] = proc[j]
    BY <1>8, <2>1 DEF ScanJob, JobFinished, FdsAfterExit, Reapable,
                      enforce_job_timeout, enforce_job_log_cap,
                      enforce_job_process_cap
  <2> QED
    BY <2>1, <2>2, <2>3, SMTT(30)
<1>9. CASE Tick \/ StartDone \/ TickEnd \/ UNCHANGED vars
  BY <1>9, SMTT(30) DEF Tick, TickBegin, StartDone, TickEnd, vars, jobVars, osVars
<1>10. ASSUME NEW j \in Jobs,
              ChildSetpgid(j) \/ LeaderExit(j) \/ KidFork(j) \/ KidExit(j)
       PROVE JobInv'
  BY <1>10, SMTT(30) DEF ChildSetpgid, LeaderExit, KidFork, KidExit, osUnchanged,
               jobVars
<1> QED
  BY <1>1, <1>2, <1>3, <1>4, <1>5, <1>6, <1>7, <1>8, <1>9, <1>10
  DEF Next, Submit, Cancel, Scan, Os

LEMMA LogStep ==
  TypeOK /\ PhaseInv /\ JobInv /\ QueueInv /\ ScanInv /\ LogInv /\ [Next]_vars
    => LogInv'
<1> SUFFICES ASSUME TypeOK, PhaseInv, JobInv, QueueInv, ScanInv, LogInv,
                    [Next]_vars
             PROVE LogInv'
  OBVIOUS
<1> DEFINE cap(k) == Limits[k].max_log_bytes
           slack == 2 * Got(Chunk)
<1>0. slack \in Nat /\ \A k \in Jobs : cap(k) \in Nat
  BY LimitsAssumption, BudgetAssumption DEF Got
<1>1. ASSUME NEW j \in Jobs, ScanJob(j) PROVE LogInv'
  <2>1. status[j] = "RUNNING"
    BY <1>1, ScannedIsRunning DEF ScanJob
  <2>2. PICK n_out \in ReadResults(j, "out"), n_err \in ReadResults(j, "err") :
          \/ JobFinished(j, n_out, n_err)
          \/ enforce_job_timeout(j, n_out, n_err)
          \/ enforce_job_log_cap(j, n_out, n_err)
          \/ enforce_job_process_cap(j, n_out, n_err)
    BY <1>1 DEF ScanJob
  <2> DEFINE new == AppendReads(log[j], n_out, n_err)
  <2>3. /\ new \in Log
        /\ Total(new) <= Total(log[j]) + slack
        /\ log[j] \in Log
    <3>1. n_out \in Int /\ n_err \in Int /\ n_out <= Chunk /\ n_err <= Chunk
      BY ReadResultsBound
    <3>2. log[j] \in Log /\ Chunk \in Int
      BY BudgetAssumption DEF TypeOK
    <3> QED
      BY <3>1, <3>2, AppendReadsBound
  <2>4. Total(new) <= cap(j) + slack /\ Total(new) \in Nat
    <3>1. Total(log[j]) <= cap(j) /\ Total(log[j]) \in Nat
      BY <2>1, <2>3 DEF LogInv, Total, Log
    <3>2. Total(new) \in Nat
      BY <2>3 DEF Total, Log
    <3> QED
      BY <1>0, <2>3, <3>1, <3>2
  <2>5. Total(Truncate(new, cap(j))) <= cap(j)
        /\ Truncate(new, cap(j)) \in Log
    BY <1>0, <2>3, TruncateBound
  <2>6. /\ process_group' = process_group
        /\ \A k \in Jobs : k # j => UNCHANGED <<status[k], log[k]>>
    BY <1>1 DEF ScanJob, JobFinished, enforce_job_timeout,
                enforce_job_log_cap, enforce_job_process_cap, TypeOK
  <2>7. \/ log'[j] = new /\ status'[j] # "RUNNING"
        \/ log'[j] = new /\ Total(new) <= cap(j)
        \/ log'[j] = Truncate(new, cap(j))
    <3>1. CASE JobFinished(j, n_out, n_err)
      BY <3>1 DEF JobFinished, TypeOK
    <3>2. CASE enforce_job_timeout(j, n_out, n_err)
      BY <3>2 DEF enforce_job_timeout, TypeOK
    <3>3. CASE enforce_job_log_cap(j, n_out, n_err)
      BY <3>3 DEF enforce_job_log_cap, TypeOK
    <3>4. CASE enforce_job_process_cap(j, n_out, n_err)
      BY <3>4, <1>0, <2>4, SMTT(30) DEF enforce_job_process_cap, OverCap, TypeOK
    <3> QED
      BY <2>2, <3>1, <3>2, <3>3, <3>4
  <2> HIDE DEF new, slack, cap
  <2>8. Total(log'[j]) <= cap(j) + slack
        /\ (status'[j] = "RUNNING" => Total(log'[j]) <= cap(j))
    <3>1. Total(Truncate(new, cap(j))) \in Nat
      BY <2>5 DEF Total, Log
    <3> QED
      BY <1>0, <2>4, <2>5, <2>7, <3>1
  <2> QED
    BY <2>6, <2>8 DEF LogInv, Ran, cap, slack
<1>2. CASE SpawnFork
  <2>1. Head(job_queue) \in Jobs
    BY <1>2 DEF SpawnFork, MayStartNext, TypeOK
  <2> QED
    BY <1>2, <2>1 DEF SpawnFork, LogInv, TypeOK, Ran
<1>3. CASE SpawnFail
  <2> DEFINE j == Head(job_queue)
  <2>1. /\ j \in Jobs /\ ~Ran(j)
        /\ status' = [status EXCEPT ![j] = "FAILED"]
        /\ \A k \in Jobs : k # j => log'[k] = log[k]
        /\ UNCHANGED process_group
    BY <1>3, HeadIsFresh DEF SpawnFail, MayStartNext, TypeOK
  <2> HIDE DEF j
  <2> QED
    BY <2>1 DEF LogInv, TypeOK, Ran
<1>4. CASE SpawnObserve
  <2>1. cur \in Jobs /\ Silent(cur)
    BY <1>4 DEF SpawnObserve, CountStart, PhaseInv, JobInv, TypeOK
  <2>2. Total(log[cur]) = 0
    BY <2>1 DEF Silent, EmptyLog, Total
  <2>3. /\ status' = [status EXCEPT ![cur] = "RUNNING"] /\ log' = log
        /\ \A k \in Jobs : k # cur => process_group'[k] = process_group[k]
    BY <1>4 DEF SpawnObserve, CountStart, TypeOK
  <2> QED
    BY <1>0, <2>1, <2>2, <2>3, SMTT(30) DEF LogInv, TypeOK, Ran
<1>5. ASSUME NEW j \in Jobs,
             submit_job(j) \/ CancelQueued(j) \/ CancelTerm(j)
      PROVE LogInv'
  BY <1>5, SMTT(30) DEF submit_job, CancelQueued, CancelTerm, jobVars, LogInv, TypeOK, Ran
<1>6. CASE CancelKill
  BY <1>6 DEF CancelKill, LogInv, TypeOK, Ran
<1>7. CASE Tick \/ StartDone \/ TickEnd \/ UNCHANGED vars \/ Os
  BY <1>7 DEF Tick, TickBegin, StartDone, TickEnd, Os, ChildSetpgid,
              LeaderExit, KidFork, KidExit, osUnchanged, vars, jobVars,
              LogInv, Ran
<1> QED
  BY <1>1, <1>2, <1>3, <1>4, <1>5, <1>6, <1>7
  DEF Next, Submit, Cancel, Scan

\* A signal goes to the group of a RUNNING job, whose leader is not reaped.
LEMMA SignalStep ==
  TypeOK /\ PhaseInv /\ JobInv /\ ScanInv /\ NoStrangerSignalled /\ [Next]_vars
    => NoStrangerSignalled'
<1> SUFFICES ASSUME TypeOK, PhaseInv, JobInv, ScanInv, NoStrangerSignalled,
                    [Next]_vars
             PROVE NoStrangerSignalled'
  OBVIOUS
<1>a. ASSUME NEW j \in Jobs, status[j] = "RUNNING" PROVE "stranger" \notin Hit(j)
  <2>1. process_group[j] = "own" => GroupExists(j)
    BY <1>a DEF JobInv, GroupExists
  <2> QED
    BY <2>1 DEF Hit, TypeOK
<1>1. ASSUME NEW j \in Jobs, CancelTerm(j) PROVE NoStrangerSignalled'
  BY <1>1, <1>a DEF Cancellable, CancelTerm, Sigterm, NoStrangerSignalled
<1>2. ASSUME NEW j \in Jobs, ScanJob(j) PROVE NoStrangerSignalled'
  <2>1. status[j] = "RUNNING"
    BY <1>2, ScannedIsRunning DEF ScanJob
  <2>2. signalled' = signalled \/ signalled' = signalled \cup Hit(j)
    BY <1>2 DEF ScanJob, JobFinished, enforce_job_timeout,
                enforce_job_log_cap, enforce_job_process_cap, Sigterm
  <2> QED
    BY <1>a, <2>1, <2>2 DEF NoStrangerSignalled
<1>3. CASE UNCHANGED signalled
  BY <1>3 DEF NoStrangerSignalled
<1> QED
  BY <1>1, <1>2, <1>3
  DEF Next, Submit, submit_job, Cancel, CancelQueued, CancelKill, Tick,
      TickBegin, SpawnFork, SpawnFail, SpawnObserve, CountStart, StartDone, Scan, TickEnd,
      Os, ChildSetpgid, LeaderExit, KidFork, KidExit, osUnchanged, vars

-----------------------------------------------------------------------------
(* The theorems.                                                           *)

LEMMA InvInit == Init => IInv
<1> SUFFICES ASSUME Init PROVE IInv
  OBVIOUS
<1>1. TypeOK
  BY TypeInit
<1>2. Active = {} /\ Cardinality(Active) = 0
  BY FS_EmptySet DEF Init, Active
<1>3. CountInv
  BY <1>2, BudgetAssumption, PolicyAssumption DEF CountInv, Init
<1>4. QueueInv
  <2>1. Waiting = {} /\ DOMAIN job_queue = {}
    BY DEF Init, Waiting
  <2> QED
    BY <2>1 DEF QueueInv, QueueComplete, Queued, Init
<1>5. LogInv
  BY DEF Init, LogInv, Ran
<1>6. PhaseInv /\ JobInv /\ ScanInv /\ NoStrangerSignalled
  BY DEF Init, PhaseInv, JobInv, ScanInv, NoStrangerSignalled, Ran, Silent
<1> QED
  BY <1>1, <1>3, <1>4, <1>5, <1>6 DEF IInv

\* IInv holds in every reachable state of the job runner.
THEOREM Inductive == Spec => []IInv
<1>1. IInv /\ [Next]_vars => IInv'
  BY TypeStep, PhaseStep, CountStep, JobStep, QueueStep, ScanStep, LogStep,
     SignalStep DEF IInv
<1> QED
  BY InvInit, <1>1, PTL DEF Spec

\* Every variable of the job runner keeps its type.
THEOREM TypeCorrect == Spec => []TypeOK
BY Inductive, PTL DEF IInv

\* tick never has more than max_concurrent_ jobs STARTING or RUNNING.
THEOREM Concurrency == Spec => []ConcurrencyBound
<1>1. IInv => ConcurrencyBound
  BY DEF IInv, CountInv, ConcurrencyBound
<1> QED
  BY <1>1, Inductive, PTL

\* One governor decision per tick overruns max_running_jobs by less than the
\* start budget of the tick, and only by the starts of that tick.
THEOREM Overshoot == Spec => []AdmissionOvershoot
<1>1. ASSUME IInv PROVE AdmissionOvershoot
  <2>1. Active # {} => Cardinality(Active) # 0
    BY PositiveCardinality DEF Active
  <2>2. /\ Cardinality(Active) \in Nat /\ running \in Nat /\ started \in Nat
        /\ Policy.max_running_jobs \in Nat
    BY <1>1, FiniteJobSets, PolicyAssumption DEF IInv, TypeOK, Active
  <2> QED
    BY <1>1, <2>1, <2>2 DEF IInv, CountInv, AdmissionOvershoot
<1> QED
  BY <1>1, Inductive, PTL

\* A job's captured log exceeds its cap by two reads at most.
THEOREM LogCap == Spec => []LogBounded
<1>1. IInv => LogBounded
  BY DEF IInv, LogInv, LogBounded
<1> QED
  BY <1>1, Inductive, PTL

\* No signal of the job runner goes to a group that is gone.
THEOREM NoStranger == Spec => []NoStrangerSignalled
BY Inductive, PTL DEF IInv

\* Reaping, closing the pipes and recording the outcome go together.
THEOREM Released == Spec => []ReapedAndReleased
<1>1. IInv => ReapedAndReleased
  BY DEF IInv, JobInv, Ran, ReapedAndReleased
<1> QED
  BY <1>1, Inductive, PTL

\* No submitted job is lost or queued twice.
THEOREM QueueSound == Spec => []QueueComplete
<1>1. IInv => QueueComplete
  BY DEF IInv, QueueInv
<1> QED
  BY <1>1, Inductive, PTL

\* No step replaces the outcome of a job that has left the queue.
THEOREM Final == Spec => OutcomeFinal
<1> DEFINE A == \A j \in Jobs \ Waiting :
                  status[j] \in Terminal => status'[j] = status[j]
<1>1. ASSUME IInv, [Next]_vars PROVE A
  <2> SUFFICES ASSUME NEW k \in Jobs \ Waiting, status[k] \in Terminal
               PROVE  status'[k] = status[k]
    OBVIOUS
  <2> USE DEF Terminal, TypeOK
  <2>0. TypeOK /\ PhaseInv /\ QueueInv /\ ScanInv
    BY <1>1 DEF IInv
  <2>1. ASSUME NEW j \in Jobs, submit_job(j) \/ CancelQueued(j)
        PROVE status'[k] = status[k]
    BY <2>0, <2>1 DEF submit_job, CancelQueued
  <2>2. CASE CancelKill
    BY <2>0, <2>2 DEF CancelKill, PhaseInv
  <2>3. CASE SpawnFork \/ SpawnFail
    <3>1. Head(job_queue) \in Waiting /\ Head(job_queue) \in Jobs
      BY <2>0, <2>3, SMTT(30) DEF SpawnFork, SpawnFail, MayStartNext, Waiting
    <3> QED
      BY <2>0, <2>3, <3>1 DEF SpawnFork, SpawnFail
  <2>4. CASE SpawnObserve
    BY <2>0, <2>4 DEF SpawnObserve, CountStart, PhaseInv
  <2>5. ASSUME NEW j \in Jobs, ScanJob(j) PROVE status'[k] = status[k]
    <3>1. status[j] = "RUNNING"
      BY <2>0, <2>5, ScannedIsRunning DEF ScanJob
    <3>2. \/ status' = status
          \/ \E s \in {"COMPLETED", "FAILED", "TIMEOUT", "PROC_LIMIT"} :
               status' = [status EXCEPT ![j] = s]
      BY <2>0, <2>5, ScanStatus
    <3> QED
      BY <2>0, <3>1, <3>2
  <2>6. CASE UNCHANGED status
    BY <2>6
  <2> QED
    BY <1>1, <2>1, <2>2, <2>3, <2>4, <2>5, <2>6
    DEF Next, Submit, Cancel, CancelTerm, Tick, TickBegin, StartDone, Scan,
        TickEnd, Os, ChildSetpgid, LeaderExit, KidFork, KidExit, osUnchanged,
        vars, jobVars
<1>2. IInv /\ [Next]_vars => [A]_vars
  BY <1>1
<1> QED
  BY <1>2, Inductive, PTL DEF Spec, OutcomeFinal
=============================================================================
