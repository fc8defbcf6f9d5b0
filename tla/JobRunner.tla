----------------------------- MODULE JobRunner -----------------------------
(***************************************************************************)
(* JobRunner (src/job/job.cpp): a queue of submitted jobs, the tick that   *)
(* admits and starts them and then scans the running ones, and cancel_job. *)
(*                                                                         *)
(* mutex_ is held for the whole of a tick and the whole of a cancel, so    *)
(* the two never overlap; what does run in between is the operating        *)
(* system: the forked child reaching setpgid, job processes forking,       *)
(* exiting, writing, ignoring a SIGTERM.  A tick is therefore one action   *)
(* per started job and per scanned job, and pc says where the holder of    *)
(* mutex_ is ("idle": the mutex is free).                                  *)
(***************************************************************************)
EXTENDS ResourceGovernor, JobLog, Sequences, FiniteSets

CONSTANTS
  Jobs,            \* the jobs clients may submit
  Limits,          \* Limits[j]: the JobLimits submitted with job j
  MaxConcurrent,   \* max_concurrent_
  MaxStarts,       \* max_starts_per_tick
  MaxScans,        \* max_limit_scans_per_tick
  Policy,          \* the policy of governor_, which nothing ever updates
  Loads,           \* the SystemMetrics a tick may be given
  Chunk,           \* the most bytes one read() returns (4096); -1: the jobs
                   \* write nothing and keep their pipes open
  MaxKids,         \* bound: descendants alive in one job's process group
  MaxTime,         \* bound: the largest now_ms a tick is given
  ChildMayLag      \* FALSE: the child always runs setpgid before the parent
                   \* looks; TRUE: whatever the scheduler does

ASSUME JobsAssumption == IsFiniteSet(Jobs)

ASSUME LimitsAssumption ==
  Limits \in [Jobs -> [max_runtime_ms : Nat, max_log_bytes : Nat,
                       max_child_processes : Int]]

ASSUME BudgetAssumption ==
  /\ MaxConcurrent \in Nat /\ MaxStarts \in Nat /\ MaxScans \in Nat
  /\ Chunk \in Nat \cup {-1} /\ MaxKids \in Nat /\ MaxTime \in Nat
  /\ ChildMayLag \in BOOLEAN

ASSUME PolicyAssumption ==
  /\ Policy \in GovernorPolicy
  /\ Policy.max_running_jobs \in Nat
  /\ Loads \subseteq [cpu : Nat, total : Nat, available : Nat]

VARIABLES
  status,          \* Job::status, or "ABSENT" before submit_job
  job_queue,       \* job_queue_
  rank,            \* iteration order of the unordered_map jobs_
  scan_cursor,     \* scan_cursor_
  process_group,   \* Job::process_group: none (-1), the job's own group, or
                   \* the group of the daemon itself
  started_at_ms,   \* Job::started_at_ms
  fds,             \* descriptors of the job's pipes open in this process
  log,             \* Job::output, error, bytes_written, log_truncated
  pc,              \* position of the holder of mutex_
  cur,             \* the job being spawned or cancelled
  now_ms,          \* argument of the current or latest tick
  load,            \* metrics argument of the current or latest tick
  running,         \* start loop: jobs active when the tick began
  started,         \* start loop: jobs started so far
  scan,            \* check_job_limits: the contents of running_jobs
  checked,         \* check_job_limits: jobs scanned so far
  proc,            \* operating system: the job's group leader
  kids,            \* operating system: other live members of its group
  signalled        \* history: what the signals sent so far have hit

jobVars == <<status, process_group, started_at_ms, fds, log>>
tickVars == <<now_ms, load, running, started>>
scanVars == <<scan, checked>>
osVars == <<proc, kids>>
vars == <<jobVars, job_queue, rank, scan_cursor, pc, cur, tickVars, scanVars,
          osVars, signalled>>

JobStatus == {"QUEUED", "STARTING", "RUNNING", "COMPLETED", "FAILED",
              "CANCELLED", "TIMEOUT", "PROC_LIMIT"}

NoJob == "no job"

Active == {j \in Jobs : status[j] \in {"RUNNING", "STARTING"}}
Queued == {j \in Jobs : status[j] = "QUEUED"}
Submitted == {j \in Jobs : status[j] # "ABSENT"}

TypeOK ==
  /\ status \in [Jobs -> JobStatus \cup {"ABSENT"}]
  /\ job_queue \in Seq(Jobs)
  /\ rank \in [Jobs -> Nat]
  /\ scan_cursor \in Nat
  /\ process_group \in [Jobs -> {"none", "own", "daemon"}]
  /\ started_at_ms \in [Jobs -> 0..MaxTime]
  /\ fds \in [Jobs -> SUBSET {"out", "err", "out_w"}]
  /\ log \in [Jobs -> Log]
  /\ pc \in {"idle", "start", "observe", "scan", "cancel", "dead"}
  /\ cur \in Jobs \cup {NoJob}
  /\ pc \in {"observe", "cancel"} => cur \in Jobs
  /\ now_ms \in 0..MaxTime
  /\ load \in Loads
  /\ running \in Nat /\ started \in Nat
  /\ scan \subseteq Jobs
  /\ checked \in Nat
  /\ proc \in [Jobs -> {"none", "forked", "alive", "zombie", "reaped"}]
  /\ kids \in [Jobs -> 0..MaxKids]
  /\ signalled \subseteq {"job", "daemon", "stranger"}

Init ==
  /\ status = [j \in Jobs |-> "ABSENT"]
  /\ job_queue = <<>>
  /\ rank = [j \in Jobs |-> 0]
  /\ scan_cursor = 0
  /\ process_group = [j \in Jobs |-> "none"]
  /\ started_at_ms = [j \in Jobs |-> 0]
  /\ fds = [j \in Jobs |-> {}]
  /\ log = [j \in Jobs |-> EmptyLog]
  /\ pc = "idle"
  /\ cur = NoJob
  /\ now_ms = 0
  /\ load \in Loads
  /\ running = 0 /\ started = 0
  /\ scan = {} /\ checked = 0
  /\ proc = [j \in Jobs |-> "none"]
  /\ kids = [j \in Jobs |-> 0]
  /\ signalled = {}

-----------------------------------------------------------------------------
(* Signals.  A signal is sent to a process group; what it hits depends on  *)
(* which group process_group names and on whether that group still exists. *)

GroupExists(j) == proc[j] \in {"alive", "zombie"} \/ kids[j] > 0

Hit(j) ==
  CASE process_group[j] = "none" -> {}
    [] process_group[j] = "daemon" -> {"daemon"}
    [] process_group[j] = "own" /\ GroupExists(j) -> {"job"}
    [] OTHER -> {"stranger"}     \* the number is free for a foreign process

\* kill(-pgid, SIGTERM).  The members may exit, and may as well ignore it:
\* their exits are the operating system's steps below.
Sigterm(j) == signalled' = signalled \cup Hit(j)

-----------------------------------------------------------------------------
(* Client calls.                                                           *)

\* submit_job.  It never refuses a job.  Inserting into the unordered_map may
\* rehash it, which reorders every element.
submit_job(j) ==
  /\ pc = "idle"
  /\ status[j] = "ABSENT"
  /\ status' = [status EXCEPT ![j] = "QUEUED"]
  /\ job_queue' = Append(job_queue, j)
  /\ \E r \in [Submitted \cup {j} -> 1..Cardinality(Submitted \cup {j})] :
       /\ \A a, b \in DOMAIN r : a # b => r[a] # r[b]
       /\ rank' = [k \in Jobs |-> IF k \in DOMAIN r THEN r[k] ELSE 0]
  /\ UNCHANGED <<scan_cursor, process_group, started_at_ms, fds, log, pc, cur,
                 tickVars, scanVars, osVars, signalled>>

\* cancel_job on a queued job.  The job is not taken out of job_queue_.
CancelQueued(j) ==
  /\ pc = "idle"
  /\ status[j] = "QUEUED"
  /\ status' = [status EXCEPT ![j] = "CANCELLED"]
  /\ UNCHANGED <<job_queue, rank, scan_cursor, process_group, started_at_ms,
                 fds, log, pc, cur, tickVars, scanVars, osVars, signalled>>

\* Mutant: whatever has left the queue is signalled and cancelled.
CancellableEver(j) == status[j] \notin {"ABSENT", "QUEUED"}

Cancellable(j) == status[j] = "RUNNING"

\* cancel_job on a running job: SIGTERM, then 500 ms with mutex_ held ...
CancelTerm(j) ==
  /\ pc = "idle"
  /\ Cancellable(j)
  /\ Sigterm(j)
  /\ pc' = "cancel" /\ cur' = j
  /\ UNCHANGED <<jobVars, job_queue, rank, scan_cursor, tickVars, scanVars,
                 osVars>>

\* ... then SIGKILL if kill(-pgid, 0) finds the group (a zombie leader is
\* enough).  SIGKILL cannot be ignored; sent to the daemon's group it ends
\* the daemon.
CancelKill ==
  /\ pc = "cancel"
  /\ LET kill == process_group[cur] = "own" /\ GroupExists(cur)
         suicide == process_group[cur] = "daemon"
     IN /\ proc' = IF kill /\ proc[cur] = "alive"
                     THEN [proc EXCEPT ![cur] = "zombie"] ELSE proc
        /\ kids' = IF kill THEN [kids EXCEPT ![cur] = 0] ELSE kids
        /\ status' = IF suicide THEN status
                       ELSE [status EXCEPT ![cur] = "CANCELLED"]
        /\ pc' = IF suicide THEN "dead" ELSE "idle"
  /\ cur' = NoJob
  /\ UNCHANGED <<job_queue, rank, scan_cursor, process_group, started_at_ms,
                 fds, log, tickVars, scanVars, signalled>>

-----------------------------------------------------------------------------
(* tick, first part: admission and starting.                               *)

\* The share of memory the tick reports to the governor as mem_pct.
MemPct(m) == IF m.total > 0 THEN (m.available * 100) \div m.total ELSE 0

\* check_job_limits collects the active jobs; with none it returns at once.
BeginScan ==
  /\ scan' = Active
  /\ checked' = 0
  /\ pc' = IF Active = {} THEN "idle" ELSE "scan"

\* Take mutex_, count, ask the governor.
TickBegin(t, m) ==
  /\ pc = "idle"
  /\ t >= now_ms
  /\ now_ms' = t /\ load' = m
  /\ LET r == decide(Policy, m.cpu, MemPct(m), Cardinality(Active),
                         Cardinality(Queued))
     IN IF r.decision = "START_NOW"
          THEN /\ pc' = "start"
               /\ running' = Cardinality(Active)
               /\ UNCHANGED <<started, scanVars>>
          ELSE BeginScan /\ UNCHANGED <<running, started>>
  /\ UNCHANGED <<jobVars, job_queue, rank, scan_cursor, cur, osVars,
                 signalled>>

\* Mutant: the comparison admits one job too few.
MayStartNextStrict ==
  /\ job_queue # <<>> /\ started < MaxStarts
  /\ running + started + 1 < MaxConcurrent

\* The condition of the start loop.
MayStartNext ==
  /\ job_queue # <<>>
  /\ started < MaxStarts
  /\ running + started < MaxConcurrent

\* Mutant: front() without pop().
PeekFront == job_queue' = job_queue

PopFront == job_queue' = Tail(job_queue)

\* spawn_job up to fork: pop the queue; pipes and fork succeed.
SpawnFork ==
  /\ pc = "start" /\ MayStartNext
  /\ LET j == Head(job_queue) IN
       /\ status' = [status EXCEPT ![j] = "STARTING"]
       /\ fds' = [fds EXCEPT ![j] = {"out", "err"}]
       /\ proc' = [proc EXCEPT ![j] = "forked"]
       /\ cur' = j
  /\ PopFront
  /\ pc' = "observe"
  /\ UNCHANGED <<rank, scan_cursor, process_group, started_at_ms, log,
                 tickVars, scanVars, kids, signalled>>

\* spawn_job fails: no first pipe, no second pipe (the first one stays open,
\* both ends), or no fork.  A failure does not count as a start.
SpawnFail ==
  /\ pc = "start" /\ MayStartNext
  /\ LET j == Head(job_queue) IN
       /\ status' = [status EXCEPT ![j] = "FAILED"]
       /\ \E left \in {{}, {"out", "out_w"}} : fds' = [fds EXCEPT ![j] = left]
       /\ log' = [log EXCEPT ![j] = SetError(@)]
  /\ PopFront
  /\ UNCHANGED <<rank, scan_cursor, process_group, started_at_ms, pc, cur,
                 tickVars, scanVars, osVars, signalled>>

\* Mutant: a start is not counted.
CountStartNot == started

CountStart == started + 1

\* The parent records getpgid(leader), which answers at the first attempt:
\* before the child's setpgid it is the group the child inherited.
SpawnObserve ==
  /\ pc = "observe"
  /\ ChildMayLag \/ proc[cur] # "forked"
  /\ process_group' = [process_group EXCEPT ![cur] =
                         IF proc[cur] = "forked" THEN "daemon" ELSE "own"]
  /\ status' = [status EXCEPT ![cur] = "RUNNING"]
  /\ started_at_ms' = [started_at_ms EXCEPT ![cur] = now_ms]
  /\ started' = CountStart
  /\ pc' = "start" /\ cur' = NoJob
  /\ UNCHANGED <<job_queue, rank, scan_cursor, fds, log, now_ms, load, running,
                 scanVars, osVars, signalled>>

StartDone ==
  /\ pc = "start" /\ ~MayStartNext
  /\ BeginScan
  /\ running' = 0 /\ started' = 0           \* the locals go out of scope
  /\ UNCHANGED <<jobVars, job_queue, rank, scan_cursor, cur, now_ms, load,
                 osVars, signalled>>

-----------------------------------------------------------------------------
(* tick, second part: check_job_limits.                                    *)

\* The vector running_jobs lists scan in map order; the next index to look
\* at is (scan_cursor_ + i) % num_running.
Index(j) == Cardinality({k \in scan : rank[k] < rank[j]})

\* Mutant: the loop variable is not added to the cursor.
TurnFixed(j) ==
  /\ pc = "scan" /\ j \in scan
  /\ checked < MaxScans /\ checked < Cardinality(scan)
  /\ Index(j) = scan_cursor % Cardinality(scan)

Turn(j) ==
  /\ pc = "scan" /\ j \in scan
  /\ checked < MaxScans /\ checked < Cardinality(scan)
  /\ Index(j) = (scan_cursor + checked) % Cardinality(scan)

\* What one non-blocking read of stream s may return: bytes, 0 at end of
\* file (every writer closed the pipe, the job can do so at any time), or -1.
ReadResults(j, s) == IF s \in fds[j] THEN -1..Chunk ELSE {-1}

AfterEof(j, n_out, n_err) ==
  fds[j] \ ({s \in {"out"} : n_out = 0} \cup {s \in {"err"} : n_err = 0})

\* Mutant: the exit is looked for only after both pipes reached end of file.
ReapableAfterEof(j) ==
  process_group[j] = "own" /\ proc[j] = "zombie" /\ fds[j] = {}

\* waitpid(pgid, WNOHANG) reaps the leader.  The daemon's own group number
\* names no child: ECHILD.
Reapable(j) == process_group[j] = "own" /\ proc[j] = "zombie"

RuntimeMs(j) == now_ms - started_at_ms[j]
TimedOut(j) == RuntimeMs(j) > Limits[j].max_runtime_ms

\* The inspector counts the group's members in /proc, a zombie included.  It
\* looks at 5000 processes at most, and they come and go while it looks.
count_processes_in_pgid(j) ==
  kids[j] + (IF proc[j] \in {"alive", "zombie"} THEN 1 ELSE 0)

\* More processes in the group than allowed.  When the daemon's own group was
\* recorded its members are counted, any number of them, unless both start
\* times can be read: they differ, and the check is skipped.
OverProcessCap(j) ==
  \/ process_group[j] = "daemon"
  \/ count_processes_in_pgid(j) > Limits[j].max_child_processes

\* Mutant: standard error is not closed with the job.
FdsAfterExitKeepErr(j) == fds[j] \cap {"err"}

\* "Close any remaining fds."
FdsAfterExit(j) == {}

\* One scanned job: read both pipes, then the first that applies of exit,
\* timeout, log cap, process cap.
JobFinished(j, n_out, n_err) ==
  /\ Reapable(j)
  /\ \E outcome \in {"COMPLETED", "FAILED"} :      \* by the exit code
       status' = [status EXCEPT ![j] = outcome]
  /\ proc' = [proc EXCEPT ![j] = "reaped"]
  /\ fds' = [fds EXCEPT ![j] = FdsAfterExit(j)]
  /\ log' = [log EXCEPT ![j] = AppendReads(@, n_out, n_err)]
  /\ UNCHANGED signalled

enforce_job_timeout(j, n_out, n_err) ==
  /\ ~Reapable(j) /\ TimedOut(j)
  /\ Sigterm(j)
  /\ status' = [status EXCEPT ![j] = "TIMEOUT"]
  /\ fds' = [fds EXCEPT ![j] = AfterEof(j, n_out, n_err)]
  /\ log' = [log EXCEPT ![j] = AppendReads(@, n_out, n_err)]
  /\ UNCHANGED proc

enforce_job_log_cap(j, n_out, n_err) ==
  /\ ~Reapable(j) /\ ~TimedOut(j)
  /\ OverCap(AppendReads(log[j], n_out, n_err), Limits[j].max_log_bytes)
  /\ log' = [log EXCEPT ![j] = Truncate(AppendReads(@, n_out, n_err),
                                        Limits[j].max_log_bytes)]
  /\ fds' = [fds EXCEPT ![j] = AfterEof(j, n_out, n_err)]
  /\ UNCHANGED <<status, proc, signalled>>

enforce_job_process_cap(j, n_out, n_err) ==
  /\ ~Reapable(j) /\ ~TimedOut(j)
  /\ ~OverCap(AppendReads(log[j], n_out, n_err), Limits[j].max_log_bytes)
  /\ \/ /\ OverProcessCap(j)
        /\ Sigterm(j)
        /\ status' = [status EXCEPT ![j] = "PROC_LIMIT"]
     \/ \* within the cap, or nobody can tell
        UNCHANGED <<status, signalled>>
  /\ fds' = [fds EXCEPT ![j] = AfterEof(j, n_out, n_err)]
  /\ log' = [log EXCEPT ![j] = AppendReads(@, n_out, n_err)]
  /\ UNCHANGED proc

ScanJob(j) ==
  /\ Turn(j)
  /\ checked' = checked + 1
  /\ \E n_out \in ReadResults(j, "out"), n_err \in ReadResults(j, "err") :
       \/ JobFinished(j, n_out, n_err)
       \/ enforce_job_timeout(j, n_out, n_err)
       \/ enforce_job_log_cap(j, n_out, n_err)
       \/ enforce_job_process_cap(j, n_out, n_err)
  /\ UNCHANGED <<job_queue, rank, scan_cursor, process_group, started_at_ms,
                 pc, cur, tickVars, scan, kids>>

\* Mutants: the cursor stays where it is; it moves backwards.
NextCursorStuck == scan_cursor
NextCursorBack == scan_cursor - checked

NextCursor == (scan_cursor + checked) % Cardinality(scan)

\* The cursor moves on by the jobs scanned; mutex_ is released.
TickEnd ==
  /\ pc = "scan"
  /\ checked = MaxScans \/ checked = Cardinality(scan)
  /\ scan_cursor' = NextCursor
  /\ pc' = "idle" /\ scan' = {} /\ checked' = 0
  /\ UNCHANGED <<jobVars, job_queue, rank, cur, tickVars, osVars, signalled>>

-----------------------------------------------------------------------------
(* The operating system.                                                   *)

osUnchanged == <<jobVars, job_queue, rank, scan_cursor, pc, cur, tickVars,
                 scanVars, signalled>>

\* The child, before exec: setpgid(0, 0).
ChildSetpgid(j) ==
  /\ proc[j] = "forked"
  /\ proc' = [proc EXCEPT ![j] = "alive"]
  /\ UNCHANGED <<osUnchanged, kids>>

\* The leader exits, by itself or because of a signal.
LeaderExit(j) ==
  /\ proc[j] = "alive"
  /\ proc' = [proc EXCEPT ![j] = "zombie"]
  /\ UNCHANGED <<osUnchanged, kids>>

\* A live member of the group forks.
KidFork(j) ==
  /\ proc[j] = "alive" \/ kids[j] > 0
  /\ kids[j] < MaxKids
  /\ kids' = [kids EXCEPT ![j] = @ + 1]
  /\ UNCHANGED <<osUnchanged, proc>>

KidExit(j) ==
  /\ kids[j] > 0
  /\ kids' = [kids EXCEPT ![j] = @ - 1]
  /\ UNCHANGED <<osUnchanged, proc>>

-----------------------------------------------------------------------------
Submit == \E j \in Jobs : submit_job(j)
Cancel == \E j \in Jobs : CancelQueued(j) \/ CancelTerm(j)
Tick == \E t \in 0..MaxTime, m \in Loads : TickBegin(t, m)
Scan == \E j \in Jobs : ScanJob(j)
Os == \E j \in Jobs : \/ ChildSetpgid(j) \/ LeaderExit(j)
                      \/ KidFork(j) \/ KidExit(j)

Next == \/ Submit \/ Cancel \/ CancelKill
        \/ Tick \/ SpawnFork \/ SpawnFail \/ SpawnObserve \/ StartDone
        \/ Scan \/ TickEnd
        \/ Os

Spec == Init /\ [][Next]_vars

-----------------------------------------------------------------------------
(* Safety.                                                                 *)

Waiting == {job_queue[i] : i \in DOMAIN job_queue}
Terminal == {"COMPLETED", "FAILED", "CANCELLED", "TIMEOUT", "PROC_LIMIT"}
Ran(j) == process_group[j] # "none"

\* The start loop of tick never brings more than max_concurrent_ jobs to
\* STARTING or RUNNING, however ticks, exits and cancels are interleaved.
ConcurrencyBound == Cardinality(Active) <= MaxConcurrent

\* The governor is asked once per tick, so max_running_jobs can be overrun,
\* but by less than one tick's start budget; and by starts of one tick only:
\* in the start loop the active jobs that this tick did not start, and has not
\* in hand, are below the limit, whatever max_concurrent_ would still allow.
AdmissionOvershoot ==
  /\ Active # {} =>
       Cardinality(Active) < Policy.max_running_jobs + MaxStarts
  /\ pc = "start" => Cardinality(Active) < Policy.max_running_jobs + started
  /\ pc = "observe" =>
       Cardinality(Active) <= Policy.max_running_jobs + started

\* The captured log of a job that ran never exceeds its cap by more than the
\* two reads of one scan.
LogBounded ==
  \A j \in Jobs :
    Ran(j) => Total(log[j]) <= Limits[j].max_log_bytes + 2 * Got(Chunk)

\* No signal is sent to a group number whose leader was reaped and whose
\* members are gone: the number may belong to a foreign process by then.
NoStrangerSignalled == "stranger" \notin signalled

\* The leader is reaped, the pipes are closed and the outcome is recorded in
\* one step: no reaped leader is left behind a job that still looks active, or
\* that holds a descriptor, or whose exit code a cancel, a timeout or a cap
\* hides.
ReapedAndReleased ==
  \A j \in Jobs :
    proc[j] = "reaped" =>
      Ran(j) /\ status[j] \in {"COMPLETED", "FAILED"} /\ fds[j] = {}

\* No submitted job is lost or queued twice, and what waits in job_queue_ was
\* never spawned.
QueueComplete ==
  /\ Queued \subseteq Waiting
  /\ \A j \in Waiting : status[j] \in {"QUEUED", "CANCELLED"} /\ proc[j] = "none"
  /\ \A i, k \in DOMAIN job_queue : job_queue[i] = job_queue[k] => i = k

\* The outcome of a job that has left the queue is final: no later tick,
\* exit or cancel replaces it.
OutcomeFinal ==
  [][\A j \in Jobs \ Waiting :
        status[j] \in Terminal => status'[j] = status[j]]_vars

\* A job has ended when its outcome is recorded and it has left job_queue_:
\* cancel_job leaves a queued job in line.
Ended == {j \in Jobs \ Waiting : status[j] \in Terminal}

Lifecycle == INSTANCE JobLifecycle
               WITH Capacity <- MaxConcurrent, line <- job_queue,
                    active <- Active, ended <- Ended

\* The queue, tick and cancel_job together are one line of jobs with
\* max_concurrent_ places: jobs start in the order of their submission, each
\* at most once, never after they ended, and a job that takes a place gives
\* it back only by ending.
ImplementsLifecycle == Lifecycle!Spec

-----------------------------------------------------------------------------
(* Liveness.                                                               *)

\* The thread that holds mutex_ runs on, and so does a forked child.
HolderProgress ==
  /\ WF_vars(CancelKill \/ SpawnFork \/ SpawnFail \/ SpawnObserve \/ StartDone
             \/ Scan \/ TickEnd)
  /\ \A j \in Jobs : WF_vars(ChildSetpgid(j))

\* Ticks keep coming, their clock advances (up to the bound MaxTime), and the
\* load is below the watermarks in infinitely many of them.
Calm(m) == /\ m.cpu < Policy.cpu_high_watermark_pct
           /\ MemPct(m) < Policy.mem_high_watermark_pct

TicksKeepComing ==
  /\ SF_vars(\E t \in 0..MaxTime, m \in Loads : t > now_ms /\ TickBegin(t, m))
  /\ SF_vars(\E t \in 0..MaxTime, m \in {l \in Loads : Calm(l)} :
               TickBegin(t, m))

\* Nothing is assumed of the jobs: each may run, or ignore SIGTERM, for ever.
LiveSpec == Spec /\ HolderProgress /\ TicksKeepComing

\* The bounded clock can still get past the job's deadline.
Overtakable(j) == started_at_ms[j] + Limits[j].max_runtime_ms < MaxTime

\* The daemon has killed its own process group.
Dead == pc = "dead"

\* Round-robin scanning starves no job: a running job that outlives its
\* max_runtime_ms leaves RUNNING, however few jobs a tick may scan.
OverdueEnds ==
  \A j \in Jobs :
    status[j] = "RUNNING" /\ Overtakable(j) ~> status[j] # "RUNNING" \/ Dead

\* The exit of a leader whose own group was recorded at the spawn is noticed:
\* the job leaves RUNNING.  (ScanReaps below is about the others.)
ExitNoticed ==
  \A j \in Jobs :
    status[j] = "RUNNING" /\ proc[j] = "zombie" /\ process_group[j] = "own"
      ~> status[j] # "RUNNING" \/ Dead

\* No queued job is left waiting while the policy has room for it: it leaves
\* QUEUED, or max_running_jobs jobs are active.
QueuedStarts ==
  \A j \in Jobs :
    status[j] = "QUEUED"
      ~> \/ status[j] # "QUEUED" \/ Dead
         \/ Cardinality(Active) >= Policy.max_running_jobs

-----------------------------------------------------------------------------
(* What a document says and the code does not do, each refuted by TLC with *)
(* a configuration of its own (see README.md, Findings).                   *)

\* docs/PROCESS_POLICY.md:15, heidi-kernel "may only terminate processes that
\* are heidi-managed".  The parent may record the group its child inherited.
OnlyManagedSignalled == "daemon" \notin signalled

\* docs/PROCESS_POLICY.md:55, after SIGTERM "if any remain, send SIGKILL".  The
\* timeout and the process cap send SIGTERM once and never look again.
TerminatedGone ==
  \A j \in Jobs :
    status[j] \in {"TIMEOUT", "PROC_LIMIT"} /\ process_group[j] = "own"
      ~> (proc[j] # "alive" /\ kids[j] = 0) \/ Dead

\* docs/RESOURCE_GOVERNOR.md:34, max_running_jobs is the "Concurrent job limit".
\* tick asks once and starts several.
RunningLimit == Cardinality(Active) <= Policy.max_running_jobs

\* docs/RESOURCE_GOVERNOR.md:61, every tick is to "Reap finished processes".
\* The leader of a job that was cancelled, timed out or capped is never waited
\* for, and the job's pipes stay open.
EndedReaped ==
  \A j \in Jobs :
    status[j] \in Terminal /\ proc[j] = "zombie"
      ~> (proc[j] = "reaped" /\ fds[j] = {}) \/ Dead

\* The same line: the scan of a job whose leader has exited reaps it.  A job
\* whose recorded group is the daemon's is waited for under a number that is
\* no child's, and stays RUNNING until its timeout, which kills the daemon.
ScanReaps ==
  [][\A j \in Jobs :
       ScanJob(j) /\ proc[j] = "zombie" => proc'[j] = "reaped"]_vars
=============================================================================
