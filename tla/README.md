# A TLA+ verification project for heidi-kernel

heidi-kernel is a C++ supervisor for local jobs.  The repository builds two
long-running processes and a set of libraries:

* `heidi-kernel` (`src/kernel`): a status socket, an event loop, and an
  orderly shutdown;
* `heidi-kerneld` (`src/daemon`): a request socket, a monitor thread that
  consults the resource governor, a sampling thread that records metrics;
* the libraries under them: the job runner, the resource governor, metrics,
  the process governor, the policy stores.

Source paths below are relative to the repository root; PROJECT.json gives the
exact lines for every definition.

## 1. Inventory

| Component | State it keeps | Operations | Modelled in |
|---|---|---|---|
| JobRunner (`src/job/job.cpp`) | `jobs_`, `job_queue_`, `scan_cursor_`, each job's status, group, pipes, captured log | `submit_job`, `cancel_job`, `tick`, `check_job_limits`, three enforcement functions | `JobRunner`, `JobLog` |
| ResourceGovernor (`src/governor/resource_governor.cpp`) | the policy | `decide`, `validate_and_update` | `ResourceGovernor` |
| StatusSocket (`src/kernel/status.cpp`) | `subscribers_`, `ring_buffer_`, `stop_requested_`, open descriptors | `serve_forever`, `handle_client`, `publish_event`, `set_stop` | `StatusSocket` |
| RingBuffer (`include/heidi-kernel/ring_buffer.h`) | slots, two indices, a flag | `push`, `last_n`, `size` | `RingBuffer` |
| EventLoop (`src/event_loop.cpp`) | two flags, a worker thread | `run`, `request_stop`, the worker's loop | `EventLoop` |
| heidi-kernel main (`src/kernel/main.cpp`) | `g_signal_received` | start, wait, stop, join | `KernelMain` |
| Daemon (`src/daemon/daemon.cpp`) | policy, counters, latest metrics, diagnostics | request handler, `update_policy`, `handle_monitor_tick`, `sampling_thread` | `Daemon` |
| UnixSocketServer (`src/ipc/ipc.cpp`) | the listening socket | `serve_forever`, `handle_client` | `Daemon` |
| MetricsHistory (`src/metrics/sampler.cpp`) | `metrics.log`, `metrics.log.1` ... | `append`, `rotate_files`, `tail` | `MetricsHistory` |
| MetricsSampler | previous CPU counters | `sample` | its result, as a choice |
| Rule parser (`src/governor/gov_rule.cpp`) | none | `parse_gov_apply` | `GovRule` |
| ProcessGovernor (`src/governor/process_governor.cpp`) | bounded queue, `rules_`, statistics, an apply thread | `enqueue`, `apply_loop`, `apply_rules`, `start`, `stop` | `ProcessGovernor` |
| GroupPolicyStore (`src/governor/group_policy_store.cpp`) | two tables of fixed size, their counts | `upsert_group`, `map_pid_to_group`, `clear`, eviction | `GroupPolicyStore`, `LruTable` |
| PolicyStore (`src/config/policy_store.cpp`) | a file and a temporary file | `load`, `save` | `PolicyStore` |
| ProcfsProcessInspector (`src/job/process_inspector_procfs.cpp`) | none | `count_processes_in_pgid` | `JobRunner` |
| CgroupDriver, kernelctl, config, logger | none that matters here | I/O | no |

How they interact: `tick` and the daemon's monitor both call
`ResourceGovernor::decide`; `tick` then starts jobs and calls
`check_job_limits` under one `mutex_`, which `cancel_job` takes as well.
`publish_event` runs on the threads of its callers and shares
`subscribers_mutex_` with the server thread (the repository has no caller of
it yet: it is modelled as the operation of the class that it is).  Likewise
`tick` is so far called by the tests alone; the daemon owns a JobRunner but
gives it no job.  The daemon's three threads share the policy and counters
(`governor_mutex_`) and the latest sample (`metrics_mutex_`).  A GOV_APPLY
payload goes through the parser into the process governor's queue; the apply
thread alone takes it out.  Nothing in the repository connects a socket to that
queue yet, and only the tests use PolicyStore; no target of the build compiles
GroupPolicyStore.  Everything else reaches the outside: child processes and
their signals, other processes and their limits, sockets, files.

What is hard here, and what makes each component correct:

* **JobRunner.** Between two calls under the mutex the operating system moves:
  the child has or has not reached `setpgid`, a leader exits, a group ignores
  SIGTERM.  Correct means: the concurrency limits hold although the decision
  is taken from counts read once per tick; no queued job is lost; an outcome
  once recorded is final; no signal goes to a group number that may belong to
  somebody else; leaders are reaped and pipes closed; the log stays within its
  cap; the round-robin scan reaches every job; queued jobs start.
* **StatusSocket.** Two kinds of threads close and erase the same descriptors
  while the kernel reuses their numbers; replay and live delivery meet.
  Correct means: the list names open, subscribed connections only, and nobody
  misses an event.
* **Shutdown.** Three threads wait for one another through flags.
* **ProcessGovernor.** The apply thread makes up to five system calls per
  message, each may fail, and the process may end or be replaced between any
  two; stop, start and new messages come at any moment.  Correct means:
  messages are handled once and in order, what the statistics and `rules_` say
  was done, limits reach the process as asked, stop returns.
* **Policy file.** The process or the machine may stop between any two file
  operations, and writes may come short.
* **Group store.** Counts beside slots, eviction by time with equal times.
* **Daemon.** Partial updates, values that are no numbers, silent clients,
  process death in the middle of a rotation.

The `hazards` of PROJECT.json list these one by one, at their lines.

## 2. The modules

`ResourceGovernor` and `RingBuffer` are pure functions on the component's
state.  The others are state machines, one action per operation, or per
critical section where an operation has several or blocks in between.

**JobRunner** extends `ResourceGovernor` and `JobLog` (a captured log as the
number of bytes of each stream).  `mutex_` is held for a whole tick, so a tick
is a sequence of actions during which `pc` is not `"idle"`: `TickBegin`
(decision), `SpawnFork`/`SpawnFail`/`SpawnObserve` per started job,
`StartDone`, one `ScanJob` per scanned job (read, reap, timeout, log cap,
process cap, in the code's order and with its early exits), `TickEnd`.
Between any two of them the operating system may take `ChildSetpgid`,
`LeaderExit`, `KidFork`, `KidExit`.  `rank` is the iteration order of the
unordered map, chosen at submission.  `process_group` is `"own"` or, when the
parent looked too early, `"daemon"`.  `signalled` is a history variable: what
the signals sent so far have hit.  `pc = "dead"` is the daemon after it has
signalled its own group.

**StatusSocket** extends `RingBuffer`.  `spc` is the server thread's place in
`serve_forever`/`handle_client`, `ppc[p]` a publisher's in `publish_event`.
The descriptor set for `select` (`watch`) is built under the mutex and used
after it, as in the code; numbers are handed out lowest first and reused.
The sweep over the list runs with the mutex held, one subscriber per step
(`Sweep`, `Poll`, `SweepEnds`; `it` is the code's iterator), so that clients
may hang up in the middle of it.  Clients connect with a request, hang up,
write, stop reading and read on.  An event is named by the position at which it
was pushed.

**KernelMain** composes `StatusSocket` (by EXTENDS) and `EventLoop` (by
INSTANCE) with the main thread.

**Daemon** extends `ResourceGovernor` and `MetricsHistory`.  Its main thread
serves one client at a time; what the client sends is chosen when it is
accepted.  The process may end at any moment (`End`), which loses everything
but the files, and is started again; the machine stays up, so what was written
stays written, although `append` never syncs.  `MetricsHistory` takes one action
per file operation.

The `MC` modules give constants their values and nothing else.

**JobLifecycle** is what the job runner promises: a line of jobs, `Capacity`
places, an end from which nobody returns.  `JobRunner` implements it
(`ImplementsLifecycle`) with `job_queue` as the line, the STARTING and RUNNING
jobs as the active ones, and as ended those whose outcome is recorded and which
have left the queue.  That last clause is the code's behaviour: `cancel_job`
leaves a queued job in `job_queue_`, and it is started in its turn.

**GovRule** is the parser as a function from a payload to an answer and a
message.  A payload is its members in order, with the distinctions the parser
makes: a key or not, a colon or not, white space after it, a number of any
magnitude, a string, an object closed or left open.  `std::stoll` throwing is
the answer `"throws"`; the cast to `int32_t` is `ToInt32`.

**ProcessGovernor** extends it.  `Receive` parses and enqueues; when the parser
throws, the payload is refused or the process ends (`ReceiveThrows`), since the
repository has no receiver that would catch the exception or not; `thread` is the
apply thread's place; `todo` is the set of steps of `apply_rules` still to be
made.  Each step is an action; `NextStep` picks the one that comes first in the
code (`Place`); it may succeed, fail or (for an affinity that is no number)
throw and end the process.  `ProcessEnds` and `NumberReused` are the operating
system's.  `accepted`, `handled` and `applied` are history variables.

**GroupPolicyStore** keeps slots as the class does; `LruTable` is the abstract
table by name that it implements (`ImplementsLru`).  **PolicyStore** takes one
action per file operation of `save`; a file knows whether the disk has it and
whether a write or a sync of it failed, and `undo` holds what the directory on
disk may still name.  `load` is a function of the text: a field takes its value
from the last member that has its key, where the code would overwrite the
earlier one, and its default where there is none; a member that does not convert
makes `load` throw.

`JobLogProofs`, `JobRunnerProofs`, `JobLifecycleProofs`, `StatusSocketProofs`
(which speaks of `KernelMain` too), `DaemonProofs` (with the history),
`ProcessGovernorProofs`, `GroupPolicyStoreProofs` and `PolicyStoreProofs` hold
the theorems of section 4.

## 3. The runs

### Passing runs

| Run | Instance | Shows |
|---|---|---|
| `sched` | 4 jobs, `max_concurrent_` 3, `max_running_jobs` 2, two starts and two scans per tick, clock 0..1 | `ConcurrencyBound`; `AdmissionOvershoot`; `QueueComplete`; `OutcomeFinal`; `ImplementsLifecycle`; and `IInv`, the invariant of the proofs |
| `os` | 1 job, up to 2 descendants, reads of 0..3 bytes, log cap 5, clock 0..2, the child may lag | `LogBounded`, `NoStrangerSignalled`, `ReapedAndReleased` |
| `live` | 2 jobs, one start and one scan per tick, calm and busy loads, the child may lag | `OverdueEnds`, `ExitNoticed`, `QueuedStarts` |
| `status` | 2 clients, 2 publishers, 2 descriptors, ring of 2, 3 events | `RingHoldsLatest`, `SubscribersLive`, `NoEventMissed` |
| `kernel` | 1 client, 1 publisher, 2 events | `ShutdownCompletes` |
| `daemon` | 2 clients, 4 different updates (one with NaN, one with a watermark of 101), 3 files of 2 samples, 7 samples | `PolicyProtects`, `UpdateAtomic`, `OnlySilenceBlocks`, `FilesBounded`, `RotationKeeps` |
| `governor` | 25 payloads (5 accepted, 20 refused, one for each way), queue of 2, 3 messages, one process number borne by 2 processes, `int32_t` of 11 bits and `int64_t` of 13 | `InOrder`, `CountedAsDone`, `LimitsAsAsked`, `AcceptsWhatWasWritten`, `AcceptedHandled`, `StopReturns` |
| `groups` | 4 names (one too long), 2 slots per table, 3 times, one eviction per table and `clear` | `CountsAgree`, `ImplementsLru` |
| `policyfile` | 2 saves of 3 policies over 5 files, every failure and loss | `SaveAtomic`, `LoadsWhatWasSaved` |

Why these bounds are enough for the cases of interest.  In `sched` four jobs
with three places and two starts per tick are the smallest instance in which
ticks fill the places and still leave a job queued, cancelled or failing; the
governor's limit of two is below the three places, so that a tick with two
running jobs would start a third if the limit were not looked at.  One job suffices for `os`, since jobs share no processes, pipes
or logs; two descendants exceed the process cap of the instance's limits, and
reads of 3 bytes make both streams exceed a cap of 5, alone and together.  In
`live` one scan per tick for two jobs makes the cursor matter.  In `status`
two descriptors for two clients that may come and go make numbers be reused,
and three events wrap a ring of two.  In `daemon` the seventh sample is the
first whose rotation removes a file that has content.  In `governor` three
messages fill a queue of two and keep one in hand, the five accepted payloads
have every step, an object given twice, one left open, both and one of the limits, pids that become 1 and 0 by
truncation, and one reuse of the number is enough for a message to straddle
it.  In `groups` three names for two slots force evictions, and times may be
equal.  In `policyfile` the second save finds the first one's leftovers.

`AdmissionOvershoot` deserves a word: `tick` asks the governor once and then
starts up to `max_starts_per_tick` jobs, so `max_running_jobs` (with the
default budget of 5) can be exceeded by up to 4.  The property states the
bound that does hold, and that the excess is the work of one tick: those jobs
that a tick in its start loop did not start itself are below the limit.  That
second half is what a lost limit would break in `sched`, where the first one
coincides with `ConcurrencyBound`.  `running_limit` below refutes the limit
itself; `ConcurrencyBound` (`max_concurrent_`) is exact.

Deadlock is checked where the system cannot stop.  It is switched off for
`os` and `live` (the daemon may have signalled itself), for `governor` (an
exception ends the process), for `status` and `kernel` (the
process may have died of SIGPIPE or have exited, and clients are finite).

### Fairness

* `live`: the holder of `mutex_` makes progress and a forked child reaches
  `setpgid` (scheduling); ticks keep coming with an advancing clock, and
  infinitely many of them come with a load below the watermarks (the caller of
  `tick`; strong fairness, because cancels and submissions also take the
  mutex).  Nothing is assumed of the jobs: each may run for ever.
  `OverdueEnds` speaks of deadlines that the bounded clock can pass.  The child
  may lag behind the parent's `getpgid`, so that the daemon may end up signalling
  itself; the three properties allow for that (`Dead`), and `ExitNoticed` speaks
  of jobs whose own group was recorded, since of the others it is false
  (`exit_unnoticed`).
* `kernel`: every thread runs; a subscriber that has stopped reading reads on
  some day.  Without that last assumption `ShutdownCompletes` fails: `send`
  blocks with `subscribers_mutex_` held and the server thread never gets to
  see the stop flag.
* `daemon`: the main thread runs and the listen queue is fair.  Nothing is
  assumed of clients: one that sends nothing may stay for ever.  A client that
  waits is then not served (`silent_client`), and `OnlySilenceBlocks` says that
  nothing else has this effect: it is served, hangs up, the process ends, or a
  silent client is being read from.
* `governor`: the apply thread runs, and so does an owner whose thread has
  exited.  Nothing is assumed of processes, messages or system calls.

### Findings

Each is a property that states what a document of the repository says, and
which TLC refutes.  The first three are runs of PROJECT.json.

* `queue_wedge`.  `decide` answers REJECT_QUEUE_FULL while `max_queue_depth`
  jobs are queued, `tick` starts nothing on that answer, and `submit_job` never
  refuses: the full queue stays full for ever.  docs/RESOURCE_GOVERNOR.md:86
  has it reject new submissions.
* `daemon_signalled`.  The parent may call `getpgid` before the child's
  `setpgid`; it then records its own group and later signals itself.
* `ping_unanswered`.  `handle_client` leaves the descriptor of every answered
  client open; when they run out no ping is answered.

The others are kept as configurations beside the runs, each with the model of a
passing run, its instance or a smaller one, and the one property.
`tlc -config Finding_<name>.cfg <module>` gives the counterexample; the module
is `MCJobRunner` for the first four, `MCDaemon` for `silent_client`,
`MCPolicyStore` for the last three and `MCProcessGovernor` for the rest.

* `running_limit` (`RunningLimit`).  One decision, several starts: more jobs
  run than the "Concurrent job limit" of docs/RESOURCE_GOVERNOR.md:34.
* `sigterm_ignored` (`TerminatedGone`). docs/PROCESS_POLICY.md:55 has SIGKILL
  follow SIGTERM.  A timeout and the process cap send SIGTERM once, change the
  status, and never look at the job again; only `cancel_job` escalates.
* `ended_unreaped` (`EndedReaped`). docs/RESOURCE_GOVERNOR.md:61 has finished
  processes reaped.  `waitpid` is called for jobs that are RUNNING only, so
  the leader of a job that was cancelled, timed out or capped stays a zombie
  and its pipes stay open.
* `exit_unnoticed` (`ScanReaps`).  The same line; with the daemon's group
  recorded for a job `waitpid` is asked about a number that is no child's.
* `silent_client` (`ClientServed`). docs/ARCHITECTURE.md:63 asks for blocking
  I/O with timeouts; the daemon's `read` has none, and one client keeps all
  others waiting.
* `pid_cut` (`PidAsWritten`). docs/GOVERNOR.md:44 and :62.  The pid is checked
  before the cast to `int32_t` (gov_rule.cpp:207-212): 2^32 + 1 is accepted
  and applied to process 1, 2^32 is accepted and dropped uncounted
  (`IgnorePidZero`).
* `nice_range` (`NiceInRange`). docs/GOVERNOR.md:46 has nice between -20 and
  19; -128 to 127 are accepted.
* `malformed_accepted` (`MalformedRefused`). docs/GOVERNOR.md:64 has malformed
  JSON refused.  An object left open is accepted, and its last number loses
  its last digit (`Clip`).
* `pid_reused` (`OneProcessPerMessage`). docs/GOVERNOR.md:8 has pidfd or start
  times guard against reuse of a pid.  The code has neither: half of a message
  goes to one process and half to the next.
* `rules_unbounded` (`RulesBounded`). docs/GOVERNOR.md:76 has rules evicted;
  `kMaxRules` is never read.
* `save_torn` (`SaveAlwaysAtomic`). policy_store.h:16 has `save` be atomic.  A
  write that came short (a full disk) or a failed fsync is not looked at, and
  the file is renamed all the same.  `SaveAtomic` is what holds without them.
* `load_throws` (`LoadNeverThrows`). policy_store.h:13 has `load` fall back to
  defaults on error.  It throws where a number is missing, on a file such a
  save leaves, for example.
* `load_invalid` (`LoadsValid`). docs/RESOURCE_GOVERNOR.md:167 has invalid
  values fall back to defaults.  Percentages are not checked, and NaN is
  loaded as it was saved.

Further disagreements between documents and code, read off the model and not
given a property of their own:

* docs/RESOURCE_GOVERNOR.md:84 has START_NOW start queued jobs.  A job
  cancelled while queued stays in `job_queue_` and is started all the same
  (job.cpp:572).
* The same document, line 96, has MEM_HIGH mean that memory usage is above the
  watermark.  `tick` passes the available share as `mem_pct` (`MemPct`,
  job.cpp:555), so jobs are held while memory is free.  The daemon's monitor
  passes the used share.
* docs/IPC.md:60 has a failing command answered by a line.  A policy update
  with a value that is no number ends the daemon through an uncaught exception
  (`UpdateThrow`).
* docs/RESOURCE_GOVERNOR.md:51 has `max_child_processes` 0 mean no limit; the
  code compares with it (`enforce_job_process_cap`).
* docs/ARCHITECTURE.md:73-81 describe a clean shutdown.  `heidi-kerneld` has
  none: `UnixSocketServer::serve_forever` is a loop without an exit, and the
  code behind it would join the monitor thread before clearing `running_`.
* docs/IPC.md:54 has `metrics tail <n>` return the last n samples.  The request
  does not exist, and `tail` reads the current file only, so it returns fewer
  right after a rotation.
* The example of docs/GOVERNOR.md (line 19) has a space between `"cpu":` and the
  brace; the parser answers NACK_PARSE_ERROR (gov_rule.cpp:216).  A number
  beyond 64 bits makes `parse_gov_apply` throw.
* Its line 45 describes `affinity`; a text like "all" makes `std::stoi` throw in
  the apply thread and ends the process (`StepThrows`).
* Its lines 50-53 list soft and hard limits.  With a soft limit alone the struct
  is overwritten by the governor's own limits (process_governor.cpp:297), and
  those are what the process gets (`Rlim`).
* Its lines 47-49 and 82 have three fields enforced by cgroups: nothing reads them,
  and CgroupDriver can never become available.
* tests/test_group_policy_store.cpp:143 expects a pid mapped into a full table
  to be found again.  The pid map is filled at any free slot and searched by
  slot index (`TouchPid`), so pid 8192 of 8192 slots is never found.  And
  `upsert_group` stores the limits of a new group only when it is called a
  second time (`InsertGroup`).  Neither that test nor the class is compiled.
* `stoull` wraps a negative duration in the policy file around (`Converted`), where
  docs/RESOURCE_GOVERNOR.md:167 has invalid values replaced.

Two behaviours of StatusSocket that no document speaks of: when a publisher
closes a descriptor that `select` is about to watch, `select` fails with EBADF
and the server thread ends for good; and when that number is reused by the
connection accepted in the same round, the new subscriber may be dropped as
"hung up".  Both are steps of the model.  A crash in the middle of a rotation
makes the next rotation give up one more file than usual, though always the
last one (`RotationKeeps`).

## 4. What is proved

TLAPS checks every proof of this section to the last leaf.

### JobRunner

For every finite set of jobs, all limits, budgets, loads and policies with a
non-negative `max_running_jobs`, and with the child lagging or not
(`JobLogProofs`, `JobRunnerProofs`, `JobLifecycleProofs`):

| Theorem | States |
|---|---|
| `Inductive` | `Spec => []IInv` |
| `TypeCorrect` | `Spec => []TypeOK` |
| `Concurrency` | `Spec => []ConcurrencyBound` |
| `Overshoot` | `Spec => []AdmissionOvershoot` |
| `LogCap` | `Spec => []LogBounded` |
| `NoStranger` | `Spec => []NoStrangerSignalled` |
| `Released` | `Spec => []ReapedAndReleased` |
| `QueueSound` | `Spec => []QueueComplete` |
| `Final` | `Spec => OutcomeFinal` |
| `Refines` | `Spec => ImplementsLifecycle` |

The assumptions are the named ASSUMEs of `JobRunner` and `ResourceGovernor`;
TLC evaluates them in every run.

The argument.  None of the properties is inductive alone; `IInv`
(`JobRunnerInv`) is their strengthening, in six parts beside `TypeOK` and
`NoStrangerSignalled`:

* `PhaseInv` ties `pc` to the job in hand: only the job being spawned is
  STARTING.
* `CountInv` is what makes the limits hold: during the start loop
  `running + started`, plus one while a job is being spawned, accounts for
  every active job, although cancelled jobs in the queue, failed spawns and
  finished jobs disturb the counts in between.
* `JobInv` relates a job's status to its process, group and pipes: only a job
  recorded as ended by exit has a reaped leader.  It carries `ReapedAndReleased`, and with `"own"` implying that the leader was not
  reaped while RUNNING it gives `NoStrangerSignalled`.
* `QueueInv` says that each queued job is in `job_queue_` once, and that what
  waits there has never run.
* `ScanInv` says that a job of this tick's scan that is no longer RUNNING was
  already visited; with `ModDistinct` (two different steps of the round robin
  have different indices) no job is scanned, and so ended, twice.
* `LogInv` is the cap between scans, and the cap plus two reads for ever
  after, from the lemmas `AppendReadsBound` and `TruncateBound` on the log
  functions.

One lemma per part shows that every action preserves it (`TypeStep`,
`PhaseStep`, `CountStep`, `JobStep`, `QueueStep`, `ScanStep`, `LogStep`,
`SignalStep`); `Final` follows from `JobInv` and `ScanInv` step by step.
`Refines` maps each action, under `IInv`, to a step of `JobLifecycle` or to
none: `QueueInv` makes the head of the queue the job that starts or fails,
`CountInv` gives the free place, and `ScanInv` makes sure that what a scan ends
was active.

### ProcessGovernor

For every set of payloads and of process numbers, every queue capacity and every
number of messages and processes (`ProcessGovernorProofs`):

| Theorem | States |
|---|---|
| `GovernorInductive` | `Spec => []GovernorInv` |
| `GovernorTypes` | `Spec => []TypeOK` |
| `HandledInOrder` | `Spec => []InOrder` |
| `CountsAreHonest` | `Spec => []CountedAsDone` |
| `LimitsFollowMessages` | `Spec => []LimitsAsAsked` |

`OrderInv` is inductive by itself: the numbers of the handled messages, of the
one in hand and of the queued ones count up place by place (`Numbered`; the
message in hand when an exception ended the apply thread still counts), and a message
is in hand exactly between `TakeMessage` and `Record` (`HandInv`).  The second
half of `HandInv` is about `start`: it finds no thread left over, because `stop`
does not return before the join.  Without it a new thread could begin to take
messages while an old one still held one.

The other properties speak of what was done for a message, so that three more
parts are needed.  `SameMsg`: what is queued and in hand is what was accepted
under its number.  `AppliedInv`: system calls were made only for handled
messages and the one in hand, and for processes that there have been; it keeps a
new message from inheriting the calls of another, and a new process from
inheriting limits.  `ProgressInv`: of the message in hand, exactly the steps not
in `todo` have been made, all of them before those in `todo`, and between the
last step and `Record` the result is the right one.  `CountedAsDone` is then
carried as `OutcomesRight` and `RulesRight`, one statement per handled message
and per process.  `NextStepFirst`, `StepsMadeAppend` and `MaxLast` are the lemmas
on the operators: the next step is the first of those left, a call adds one step
to one message, and the last of a growing set of positions is the new one.  What
the parser makes of a payload plays no part.

### StatusSocket

For every number of clients, publishers, descriptors and events and every ring
capacity (`StatusSocketProofs`):

| Theorem | States |
|---|---|
| `SocketInductive` | `Spec => []SocketInv` |
| `SocketTypes` | `Spec => []TypeOK` |
| `RingStaysInOrder` | `Spec => []RingHoldsLatest` |
| `SubscribersStayLive` | `Spec => []SubscribersLive` |
| `StreamIsComplete` | `Spec => []NoEventMissed` |
| `KernelIsSocket` | `KernelSpec => Spec` |

`SocketInv` has, beside `TypeOK` and `SubscribersLive`:

* `RingInv`: the two indices and the flag say how many events were pushed, and
  the slot j places back from the write index holds the j-th latest event.
  `RingHoldsLatest` follows with `OneTurn`, the only fact about `%` that the
  ring needs; `PushStep` shows that a push keeps it.
* `LockInv`: which steps hold `subscribers_mutex_`.  Sends, replay and sweep
  exclude one another only because of it.
* `FdInv` and `ServingInv`: an open connection has a number of its own, the one in
  `handle_client` is open and not yet in the list.  Without them a reused number
  could appear twice in the list.
* `PassInv`: the iterators of a pass are valid.
* `StreamInv`: every event pushed since a subscriber's replay began has been
  received, is in the replay being sent, or has a publisher that has not yet
  passed this subscriber (`Owes`).  The step that needs care is an erasure in
  front of an iterator (`ErasedList`, `EraseAt`): positions move, what is owed
  must not.

`KernelIsSocket` shows that the composed process takes only steps of
`StatusSocket`, so that all of this holds of it as well.

### Daemon

For every set of clients, updates and measurements, every file size and number
of files (`DaemonProofs`):

| Theorem | States |
|---|---|
| `DaemonInductive` | `Spec => []DaemonInv` |
| `DaemonTypes` | `Spec => []TypeOK` |
| `PolicyStaysSafe` | `Spec => []PolicyProtects` |
| `HistoryBounded` | `Spec => []FilesBounded` |
| `RotationSafe` | `Spec => RotationKeeps` |
| `UpdateIsAtomic` | `Spec => UpdateAtomic` |

`DaemonInv` adds three parts.  `GovernorInv`: the policy in force has passed
validation; that a valid policy protects is the lemma `ValidProtects`, in which
NaN matters.  `UpdateInv`: between parse and apply, `new_policy` is the policy
still in force with the fields of the request.  `RotationInv`: the file the next
rename overwrites is empty, which is why a rotation, also one resumed after a
crash, drops only what `remove` drops; and the rotation ends with room in
`metrics.log`.

### PolicyStore

For every set of policies that the C++ types allow, every text somebody
may have put there and any number of saves, crashes and power losses
(`PolicyStoreProofs`):

| Theorem | States |
|---|---|
| `StoreInductive` | `Spec => []StoreInv` |
| `StoreTypes` | `Spec => []TypeOK` |
| `SaveIsAtomic` | `Spec => []SaveAtomic` |
| `LoadAfterSave` | `Spec => []LoadsWhatWasSaved` |

`TempInv` follows the temporary file: unless something failed it holds the whole
text when it is synced, and is on the disk when it is renamed.  `FileInv` says
that the file and every file a power loss may bring back is sound, and that
after a save that returned it is that save's.  `LoadText` is the lemma on
`load`: what `save` writes for a policy is read back field by field.
`LoadsWhatWasSaved`, and with it `LoadAfterSave`, says nothing of a policy whose
percentages are none, where load should give defaults and does not
(`load_invalid`).

### GroupPolicyStore

For every number of slots and every set of names, limits and processes
(`GroupPolicyStoreProofs`):

| Theorem | States |
|---|---|
| `GroupInductive` | `Spec => []GroupInv` |
| `GroupTypes` | `Spec => []TypeOK` |
| `CountsStayRight` | `Spec => []CountsAgree` |
| `StoreIsLru` | `Spec => ImplementsLru` |

`GroupInv` adds to the types and the counts that no name has two slots
(`Unique`): `upsert_group` searches for the name before it takes a slot.  The
refinement needs it, since the table by name reads the first slot of a name
while the code writes a slot by its number.  `TableChange` says how writing one
slot changes the table; with it the three cases of `upsert_group` are the three
steps of `LruTable` (`UpdateIsUpdate`, `InsertIsInsert`, `EvictIsReplace`), and
`CountsAgree` turns the comparison of the count with `kMaxGroups` into whether a
slot is free.

### Assumptions and limits

The assumptions are the named ASSUMEs of the modules (such as
`GovernorAssumption`, `LimitsAssumption`, `StatusAssumption`,
`DaemonAssumption`, `PolicyStoreAssumption`, `DecimalsAssumption`, `StoreAssumption`); TLC evaluates
them in the runs.  Each inductive invariant was checked by TLC on the instance
of its component's run before it was proved.  That a set of positions has a
first or a last member rests on `WFMin` of the library.  A few leaves allow the
prover more than its default time (`SMTT(30)`, `ZenonT(60)`).

Only model-checked:

* the liveness properties `OverdueEnds`, `ExitNoticed`, `QueuedStarts`,
  `ShutdownCompletes`, `OnlySilenceBlocks`, `AcceptedHandled` and `StopReturns`:
  fairness and ENABLED are beyond the prover;
* `AcceptsWhatWasWritten`, for payloads whose objects are closed and, where it
  speaks of the pid, whose pid is an `int32_t`: the parser goes over the members of a payload of any
  length, and what it computes needs induction over data;
* the findings, which are refutations.

## 5. What is left out, and why

* Text: command lines, JSON, log lines and messages are abstracted to the
  distinctions the code makes on them.  Percentages are integers plus NaN; in
  the policy file also `Decimals`, the numbers, whole or not, of which
  `operator<<` does not print every digit.
* Output is counted in bytes; its content is not modelled.
* A loss of power under `metrics.log` (only PolicyStore models one).
* A clock that goes backwards between ticks; a torn last line in
  `metrics.log` when the process dies inside a write.
* `get_job_status`, `get_recent_jobs`, `tail`, `format_status` only read.
* Several owners that call `start` and `stop` of one ProcessGovernor at once
  (the class does not support it).  Braces inside strings of a GOV_APPLY
  payload.  A clock set backwards by `set_time_for_test`.
* MetricsSampler's arithmetic on two CPU counters; its result is any member of
  `Measurements`.
* CgroupDriver: its constructor looks at `enabled_` before anybody can set it,
  so nothing behind `available_` is reachable.
* kernelctl, configuration and logging are I/O without state of their own.
  `app/main.cpp` is an older copy of the
  heidi-kernel main program.

## 6. Plan

Done: the job runner with its proofs and its abstract specification; the
resource governor; the status socket, the event loop and the heidi-kernel
process; the daemon with its history; the rule parser and the process governor;
the two policy stores.

Every invariant and action property of the passing runs, and both refinements,
are proved, except `AcceptsWhatWasWritten`.

Next:

1. Facts about single steps of the parser (a cast, a clipped number, one member)
   that do not need induction.
2. Safety facts of the shutdown in `KernelMain` that lead up to
   `ShutdownCompletes` (who may still hold what when main joins).
3. The hazards of PROJECT.json without a property.
