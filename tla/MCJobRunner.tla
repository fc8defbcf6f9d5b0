---------------------------- MODULE MCJobRunner ----------------------------
(* Instances of JobRunner for TLC: policies, limits and loads.             *)
EXTENDS JobRunnerInv, TLC

CONSTANTS MaxRunningJobs, MaxQueueDepth, MaxRuntime, MaxLog, MaxChildren

MCPolicy ==
  [max_running_jobs |-> MaxRunningJobs, max_queue_depth |-> MaxQueueDepth,
   cpu_high_watermark_pct |-> 85, mem_high_watermark_pct |-> 90,
   cooldown_ms |-> 1000, min_start_gap_ms |-> 100]

MCLimits ==
  [j \in Jobs |-> [max_runtime_ms |-> MaxRuntime, max_log_bytes |-> MaxLog,
                   max_child_processes |-> MaxChildren]]

\* A calm machine; a busy processor.
CalmLoad == [cpu |-> 10, total |-> 100, available |-> 50]
BusyCpu == [cpu |-> 90, total |-> 100, available |-> 50]

CalmOnly == {CalmLoad}
CalmOrBusy == {CalmLoad, BusyCpu}

\* Jobs that write nothing.
NoOutput == -1

Symmetry == Permutations(Jobs)
=============================================================================
