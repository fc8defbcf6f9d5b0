---------------------------- MODULE JobRunnerInv ----------------------------
(***************************************************************************)
(* The inductive invariant of JobRunner from which its safety properties   *)
(* follow.  TLC checks it as an invariant; JobRunnerProofs proves that     *)
(* every step preserves it.                                                *)
(***************************************************************************)
EXTENDS JobRunner

Silent(j) == log[j] = EmptyLog

\* Where the holder of mutex_ is, and what that says of the job it handles.
PhaseInv ==
  /\ pc = "scan" => scan # {} /\ checked <= Cardinality(scan)
  /\ pc = "observe" => status[cur] = "STARTING"
  /\ pc = "cancel" => status[cur] = "RUNNING"
  /\ \A j \in Jobs : status[j] = "STARTING" => pc = "observe" /\ j = cur

\* running + started, and one for a job being spawned, accounts for every
\* active job while the start loop runs.
CountInv ==
  /\ Cardinality(Active) <= MaxConcurrent
  /\ Cardinality(Active) # 0 =>
       Cardinality(Active) < Policy.max_running_jobs + MaxStarts
  /\ pc \in {"start", "observe"} =>
       /\ running < Policy.max_running_jobs /\ started <= MaxStarts
       /\ Cardinality(Active) <=
            running + started + (IF pc = "observe" THEN 1 ELSE 0)
  /\ pc = "observe" => started < MaxStarts /\ running + started < MaxConcurrent
  /\ pc \notin {"start", "observe"} => started = 0

\* What the status of a job says of its process and its log.
JobInv ==
  \A j \in Jobs :
    /\ status[j] \in {"ABSENT", "QUEUED"} =>
         ~Ran(j) /\ proc[j] = "none" /\ Silent(j)
    /\ status[j] = "STARTING" =>
         ~Ran(j) /\ proc[j] \in {"forked", "alive", "zombie"} /\ Silent(j)
    /\ status[j] = "RUNNING" => Ran(j) /\ proc[j] # "reaped"
    /\ status[j] \in {"COMPLETED", "TIMEOUT", "PROC_LIMIT"} => Ran(j)
    /\ process_group[j] = "own" => proc[j] \in {"alive", "zombie", "reaped"}
    /\ proc[j] = "reaped" => /\ status[j] \in {"COMPLETED", "FAILED"}
                              /\ fds[j] = {} /\ process_group[j] = "own"

QueueInv ==
  /\ QueueComplete
  /\ \A j \in Waiting : ~Ran(j) /\ Silent(j)

\* A job of running_jobs that is no longer active was already scanned: the
\* round-robin index visits no job twice in a tick.
ScanInv ==
  pc = "scan" =>
    \A j \in scan :
      \/ status[j] = "RUNNING"
      \/ \E c \in 0..(checked - 1) :
           Index(j) = (scan_cursor + c) % Cardinality(scan)

\* Between two scans the log of an active job is within its cap.
LogInv ==
  \A j \in Jobs :
    /\ Ran(j) => Total(log[j]) <= Limits[j].max_log_bytes + 2 * Got(Chunk)
    /\ status[j] = "RUNNING" => Total(log[j]) <= Limits[j].max_log_bytes

IInv ==
  /\ TypeOK /\ PhaseInv /\ CountInv /\ JobInv /\ QueueInv /\ ScanInv /\ LogInv
  /\ NoStrangerSignalled
=============================================================================
