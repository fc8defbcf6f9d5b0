------------------------------- MODULE JobLog -------------------------------
(***************************************************************************)
(* The captured output of a job (Job::output, Job::error, bytes_written    *)
(* and log_truncated of include/heidi-kernel/job.h) and the two operations *)
(* that change it: the append after a pipe read in check_job_limits and    *)
(* the truncation of enforce_job_log_cap.  Texts are abstracted to their   *)
(* lengths in bytes.                                                       *)
(***************************************************************************)
EXTENDS Integers

Log == [output : Nat, error : Nat, bytes_written : Nat, log_truncated : BOOLEAN]

EmptyLog ==
  [output |-> 0, error |-> 0, bytes_written |-> 0, log_truncated |-> FALSE]

Total(log) == log.output + log.error

\* What one read() returned: n > 0 bytes are appended, 0 (end of file) and
\* -1 (nothing available) leave the log alone.
Got(n) == IF n > 0 THEN n ELSE 0

AppendReads(log, n_out, n_err) ==
  [output |-> log.output + Got(n_out),
   error |-> log.error + Got(n_err),
   bytes_written |-> log.bytes_written + Got(n_out) + Got(n_err),
   log_truncated |-> log.log_truncated]

\* spawn_job reports a failure in job.error: a short message.
SetError(log) ==
  [output |-> log.output, error |-> 1, bytes_written |-> log.bytes_written,
   log_truncated |-> log.log_truncated]

\* The tail of a text of length len that is kept when at most keep bytes may
\* stay.
KeepTail(len, keep) == IF len > keep THEN keep ELSE len

OverCap(log, max_log_bytes) == Total(log) > max_log_bytes

\* Mutant: standard error may use the whole budget.
TruncateNoShare(log, max_log_bytes) ==
  [output |-> KeepTail(log.output, max_log_bytes \div 2),
   error |-> KeepTail(log.error, max_log_bytes),
   bytes_written |-> max_log_bytes,
   log_truncated |-> TRUE]

\* enforce_job_log_cap, when the cap is exceeded: standard output keeps half
\* of the budget, standard error what is then left of it.
Truncate(log, max_log_bytes) ==
  LET output == KeepTail(log.output, max_log_bytes \div 2)
      remaining == max_log_bytes - output
  IN  [output |-> output,
       error |-> KeepTail(log.error, remaining),
       bytes_written |-> max_log_bytes,
       log_truncated |-> TRUE]
=============================================================================
