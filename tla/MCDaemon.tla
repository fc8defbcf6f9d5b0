------------------------------ MODULE MCDaemon ------------------------------
(* An instance of Daemon for TLC: policy updates and measurements.         *)
EXTENDS Daemon

\* Two good ones, one whose first field is good and whose second is the
\* double NaN, and one just out of range.
MCUpdates ==
  {[max_running_jobs |-> 1],
   [cooldown_ms |-> 7],
   [max_running_jobs |-> 2, cpu_high_watermark_pct |-> NaN],
   [mem_high_watermark_pct |-> 101]}

\* Memory nearly used up.
MCMeasurements == {[cpu |-> 10, total |-> 100, free |-> 5]}
=============================================================================
