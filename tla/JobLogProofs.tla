---------------------------- MODULE JobLogProofs ----------------------------
(* What the log operations guarantee, for logs and caps of every size.     *)
EXTENDS JobLog, TLAPS

\* Reads append what they returned: at most two chunks in all.
LEMMA AppendReadsBound ==
  ASSUME NEW log \in Log, NEW c \in Int,
         NEW n_out \in Int, NEW n_err \in Int, n_out <= c, n_err <= c
  PROVE  /\ AppendReads(log, n_out, n_err) \in Log
         /\ Total(AppendReads(log, n_out, n_err)) <= Total(log) + 2 * Got(c)
<1>1. /\ Got(n_out) \in Nat /\ Got(n_out) <= Got(c)
      /\ Got(n_err) \in Nat /\ Got(n_err) <= Got(c)
      /\ Got(c) \in Nat
  BY DEF Got
<1> QED
  BY <1>1 DEF Log, AppendReads, Total

\* Truncation yields a log within the cap, whatever the sizes were: the two
\* subtractions of enforce_job_log_cap never wrap around.
LEMMA TruncateBound ==
  ASSUME NEW log \in Log, NEW max_log_bytes \in Nat
  PROVE  /\ Truncate(log, max_log_bytes) \in Log
         /\ Total(Truncate(log, max_log_bytes)) <= max_log_bytes
<1> DEFINE keep == max_log_bytes \div 2
<1>1. keep \in Nat /\ keep <= max_log_bytes
  OBVIOUS
<1> HIDE DEF keep
<1>2. KeepTail(log.output, keep) \in 0..keep
  BY <1>1 DEF KeepTail, Log
<1>3. Truncate(log, max_log_bytes) =
        [output |-> KeepTail(log.output, keep),
         error |-> KeepTail(log.error,
                            max_log_bytes - KeepTail(log.output, keep)),
         bytes_written |-> max_log_bytes,
         log_truncated |-> TRUE]
  BY DEF Truncate, keep
<1>4. KeepTail(log.error, max_log_bytes - KeepTail(log.output, keep))
        \in 0..(max_log_bytes - KeepTail(log.output, keep))
  BY <1>1, <1>2 DEF KeepTail, Log
<1> QED
  BY <1>1, <1>2, <1>3, <1>4 DEF Log, Total
=============================================================================
