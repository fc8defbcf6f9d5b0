--------------------------- MODULE MCPolicyStore ---------------------------
(* An instance of PolicyStore for TLC.                                     *)
EXTENDS PolicyStore

CONSTANT Fine        \* the double 90.00000001

\* One in range, one with values out of range, one with odd doubles.
MCPolicies ==
  {[DefaultPolicy EXCEPT !.max_running_jobs = 20, !.min_start_gap_ms = 0],
   [DefaultPolicy EXCEPT !.max_running_jobs = 0, !.max_queue_depth = 10001],
   [DefaultPolicy EXCEPT !.cpu_high_watermark_pct = NaN,
                         !.mem_high_watermark_pct = Fine]}

\* No file; "invalid json"; the file of tests/test_policy_store.cpp:61; a key
\* given twice, a key nobody knows and a negative duration; no number.
M(k, v) == [key |-> k, value |-> v]
MCHand ==
  {Absent, <<>>,
   <<M("max_running_jobs", -1), M("max_queue_depth", 100)>>,
   <<M("max_running_jobs", 7), M("colour", NoValue), M("cooldown_ms", -1),
     M("max_running_jobs", 1001)>>,
   <<M("max_queue_depth", NoValue)>>}

\* The ones of them that load without an exception.
MCLoadable == {t \in MCHand : load(t) # Throws}

MCDecimals == {Fine}
MCNearest == [x \in {Fine} |-> 90]
=============================================================================
