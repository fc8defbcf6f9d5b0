------------------------- MODULE MCProcessGovernor -------------------------
(* An instance of ProcessGovernor for TLC: payloads.                       *)
EXTENDS ProcessGovernor

Braced(members) == [size |-> "fits", braces |-> TRUE, members |-> members]
Pid(n) == Member("pid", Number(n))
Policy(group, members) == Member(group, Object(members, TRUE))
N(key, n) == Member(key, Number(n))
Affinity(parts) == Policy("cpu", <<Member("affinity", Text(parts))>>)
Cpus(first, last) == [part |-> "range", first |-> first, last |-> last]

\* Steps of every kind; both limits of one kind, one of the other; a second
\* object of the same name; the number of a process, and 0, after truncation;
\* a range of CPUs that runs backwards, for no process; a word for a CPU, and
\* more niceness than there is; an object left open.
MCAccepted ==
  {Braced(<<Pid(1),
            Policy("cpu", <<Member("affinity", Text(<<Cpus(0, 3)>>))>>),
            Policy("cpu", <<N("nice", 10)>>),
            N("oom_score_adj", 500)>>),
   Braced(<<Pid(2 * Half32 + 1),
            Policy("rlim", <<N("nofile_soft", 3), N("nofile_hard", 4),
                             N("core_soft", 2)>>)>>),
   Braced(<<Pid(1), Affinity(<<Cpus(3, 1), [part |-> "blank"]>>)>>),
   Braced(<<Pid(2 * Half32), Member("rlim", Object(<<N("core_hard", 12)>>,
                                                    FALSE))>>),
   Braced(<<Pid(1), Policy("cpu", <<Member("affinity", Text(<<Cpus(0, 0), [part |-> "junk"]>>)),
                            N("nice", 100)>>)>>)}

\* One payload for each way of being refused.
MCRefused ==
  {[size |-> "over", braces |-> TRUE, members |-> <<>>],
   [size |-> "empty", braces |-> FALSE, members |-> <<>>],
   [size |-> "fits", braces |-> FALSE, members |-> <<>>],
   Braced(<<>>),
   Braced(<<Pid(0)>>),
   Braced(<<Pid(Half64)>>),
   Braced(<<Pid(1), Member(NotAKey, Junk)>>),
   Braced(<<[Pid(1) EXCEPT !.colon = FALSE]>>),
   Braced(<<Pid(1), Member("colour", Junk)>>),
   Braced(<<Pid(1), Policy("cpu", <<N("colour", 1)>>)>>),
   Braced(<<Pid(1), Policy("cpu", <<Member(NotAKey, Junk)>>)>>),
   Braced(<<Pid(1), [Policy("cpu", <<N("nice", 1)>>) EXCEPT !.space = TRUE]>>),
   Braced(<<Pid(1), Policy("cpu", <<N("nice", 128)>>)>>),
   Braced(<<Pid(1), Policy("cpu", <<N("max_pct", 256)>>)>>),
   Braced(<<Pid(1), Policy("mem", <<N("max_bytes", -1)>>)>>),
   Braced(<<Pid(1), Policy("pids", <<N("max", 2 * Half32)>>)>>),
   Braced(<<Pid(1), Policy("rlim", <<N("core_soft", 2 * Half64)>>)>>),
   Braced(<<Pid(1), Member("cpu", Object(<<N("nice", 7)>>, FALSE))>>),
   Braced(<<Pid(1), Member("mem", Object(<<>>, FALSE))>>),
   Braced(<<Pid(1), N("oom_score_adj", 1001)>>)}

MCPayloads == MCAccepted \cup MCRefused

\* A message for each of two processes.
MCTwo == {Braced(<<Pid(1)>>), Braced(<<Pid(2)>>)}

MCOwnLimits == [nofile |-> [cur |-> 5, max |-> 6], core |-> [cur |-> 0, max |-> 6]]
MCOldLimits == [nofile |-> [cur |-> 7, max |-> 8], core |-> [cur |-> 7, max |-> 8]]
=============================================================================
