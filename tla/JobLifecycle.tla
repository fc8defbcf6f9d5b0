---------------------------- MODULE JobLifecycle ----------------------------
(***************************************************************************)
(* What the job runner promises its clients: a submitted job waits in one  *)
(* line, leaves it once and only from its head, to run (at most Capacity   *)
(* at a time) or to fail, and what has ended never runs again.             *)
(***************************************************************************)
EXTENDS Naturals, Sequences, FiniteSets

CONSTANTS Jobs, Capacity

VARIABLES line, active, ended

InLine(j) == \E i \in DOMAIN line : line[i] = j

Init == line = <<>> /\ active = {} /\ ended = {}

Submit(j) ==
  /\ ~InLine(j) /\ j \notin active \cup ended
  /\ line' = Append(line, j)
  /\ UNCHANGED <<active, ended>>

Start ==
  /\ line # <<>>
  /\ Cardinality(active) < Capacity
  /\ active' = active \cup {Head(line)}
  /\ line' = Tail(line)
  /\ UNCHANGED ended

Fail ==
  /\ line # <<>>
  /\ ended' = ended \cup {Head(line)}
  /\ line' = Tail(line)
  /\ UNCHANGED active

End(j) ==
  /\ j \in active
  /\ active' = active \ {j}
  /\ ended' = ended \cup {j}
  /\ UNCHANGED line

Next == \/ \E j \in Jobs : Submit(j) \/ End(j)
        \/ Start \/ Fail

Spec == Init /\ [][Next]_<<line, active, ended>>
=============================================================================
