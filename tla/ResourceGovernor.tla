-------------------------- MODULE ResourceGovernor --------------------------
(***************************************************************************)
(* The admission rules of src/governor/resource_governor.cpp: the pure     *)
(* function decide, which JobRunner::tick and the Daemon's monitor tick    *)
(* both call, and validate_and_update, the only guarded way to change the  *)
(* policy a governor holds.                                                *)
(*                                                                         *)
(* Percentages are C++ doubles.  They are abstracted to integers plus one  *)
(* value NaN, which compares false with everything, as IEEE 754 demands.   *)
(***************************************************************************)
EXTENDS Integers

CONSTANT NaN     \* the double that is not a number

ASSUME NaNAssumption == NaN \notin Int

Pct == Int \cup {NaN}

-----------------------------------------------------------------------------
(* Types (include/heidi-kernel/resource_governor.h).                       *)

GovernorPolicy ==
  [max_running_jobs : Int, max_queue_depth : Int,
   cpu_high_watermark_pct : Pct, mem_high_watermark_pct : Pct,
   cooldown_ms : Nat, min_start_gap_ms : Nat]

\* The policy a default-constructed governor holds.
DefaultPolicy ==
  [max_running_jobs |-> 10, max_queue_depth |-> 100,
   cpu_high_watermark_pct |-> 85, mem_high_watermark_pct |-> 90,
   cooldown_ms |-> 1000, min_start_gap_ms |-> 100]

GovernorDecision == {"START_NOW", "HOLD_QUEUE", "REJECT_QUEUE_FULL"}
BlockReason == {"NONE", "CPU_HIGH", "MEM_HIGH", "QUEUE_FULL", "RUNNING_LIMIT"}

Result(d, r, t) == [decision |-> d, reason |-> r, retry_after_ms |-> t]

-----------------------------------------------------------------------------
\* x >= y on doubles: false as soon as one side is NaN.
AtLeast(x, y) == x # NaN /\ y # NaN /\ x >= y

\* Mutant: the comparison admits one job more.
AtRunningLimitOff(policy, running_jobs) ==
  running_jobs > policy.max_running_jobs

AtRunningLimit(policy, running_jobs) ==
  running_jobs >= policy.max_running_jobs

\* The five rules, in the order of the code's early returns.
decide(policy, cpu_pct, mem_pct, running_jobs, queued_jobs) ==
  IF queued_jobs >= policy.max_queue_depth
    THEN Result("REJECT_QUEUE_FULL", "QUEUE_FULL", policy.cooldown_ms)
  ELSE IF AtRunningLimit(policy, running_jobs)
    THEN Result("HOLD_QUEUE", "RUNNING_LIMIT", policy.min_start_gap_ms)
  ELSE IF AtLeast(cpu_pct, policy.cpu_high_watermark_pct)
    THEN Result("HOLD_QUEUE", "CPU_HIGH", policy.cooldown_ms)
  ELSE IF AtLeast(mem_pct, policy.mem_high_watermark_pct)
    THEN Result("HOLD_QUEUE", "MEM_HIGH", policy.cooldown_ms)
  ELSE Result("START_NOW", "NONE", 0)

-----------------------------------------------------------------------------
\* Mutant: written as the absence of a number out of range, NaN passes.
InPctRangeNaive(x) == x = NaN \/ ~(x < 0 \/ x > 100)

InPctRange(x) == x # NaN /\ x >= 0 /\ x <= 100

\* The fields of a policy that fail validation.
PolicyErrors(policy) ==
  {f \in DOMAIN policy :
     \/ f = "max_running_jobs" /\ policy[f] \notin 1..1000
     \/ f = "max_queue_depth" /\ policy[f] \notin 1..10000
     \/ /\ f \in {"cpu_high_watermark_pct", "mem_high_watermark_pct"}
        /\ ~InPctRange(policy[f])}

ValidPolicy(policy) == PolicyErrors(policy) = {}

\* All or nothing: the new policy takes effect only when no field is wrong.
validate_and_update(current, policy) ==
  [success |-> ValidPolicy(policy),
   errors |-> PolicyErrors(policy),
   effective_policy |-> IF ValidPolicy(policy) THEN policy ELSE current]
=============================================================================
