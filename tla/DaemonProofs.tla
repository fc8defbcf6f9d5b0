---------------------------- MODULE DaemonProofs ----------------------------
(***************************************************************************)
(* The daemon's policy and its metrics history, for every set of clients,  *)
(* updates and measurements, every file size, number of files and number   *)
(* of samples.                                                             *)
(***************************************************************************)
EXTENDS Daemon, SequenceTheorems, TLAPS

\* The rotation in progress: the file the next rename overwrites is empty, so
\* that the renames lose nothing, and the loop ends with an empty metrics.log.
RotationInv ==
  /\ hpc # "idle" => appended < MaxSamples
  /\ hpc = "shift" => files[shift + 1] = <<>>
  /\ hpc = "write" => Len(files[0]) <= MaxFileSize

\* update_policy between its parse and its apply: the copy is the policy in
\* effect with the request's fields replaced, for nobody else changes it.
UpdateInv ==
  main = "update" => /\ request.kind = "update"
                     /\ new_policy = Merged(policy, request.body)

\* Nobody submits jobs, and every policy that took effect passed validation.
GovernorInv == queued_jobs = 0 /\ running_jobs = 0 /\ ValidPolicy(policy)

DaemonInv ==
  TypeOK /\ RotationInv /\ FilesBounded /\ UpdateInv /\ GovernorInv

-----------------------------------------------------------------------------
(* The operators.                                                          *)

\* validate_and_update accepts a policy with its four checked fields in range.
LEMMA ValidFields ==
  ASSUME NEW p \in GovernorPolicy
  PROVE  ValidPolicy(p) <=>
           /\ p.max_running_jobs \in 1..1000 /\ p.max_queue_depth \in 1..10000
           /\ InPctRange(p.cpu_high_watermark_pct)
           /\ InPctRange(p.mem_high_watermark_pct)
<1>1. DOMAIN p = {"max_running_jobs", "max_queue_depth",
                  "cpu_high_watermark_pct", "mem_high_watermark_pct",
                  "cooldown_ms", "min_start_gap_ms"}
  BY DEF GovernorPolicy
<1> DEFINE Bad(f) ==
      \/ f = "max_running_jobs" /\ p[f] \notin 1..1000
      \/ f = "max_queue_depth" /\ p[f] \notin 1..10000
      \/ /\ f \in {"cpu_high_watermark_pct", "mem_high_watermark_pct"}
         /\ ~InPctRange(p[f])
<1>2. ValidPolicy(p) <=> \A f \in DOMAIN p : ~Bad(f)
  <2>1. PolicyErrors(p) = {f \in DOMAIN p : Bad(f)}
    BY DEF PolicyErrors
  <2> HIDE DEF Bad
  <2> QED
    BY <2>1 DEF ValidPolicy
<1>3. (\A f \in DOMAIN p : ~Bad(f)) <=>
        /\ ~Bad("max_running_jobs") /\ ~Bad("max_queue_depth")
        /\ ~Bad("cpu_high_watermark_pct") /\ ~Bad("mem_high_watermark_pct")
        /\ ~Bad("cooldown_ms") /\ ~Bad("min_start_gap_ms")
  <2> HIDE DEF Bad
  <2> QED
    BY <1>1
<1>4. ~Bad("cooldown_ms") /\ ~Bad("min_start_gap_ms")
  OBVIOUS
<1>5. /\ ~Bad("max_running_jobs") <=> p.max_running_jobs \in 1..1000
      /\ ~Bad("max_queue_depth") <=> p.max_queue_depth \in 1..10000
      /\ ~Bad("cpu_high_watermark_pct") <=> InPctRange(p.cpu_high_watermark_pct)
      /\ ~Bad("mem_high_watermark_pct") <=> InPctRange(p.mem_high_watermark_pct)
  BY SMTT(30)
<1> HIDE DEF Bad
<1> QED
  BY <1>2, <1>3, <1>4, <1>5

\* The policy a new governor has is one it would accept.
LEMMA DefaultValid == DefaultPolicy \in GovernorPolicy /\ ValidPolicy(DefaultPolicy)
<1>1. DefaultPolicy \in GovernorPolicy
  BY DEF DefaultPolicy, GovernorPolicy, Pct
<1>2. /\ DefaultPolicy.max_running_jobs = 10 /\ DefaultPolicy.max_queue_depth = 100
      /\ DefaultPolicy.cpu_high_watermark_pct = 85
      /\ DefaultPolicy.mem_high_watermark_pct = 90
  BY DEF DefaultPolicy
<1>3. NaN # 85 /\ NaN # 90
  BY NaNAssumption
<1> QED
  BY <1>1, <1>2, <1>3, ValidFields DEF InPctRange

\* update_policy keeps the type of every field.
LEMMA MergedType ==
  ASSUME NEW p \in GovernorPolicy, NEW u \in Updates
  PROVE  Merged(p, u) \in GovernorPolicy
<1>1. Merged(DefaultPolicy, u) \in GovernorPolicy
  BY DaemonAssumption
<1>2. DOMAIN DefaultPolicy = DOMAIN p
  BY DEF DefaultPolicy, GovernorPolicy
<1> DEFINE M == Merged(p, u)
           D == Merged(DefaultPolicy, u)
<1>3. DOMAIN M = DOMAIN p /\ DOMAIN D = DOMAIN p
  BY <1>2 DEF Merged
<1>4. \A f \in DOMAIN p : M[f] = D[f] \/ M[f] = p[f]
  BY <1>2, SMTT(30) DEF Merged
<1> QED
  BY <1>1, <1>3, <1>4 DEF GovernorPolicy, Merged

\* What a valid policy decides at full load.
LEMMA ValidProtects ==
  ASSUME NEW p \in GovernorPolicy, ValidPolicy(p)
  PROVE  /\ p.max_running_jobs \in 1..1000
         /\ decide(p, 100, 0, 0, 0).decision # "START_NOW"
         /\ decide(p, 0, 100, 0, 0).decision # "START_NOW"
<1>2. /\ p.max_running_jobs \in 1..1000 /\ p.max_queue_depth \in 1..10000
      /\ InPctRange(p.cpu_high_watermark_pct)
      /\ InPctRange(p.mem_high_watermark_pct)
  BY ValidFields, SMTT(30)
<1>3. /\ p.cpu_high_watermark_pct \in Int /\ p.cpu_high_watermark_pct <= 100
      /\ p.mem_high_watermark_pct \in Int /\ p.mem_high_watermark_pct <= 100
  BY <1>2 DEF InPctRange, GovernorPolicy, Pct
<1> QED
  BY <1>2, <1>3, NaNAssumption, SMTT(30) DEF decide, AtRunningLimit, AtLeast, Result

\* The type of a decision.
LEMMA DecideType ==
  ASSUME NEW p \in GovernorPolicy, NEW x, NEW y, NEW r, NEW q
  PROVE  decide(p, x, y, r, q) \in [decision : GovernorDecision,
                                    reason : BlockReason, retry_after_ms : Nat]
BY DEF decide, Result, GovernorDecision, BlockReason, GovernorPolicy

-----------------------------------------------------------------------------
(* The metrics history.                                                    *)

\* Each step of append and rotate_files, and the end of the process at any
\* point of them.
LEMMA HistoryStep ==
  ASSUME HistoryTypeOK, RotationInv, FilesBounded,
         History \/ HistoryCrash \/ UNCHANGED historyVars
  PROVE  (HistoryTypeOK /\ RotationInv /\ FilesBounded)'
<1>0. /\ MaxFiles \in Nat /\ MaxFiles >= 2 /\ MaxFileSize \in Nat
      /\ MaxSamples \in Nat /\ 0 \in FileIds /\ MaxFiles - 1 \in FileIds
      /\ FileIds \subseteq Int
      /\ \A i \in FileIds : files[i] \in Seq(1..MaxSamples)
      /\ <<>> \in Seq(1..MaxSamples) /\ Len(<<>>) = 0
  BY HistoryAssumption DEF FileIds, HistoryTypeOK
<1>1. CASE AppendBegin
  BY <1>0, <1>1 DEF AppendBegin, HistoryTypeOK, RotationInv, FilesBounded,
                    RotationDue, FileIds
<1>2. CASE RemoveOldest
  BY <1>0, <1>2 DEF RemoveOldest, HistoryTypeOK, RotationInv, FilesBounded,
                    FirstShift, FileIds
<1>3. CASE Shift
  <2>1. shift \in 0..(MaxFiles - 2) /\ shift \in FileIds /\ shift + 1 \in FileIds
    BY <1>0, <1>3 DEF Shift, HistoryTypeOK, FileIds
  <2>2. files[shift + 1] = <<>>
    BY <1>3 DEF Shift, RotationInv
  <2>3. /\ DOMAIN files' = FileIds
        /\ files' = [i \in FileIds |-> files'[i]]
        /\ \A i \in FileIds :
             files'[i] = IF i = shift + 1 THEN files[shift]
                         ELSE IF i = shift THEN <<>> ELSE files[i]
    BY <1>3, <2>1, <2>2 DEF Shift, ShiftSource, HistoryTypeOK
  <2>4. shift' = shift - 1 /\ hpc = "shift" /\ UNCHANGED <<hpc, appended>>
    BY <1>3 DEF Shift
  <2> DEFINE S == Seq(1..MaxSamples)
  <2>5. \A i \in FileIds : files'[i] \in S
    <3>1. files[shift] \in S /\ <<>> \in S /\ \A i \in FileIds : files[i] \in S
      BY <1>0, <2>1
    <3> HIDE DEF S
    <3> QED
      BY <2>3, <3>1
  <2>6. files' \in [FileIds -> S]
    <3> HIDE DEF S
    <3> QED
      BY <2>3, <2>5
  <2>7. HistoryTypeOK'
    BY <1>0, <2>1, <2>4, <2>6 DEF HistoryTypeOK, FileIds
  <2>8. RotationInv'
    <3>1. files'[shift] = <<>> /\ (shift - 1) + 1 = shift
      BY <2>1, <2>3
    <3> QED
      BY <2>4, <3>1 DEF RotationInv
  <2>9. \A i \in FileIds : Len(files'[i]) <= MaxFileSize + 1
    <3>1. /\ Len(files[shift]) <= MaxFileSize + 1 /\ Len(<<>>) <= MaxFileSize + 1
          /\ \A i \in FileIds : Len(files[i]) <= MaxFileSize + 1
      BY <1>0, <2>1 DEF FilesBounded
    <3> QED
      BY <2>3, <3>1
  <2> QED
    BY <2>7, <2>8, <2>9 DEF FilesBounded, FileIds
<1>4. CASE Shifted
  <2>1. shift = -1 /\ files[0] = <<>>
    BY <1>4, <1>0 DEF Shifted, HistoryTypeOK, RotationInv
  <2> QED
    BY <1>0, <1>4, <2>1 DEF Shifted, HistoryTypeOK, RotationInv, FilesBounded,
                            FileIds
<1>5. CASE Write
  <2>1. /\ appended + 1 \in 1..MaxSamples
        /\ Len(files[0]) <= MaxFileSize /\ Len(files[0]) \in Nat
    BY <1>0, <1>5, LenProperties DEF Write, HistoryTypeOK, RotationInv
  <2>2. /\ Append(files[0], appended + 1) \in Seq(1..MaxSamples)
        /\ Len(Append(files[0], appended + 1)) = Len(files[0]) + 1
    BY <1>0, <2>1, AppendProperties
  <2>3. files' = [files EXCEPT ![0] = Append(files[0], appended + 1)]
    BY <1>5 DEF Write
  <2> QED
    BY <1>0, <1>5, <2>1, <2>2, <2>3
    DEF Write, HistoryTypeOK, RotationInv, FilesBounded, FileIds
<1>6. CASE HistoryCrash
  BY <1>0, <1>6 DEF HistoryCrash, HistoryTypeOK, RotationInv, FilesBounded, FileIds
<1>7. CASE UNCHANGED historyVars
  BY <1>7 DEF historyVars, HistoryTypeOK, RotationInv, FilesBounded, FileIds
<1> QED
  BY <1>1, <1>2, <1>3, <1>4, <1>5, <1>6, <1>7 DEF History

\* A sample is kept when it is in one of the files.
LEMMA KeptMember ==
  /\ \A x : x \in Kept <=> \E i \in FileIds : x \in SamplesOf(i)
  /\ \A x : x \in Kept' <=> \E i \in FileIds : x \in SamplesOf(i)'
BY DEF Kept, FileIds

\* A step that gives the samples of every file but the last a file to be in
\* loses at most those of the last.
LEMMA KeptUnlessLast ==
  ASSUME \A i \in FileIds \ {MaxFiles - 1} :
           \E k \in FileIds : SamplesOf(i) \subseteq SamplesOf(k)'
  PROVE  Kept \ Kept' \subseteq SamplesOf(MaxFiles - 1)
BY KeptMember

\* A step of the history loses no sample but those of the oldest file.
LEMMA RotationStep ==
  ASSUME HistoryTypeOK, RotationInv,
         History \/ HistoryCrash \/ UNCHANGED historyVars
  PROVE  Kept \ Kept' \subseteq SamplesOf(MaxFiles - 1)
<1>0. /\ MaxFiles \in Nat /\ MaxFiles >= 2 /\ 0 \in FileIds
      /\ MaxFiles - 1 \in FileIds /\ FileIds = 0..(MaxFiles - 1)
      /\ DOMAIN files = FileIds
      /\ \A i \in FileIds : files[i] \in Seq(1..MaxSamples)
  BY HistoryAssumption DEF FileIds, HistoryTypeOK
<1>1. CASE UNCHANGED files
  BY <1>1, KeptUnlessLast DEF SamplesOf
<1>2. CASE RemoveOldest
  <2>1. \A i \in FileIds \ {MaxFiles - 1} : files'[i] = files[i]
    BY <1>0, <1>2 DEF RemoveOldest
  <2> QED
    BY <2>1, KeptUnlessLast DEF SamplesOf
<1>3. CASE Shift
  <2>1. shift \in 0..(MaxFiles - 2) /\ shift \in FileIds /\ shift + 1 \in FileIds
    BY <1>0, <1>3 DEF Shift, HistoryTypeOK, FileIds
  <2>2. files[shift + 1] = <<>>
    BY <1>3 DEF Shift, RotationInv
  <2>3. /\ files'[shift + 1] = files[shift]
        /\ \A i \in FileIds \ {shift, shift + 1} : files'[i] = files[i]
    BY <1>0, <1>3, <2>1, <2>2 DEF Shift, ShiftSource
  <2>4. \A k \in FileIds : k = shift + 1 => SamplesOf(shift) \subseteq SamplesOf(k)'
    BY <2>3 DEF SamplesOf
  <2>5. SamplesOf(shift + 1) = {}
    BY <2>2 DEF SamplesOf
  <2>6. \A i \in FileIds \ {shift, shift + 1} :
          SamplesOf(i) \subseteq SamplesOf(i)'
    BY <2>3 DEF SamplesOf
  <2>7. \A i \in FileIds : \E k \in FileIds : SamplesOf(i) \subseteq SamplesOf(k)'
    BY <2>1, <2>4, <2>5, <2>6
  <2> QED
    BY <2>7, KeptUnlessLast
<1>4. CASE Write
  <2>1. files' = [files EXCEPT ![0] = Append(files[0], appended + 1)]
    BY <1>4 DEF Write
  <2>2. /\ DOMAIN files[0] = 1..Len(files[0])
        /\ 1..Len(files[0]) \subseteq DOMAIN Append(files[0], appended + 1)
        /\ \A k \in 1..Len(files[0]) :
             Append(files[0], appended + 1)[k] = files[0][k]
    <3> DEFINE s == files[0]
               e == appended + 1
    <3>1. s \in Seq(1..MaxSamples) /\ e \in 1..MaxSamples
      <4>1. hpc # "idle"
        BY <1>4 DEF Write
      <4> QED
        BY <1>0, <4>1, HistoryAssumption DEF RotationInv, HistoryTypeOK
    <3> HIDE DEF s, e
    <3>2. /\ Append(s, e) \in Seq(1..MaxSamples)
          /\ Len(Append(s, e)) = Len(s) + 1
          /\ \A k \in 1..Len(s) : Append(s, e)[k] = s[k]
      BY <3>1, AppendProperties
    <3>3. /\ Len(s) \in Nat /\ DOMAIN s = 1..Len(s)
          /\ DOMAIN Append(s, e) = 1..Len(Append(s, e))
      BY <3>1, <3>2, LenProperties
    <3>4. 1..Len(s) \subseteq DOMAIN Append(s, e)
      BY <3>2, <3>3
    <3> QED
      BY <3>2, <3>3, <3>4 DEF s, e
  <2>3. SamplesOf(0) \subseteq SamplesOf(0)'
    BY <1>0, <2>1, <2>2 DEF SamplesOf
  <2>4. \A i \in FileIds \ {0} : SamplesOf(i) \subseteq SamplesOf(i)'
    BY <1>0, <2>1 DEF SamplesOf
  <2> QED
    BY <2>3, <2>4, KeptUnlessLast
<1> QED
  BY <1>1, <1>2, <1>3, <1>4
  DEF History, HistoryCrash, AppendBegin, Shifted, historyVars

-----------------------------------------------------------------------------
(* The daemon.                                                             *)

\* To the history every step of the daemon is one of its own steps, a crash,
\* or nothing.
LEMMA DaemonHistory ==
  ASSUME [Next]_vars
  PROVE  History \/ HistoryCrash \/ UNCHANGED historyVars
BY DEF Next, vars, Serve, Accept, ReadNothing, Query, UpdateParse, UpdateThrow,
       UpdateApply, WriteFails, End, MonitorWake, MonitorTick, Sample,
       AppendSample, Connect, HangUp, Crash, Restart, History

\* The invariant at the start of heidi-kerneld.
LEMMA DaemonInit == Init => DaemonInv
<1> SUFFICES ASSUME Init PROVE DaemonInv
  OBVIOUS
<1>1. HistoryTypeOK /\ RotationInv /\ FilesBounded
  BY HistoryAssumption
  DEF Init, HistoryInit, HistoryTypeOK, RotationInv, FilesBounded, FileIds
<1>2. Silence \in Requests /\ NoMetrics \in Metrics
      /\ Result("START_NOW", "NONE", 0) \in
           [decision : GovernorDecision, reason : BlockReason,
            retry_after_ms : Nat]
  BY DEF Requests, NoMetrics, Metrics, Result, GovernorDecision, BlockReason
<1>3. TypeOK
  BY <1>1, <1>2, DefaultValid DEF Init, Fresh, TypeOK
<1>4. UpdateInv /\ GovernorInv
  BY DefaultValid DEF Init, Fresh, UpdateInv, GovernorInv
<1> QED
  BY <1>1, <1>3, <1>4 DEF DaemonInv

\* The process ends: memory is as after a start.
LEMMA EndStep ==
  ASSUME NEW how \in {"crashed", "SIGPIPE", "exception"}, End(how),
         HistoryTypeOK'
  PROVE  (TypeOK /\ UpdateInv /\ GovernorInv)'
<1>1. Silence \in Requests /\ NoMetrics \in Metrics
      /\ Result("START_NOW", "NONE", 0) \in
           [decision : GovernorDecision, reason : BlockReason,
            retry_after_ms : Nat]
  BY DEF Requests, NoMetrics, Metrics, Result, GovernorDecision, BlockReason
<1>2. TypeOK'
  BY <1>1, DefaultValid DEF End, TypeOK
<1> QED
  BY <1>2, DefaultValid DEF End, UpdateInv, GovernorInv

\* Every step of the daemon keeps it.
LEMMA DaemonStep == DaemonInv /\ [Next]_vars => DaemonInv'
<1> SUFFICES ASSUME DaemonInv, [Next]_vars PROVE DaemonInv'
  OBVIOUS
<1>0. /\ TypeOK /\ HistoryTypeOK /\ RotationInv /\ FilesBounded /\ UpdateInv
      /\ GovernorInv
  BY DEF DaemonInv, TypeOK
<1>h. (HistoryTypeOK /\ RotationInv /\ FilesBounded)'
  BY <1>0, DaemonHistory, HistoryStep
<1> SUFFICES (TypeOK /\ UpdateInv /\ GovernorInv)'
  BY <1>h DEF DaemonInv
<1>1. ASSUME NEW c \in Clients, Accept(c) PROVE (TypeOK /\ UpdateInv /\ GovernorInv)'
  BY <1>0, <1>h, <1>1
  DEF Accept, TypeOK, UpdateInv, GovernorInv, monitorVars
<1>2. CASE ReadNothing \/ Query
  <2>1. Silence \in Requests
    BY DEF Requests
  <2> QED
    BY <1>0, <1>h, <1>2, <2>1
    DEF ReadNothing, Query, CloseClient, TypeOK, UpdateInv, GovernorInv,
        monitorVars
<1>3. CASE UpdateParse
  <2>1. request \in {Request("update", u) : u \in Updates}
    BY <1>0, <1>3 DEF UpdateParse, TypeOK, Requests, Silence, Request
  <2>2. request.body \in Updates
    BY <2>1 DEF Request
  <2>3. Merged(policy, request.body) \in GovernorPolicy
    BY <1>0, <2>2, MergedType DEF TypeOK
  <2> QED
    BY <1>0, <1>h, <1>3, <2>3
    DEF UpdateParse, TypeOK, UpdateInv, GovernorInv, monitorVars, connVars
<1>4. CASE UpdateThrow \/ WriteFails \/ Crash
  BY <1>4, <1>h, EndStep DEF UpdateThrow, WriteFails, Crash
<1>5. CASE UpdateApply
  <2>1. Silence \in Requests
    BY DEF Requests
  <2>2. policy' \in GovernorPolicy /\ ValidPolicy(policy')
    BY <1>0, <1>5 DEF UpdateApply, validate_and_update, TypeOK, GovernorInv
  <2>3. DefaultPolicy \in GovernorPolicy
    BY DefaultValid
  <2> QED
    BY <1>0, <1>h, <1>5, <2>1, <2>2, <2>3
    DEF UpdateApply, CloseClient, TypeOK, UpdateInv, GovernorInv, monitorVars
<1>6. CASE MonitorWake
  BY <1>0, <1>h, <1>6
  DEF MonitorWake, TypeOK, UpdateInv, GovernorInv, mainVars, connVars
<1>7. CASE MonitorTick
  <2>1. queued_jobs = 0 /\ running_jobs = 0
    BY <1>0 DEF GovernorInv
  <2>2. diagnostics' \in [decision : GovernorDecision, reason : BlockReason,
                          retry_after_ms : Nat]
    BY <1>0, <1>7, DecideType DEF MonitorTick, TypeOK
  <2>3. queued_jobs' = 0 /\ running_jobs' = 0
    BY <1>7, <2>1 DEF MonitorTick
  <2>4. NoMetrics \in Metrics
    BY DEF NoMetrics, Metrics
  <2> QED
    BY <1>0, <1>h, <1>7, <2>2, <2>3, <2>4
    DEF MonitorTick, TypeOK, UpdateInv, GovernorInv, mainVars, connVars
<1>8. CASE Sample
  <2>1. latest_metrics' \in Metrics
    BY <1>8, DaemonAssumption DEF Sample
  <2> QED
    BY <1>0, <1>h, <1>8, <2>1
    DEF Sample, TypeOK, UpdateInv, GovernorInv, mainVars, monitorVars, connVars
<1>9. CASE AppendSample
  BY <1>0, <1>h, <1>9
  DEF AppendSample, TypeOK, UpdateInv, GovernorInv, memoryVars, mainVars,
      monitorVars, connVars
<1>10. ASSUME NEW c \in Clients, Connect(c) \/ HangUp(c)
       PROVE  (TypeOK /\ UpdateInv /\ GovernorInv)'
  BY <1>0, <1>h, <1>10
  DEF Connect, HangUp, TypeOK, UpdateInv, GovernorInv, memoryVars, mainVars,
      monitorVars
<1>11. CASE Restart \/ UNCHANGED vars
  BY <1>0, <1>h, <1>11
  DEF Restart, TypeOK, UpdateInv, GovernorInv, vars, memoryVars, mainVars,
      monitorVars, connVars
<1> QED
  BY <1>1, <1>2, <1>3, <1>4, <1>5, <1>6, <1>7, <1>8, <1>9, <1>10, <1>11
  DEF Next, Serve

\* The inductive invariant holds in every state the daemon reaches, through
\* crashes and restarts.
THEOREM DaemonInductive == Spec => []DaemonInv
BY DaemonInit, DaemonStep, PTL DEF Spec

\* Every variable of the daemon and of its history keeps its type.
THEOREM DaemonTypes == Spec => []TypeOK
<1>1. DaemonInv => TypeOK
  BY DEF DaemonInv
<1> QED
  BY <1>1, DaemonInductive, PTL

\* The policy in effect can protect the machine, whatever updates arrive: no
\* sequence of partial updates, crashes and restarts gets round validation.
THEOREM PolicyStaysSafe == Spec => []PolicyProtects
<1>1. DaemonInv => PolicyProtects
  BY ValidProtects DEF DaemonInv, GovernorInv, TypeOK, PolicyProtects
<1> QED
  BY <1>1, DaemonInductive, PTL

\* No metrics file outgrows the limit by more than the sample that crossed it.
THEOREM HistoryBounded == Spec => []FilesBounded
<1>1. DaemonInv => FilesBounded
  BY DEF DaemonInv
<1> QED
  BY <1>1, DaemonInductive, PTL

\* A rotation loses the samples of the last file and no others, wherever an
\* earlier one was interrupted.
THEOREM RotationSafe == Spec => RotationKeeps
<1>1. DaemonInv /\ [Next]_vars
        => [Kept \ Kept' \subseteq SamplesOf(MaxFiles - 1)]_historyVars
  BY DaemonHistory, RotationStep DEF DaemonInv, TypeOK
<1> QED
  BY <1>1, DaemonInductive, PTL DEF Spec, RotationKeeps

\* An update that takes effect replaces the fields its request names and no
\* others, starting from the policy in effect at that moment.
THEOREM UpdateIsAtomic == Spec => UpdateAtomic
<1>1. ASSUME DaemonInv, [Next]_vars,
             policy' # policy, alive' = "up", alive = "up"
      PROVE  /\ request.kind = "update"
             /\ \A f \in DOMAIN policy :
                  policy'[f] = IF f \in DOMAIN request.body
                                 THEN request.body[f] ELSE policy[f]
  <2>1. UpdateApply
    BY <1>1
    DEF Next, vars, memoryVars, Serve, Accept, ReadNothing, Query, UpdateParse,
        UpdateThrow, WriteFails, End, MonitorWake, MonitorTick, Sample,
        AppendSample, Connect, HangUp, Crash, Restart
  <2>2. policy' = new_policy /\ main = "update"
    BY <1>1, <2>1 DEF UpdateApply, validate_and_update
  <2>3. request.kind = "update" /\ new_policy = Merged(policy, request.body)
    BY <1>1, <2>2 DEF DaemonInv, UpdateInv
  <2> QED
    BY <2>2, <2>3 DEF Merged
<1>2. DaemonInv /\ [Next]_vars
        => [policy' # policy /\ alive' = "up" /\ alive = "up" =>
              /\ request.kind = "update"
              /\ \A f \in DOMAIN policy :
                   policy'[f] = IF f \in DOMAIN request.body
                                  THEN request.body[f] ELSE policy[f]]_vars
  BY <1>1
<1> QED
  BY <1>2, DaemonInductive, PTL DEF Spec, UpdateAtomic
=============================================================================
