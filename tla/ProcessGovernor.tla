-------------------------- MODULE ProcessGovernor --------------------------
(***************************************************************************)
(* ProcessGovernor (src/governor/process_governor.cpp): a bounded queue of *)
(* GOV_APPLY messages and one thread that applies each to the process it   *)
(* names, a system call at a time.                                         *)
(*                                                                         *)
(* Three parties take steps: whoever receives payloads (parse_gov_apply,   *)
(* then enqueue), the apply thread, and the owner of the object (start,    *)
(* stop; the destructor is a stop).  Between any two system calls of the   *)
(* apply thread a process may end and its number be given to another.      *)
(***************************************************************************)
EXTENDS GovRule, FiniteSets

CONSTANTS
  Pids,            \* process numbers the operating system hands out
  Payloads,        \* the payloads that may be received
  kQueueCapacity,
  kMaxRules,       \* declared, and read by nothing but RulesBounded below
  OwnLimits,       \* the limits of the governor's own process
  OldLimits,       \* the limits a new process starts with
  MaxMessages,     \* bound: messages ever accepted
  MaxLives         \* bound: processes ever to bear one number

ASSUME GovernorAssumption ==
  /\ Pids \subseteq 1..(Half32 - 1)
  /\ kQueueCapacity \in Nat /\ kMaxRules \in Nat
  /\ MaxMessages \in Nat /\ MaxLives \in Nat \ {0}

ASSUME LimitsAssumption ==
  LET rlimit == [cur : Nat, max : Nat]
  IN {OwnLimits, OldLimits} \subseteq [nofile : rlimit, core : rlimit]

VARIABLES
  running,         \* running_
  owner,           \* the owner: idle, or in apply_thread_.join()
  thread,          \* where apply_loop is; "none": no thread
  ingress_queue,   \* ingress_queue_, each message with its number
  hand,            \* msg, the message taken from the queue
  todo,            \* apply_rules: the steps still to be made
  result,          \* apply_rules: its result so far
  rules,           \* rules_: the number of the message recorded for a pid
  stats,           \* stats_
  lives,           \* operating system: processes that have borne the number
  alive,           \* operating system: whether the number is in use
  limits,          \* operating system: the limits of the process
  ended,           \* whether an exception of the receiver ended this process
  accepted,        \* history: the messages enqueue has taken, in order
  handled,         \* history: their outcomes, in order
  applied          \* history: the steps made, in order

queueVars == <<ingress_queue, accepted>>
handVars == <<hand, todo, result>>
ruleVars == <<rules, stats, handled>>
osVars == <<lives, alive, limits>>
stateVars == <<running, owner, thread, queueVars, handVars, ruleVars, osVars,
               applied>>
vars == <<stateVars, ended>>

NoMsg == [id |-> 0, msg |-> EmptyMsg]

\* The steps of apply_rules, with their places in the code, and the fields each
\* of them needs one of.  max_pct, max_bytes and max have no step.
Place == [affinity |-> 1, nice |-> 2, nofile |-> 3, core |-> 4, oom |-> 5]
Needs == [affinity |-> {"affinity"},
          nice     |-> {"nice"},
          nofile   |-> {"nofile_soft", "nofile_hard"},
          core     |-> {"core_soft", "core_hard"},
          oom      |-> {"oom_score_adj"}]

Steps == DOMAIN Needs
StepsOf(msg) == {s \in Steps : DOMAIN msg.fields \cap Needs[s] # {}}

\* The parser's answers, evaluated once.
Parsed == [p \in Payloads |-> parse_gov_apply(p)]
Msgs == {Parsed[p].msg : p \in Payloads}

\* The limits a process may have: those of the operating system, and those
\* that messages ask for.
LimitFields == Needs["nofile"] \cup Needs["core"]
Asked == UNION {{m.fields[f] : f \in DOMAIN m.fields \cap LimitFields} :
                  m \in Msgs}
Limit == [cur : Nat \cup Asked, max : Nat \cup Asked]
Outcome == {"processed", "failed", "ignored"}

TypeOK ==
  /\ running \in BOOLEAN /\ ended \in BOOLEAN
  /\ owner \in {"idle", "joining"}
  /\ thread \in {"none", "check", "pop", "apply", "record", "exited",
                 "terminated"}
  /\ Len(ingress_queue) <= kQueueCapacity
  /\ \A i \in DOMAIN ingress_queue : ingress_queue[i].id \in DOMAIN accepted
  /\ hand.id \in {0} \cup DOMAIN accepted
  /\ thread \in {"apply", "record"} <=> hand # NoMsg
  /\ todo \subseteq Steps /\ (todo # {} => thread = "apply")
  /\ result \in {"none", "success", "lookup"} \cup Steps
  /\ DOMAIN rules \subseteq Pids
  /\ \A p \in DOMAIN rules : rules[p] \in DOMAIN accepted
  /\ stats \in [messages_processed : Nat, messages_failed : Nat,
                last_err : {"none", "lookup"} \cup Steps]
  /\ lives \in [Pids -> 0..MaxLives]
  /\ alive \in [Pids -> BOOLEAN]
  /\ limits \in [Pids -> [nofile : Limit, core : Limit]]
  /\ Len(accepted) <= MaxMessages

Init ==
  /\ running = FALSE /\ owner = "idle" /\ thread = "none" /\ ended = FALSE
  /\ ingress_queue = <<>> /\ hand = NoMsg /\ todo = {} /\ result = "none"
  /\ rules = <<>>
  /\ stats = [messages_processed |-> 0, messages_failed |-> 0,
              last_err |-> "none"]
  /\ lives = [p \in Pids |-> 1]
  /\ alive = [p \in Pids |-> TRUE]
  /\ limits = [p \in Pids |-> OldLimits]
  /\ accepted = <<>> /\ handled = <<>> /\ applied = <<>>

\* No exception has ended the process.
Up == thread # "terminated" /\ ~ended

-----------------------------------------------------------------------------
(* The receiver.                                                           *)

\* Mutant: the test admits one message too many.
HasRoomOff == Len(ingress_queue) <= kQueueCapacity

HasRoom == Len(ingress_queue) < kQueueCapacity

enqueue(msg) ==
  /\ HasRoom
  /\ accepted' = Append(accepted, msg)
  /\ ingress_queue' = Append(ingress_queue, [id |-> Len(accepted'),
                                             msg |-> msg])

\* A payload arrives.  It is refused by the parser, refused because the queue
\* is full, or accepted; or the parser throws, and the receiver has a handler.
Receive(payload) ==
  LET r == Parsed[payload] IN
  /\ Up /\ Len(accepted) < MaxMessages
  /\ IF r.ack = "ACK" /\ HasRoom THEN enqueue(r.msg)
                                 ELSE UNCHANGED queueVars
  /\ UNCHANGED <<running, owner, thread, handVars, ruleVars, osVars, applied>>

\* The parser throws, and the receiver has no handler: std::terminate.  The
\* repository has no receiver that would decide which.
ReceiveThrows(payload) ==
  /\ Up /\ Len(accepted) < MaxMessages
  /\ Parsed[payload].ack = "throws"
  /\ ended' = TRUE /\ UNCHANGED stateVars

-----------------------------------------------------------------------------
(* The owner.                                                              *)

start ==
  /\ Up /\ owner = "idle" /\ ~running
  /\ running' = TRUE /\ thread' = "check"
  /\ UNCHANGED <<owner, queueVars, handVars, ruleVars, osVars, applied>>

\* stop waits for the thread; what is queued stays queued.
stop ==
  /\ Up /\ owner = "idle" /\ running
  /\ running' = FALSE /\ owner' = "joining"
  /\ UNCHANGED <<thread, queueVars, handVars, ruleVars, osVars, applied>>

Joined ==
  /\ owner = "joining" /\ thread = "exited"
  /\ owner' = "idle" /\ thread' = "none"
  /\ UNCHANGED <<running, queueVars, handVars, ruleVars, osVars, applied>>

-----------------------------------------------------------------------------
(* apply_loop.                                                             *)

CheckRunning ==
  /\ thread = "check"
  /\ thread' = IF running THEN "pop" ELSE "exited"
  /\ UNCHANGED <<running, owner, queueVars, handVars, ruleVars, osVars,
                 applied>>

\* is_process_alive: /proc/<pid>/stat exists.  No negative number has one.
is_process_alive(pid) == pid \in Pids /\ alive[pid]

\* Mutant: the newest message is taken.
FrontMsgLast == ingress_queue[Len(ingress_queue)]

FrontMsg == Head(ingress_queue)

PopQueue == Tail(ingress_queue)

\* Mutant: an empty queue ends the loop.
SleepNot ==
  /\ thread = "pop" /\ ingress_queue = <<>>
  /\ thread' = "exited"
  /\ UNCHANGED <<running, owner, queueVars, handVars, ruleVars, osVars,
                 applied>>

\* Mutant: the loop waits for a message without looking at running_.
SleepDeep ==
  /\ thread = "pop" /\ ingress_queue = <<>>
  /\ UNCHANGED vars

\* With an empty queue msg keeps pid 0 and the loop sleeps.  A message whose
\* pid is 0 looks the same and is dropped without being counted.
Sleep ==
  /\ thread = "pop" /\ ingress_queue = <<>>
  /\ thread' = "check"
  /\ UNCHANGED <<running, owner, queueVars, handVars, ruleVars, osVars,
                 applied>>

IgnorePidZero ==
  /\ thread = "pop" /\ ingress_queue # <<>>
  /\ FrontMsg.msg.pid = 0
  /\ ingress_queue' = PopQueue
  /\ handled' = Append(handled, [id |-> FrontMsg.id, outcome |-> "ignored"])
  /\ thread' = "check"
  /\ UNCHANGED <<running, owner, accepted, handVars, rules, stats, osVars,
                 applied>>

\* Take a message and look its process up, the one time this is done.
TakeMessage ==
  /\ thread = "pop" /\ ingress_queue # <<>>
  /\ FrontMsg.msg.pid # 0
  /\ hand' = FrontMsg
  /\ ingress_queue' = PopQueue
  /\ IF is_process_alive(FrontMsg.msg.pid)
       THEN /\ todo' = StepsOf(FrontMsg.msg)
            /\ thread' = "apply" /\ UNCHANGED result
       ELSE /\ result' = "lookup"
            /\ thread' = "record" /\ UNCHANGED todo
  /\ UNCHANGED <<running, owner, accepted, ruleVars, osVars, applied>>

-----------------------------------------------------------------------------
(* apply_rules.                                                            *)

pid == hand.msg.pid
fields == hand.msg.fields
NextStep == CHOOSE s \in todo : \A t \in todo : Place[s] <= Place[t]
Has(f) == f \in DOMAIN fields

\* parse_cpu_list.  The text is a list of parts: a number or a range
\* (first..last), a blank, or something std::stoi throws on.  All parts are
\* converted before the first one is checked.
parse_cpu_list(parts) ==
  LET ranges == {r \in Range(parts) : r.part = "range"} IN
  CASE \E r \in Range(parts) : r.part = "junk" -> "throws"
    [] ranges = {} -> "refused"
    [] \E r \in ranges : \E c \in r.first..r.last : c \notin 0..1023 ->
         "refused"
    [] OTHER -> "mask"

\* sched_setaffinity refuses the empty mask a backward range makes.
MaskOk(parts) ==
  /\ parse_cpu_list(parts) = "mask"
  /\ \E r \in Range(parts) : r.part = "range" /\ r.first <= r.last

\* Mutant: both members of rl come from getrlimit.
RlimOwn(own, soft, hard) == own

\* The struct rlimit handed to prlimit.  getrlimit fills both members from
\* the governor's own process: for a message without a hard limit that is
\* the last thing to happen, and the soft limit it asked for is gone.
Rlim(own, soft, hard) ==
  IF ~Has(hard) THEN own
  ELSE [cur |-> IF Has(soft) THEN fields[soft] ELSE own.cur,
        max |-> fields[hard]]

RlimFor(step) ==
  IF step = "nofile" THEN Rlim(OwnLimits.nofile, "nofile_soft", "nofile_hard")
                     ELSE Rlim(OwnLimits.core, "core_soft", "core_hard")

apply_rlimit(step) ==
  /\ RlimFor(step).cur <= RlimFor(step).max
  /\ limits' = [limits EXCEPT ![pid][step] = RlimFor(step)]

\* The arguments of a step are such that its system call can succeed.
Feasible(step) ==
  CASE step = "affinity" -> MaskOk(fields["affinity"])
    [] step \in {"nofile", "core"} -> RlimFor(step).cur <= RlimFor(step).max
    [] OTHER -> TRUE          \* setpriority clamps, the parser bounds oom

\* apply_affinity, apply_nice, apply_rlimit (twice) or apply_oom_score_adj
\* succeeds, for whichever process bears the number now.
StepSucceeds ==
  /\ thread = "apply" /\ todo # {}
  /\ is_process_alive(pid)
  /\ Feasible(NextStep)
  /\ IF NextStep \in {"nofile", "core"} THEN apply_rlimit(NextStep)
                                        ELSE UNCHANGED limits
  /\ applied' = Append(applied, [id |-> hand.id, step |-> NextStep,
                                 pid |-> pid, life |-> lives[pid]])
  /\ todo' = todo \ {NextStep}
  /\ UNCHANGED <<running, owner, thread, queueVars, hand, result, ruleVars,
                 lives, alive>>

\* Mutant: the result of a failed step is not looked at.
AfterFailureGoOn ==
  todo' = todo \ {NextStep} /\ UNCHANGED <<thread, result>>

AfterFailure ==
  todo' = {} /\ thread' = "record" /\ result' = NextStep

\* It fails: the process is gone, the argument is refused, or there is no
\* permission.  apply_rules returns; what was applied stays.
StepFails ==
  /\ thread = "apply" /\ todo # {}
  /\ NextStep = "affinity" => parse_cpu_list(fields["affinity"]) # "throws"
  /\ AfterFailure
  /\ UNCHANGED <<running, owner, queueVars, hand, ruleVars, osVars, applied>>

\* std::stoi throws in the apply thread: std::terminate.
StepThrows ==
  /\ thread = "apply" /\ todo # {}
  /\ NextStep = "affinity" /\ parse_cpu_list(fields["affinity"]) = "throws"
  /\ thread' = "terminated"
  /\ hand' = NoMsg /\ todo' = {}
  /\ UNCHANGED <<running, owner, queueVars, result, ruleVars, osVars, applied>>

StepsDone ==
  /\ thread = "apply" /\ todo = {}
  /\ result' = "success" /\ thread' = "record"
  /\ UNCHANGED <<running, owner, queueVars, hand, todo, ruleVars, osVars,
                 applied>>

\* Under rules_mutex_.
Record ==
  /\ thread = "record"
  /\ IF result = "success"
       THEN /\ stats' = [stats EXCEPT !.messages_processed = @ + 1]
            /\ rules' = Set(rules, pid, hand.id)
            /\ handled' = Append(handled, [id |-> hand.id,
                                           outcome |-> "processed"])
       ELSE /\ stats' = [stats EXCEPT !.messages_failed = @ + 1,
                                      !.last_err = result]
            /\ handled' = Append(handled, [id |-> hand.id,
                                           outcome |-> "failed"])
            /\ UNCHANGED rules
  /\ hand' = NoMsg /\ result' = "none" /\ thread' = "check"
  /\ UNCHANGED <<running, owner, queueVars, todo, osVars, applied>>

-----------------------------------------------------------------------------
(* The operating system.                                                   *)

ProcessEnds(p) ==
  /\ alive[p]
  /\ alive' = [alive EXCEPT ![p] = FALSE]
  /\ UNCHANGED <<running, owner, thread, queueVars, handVars, ruleVars, lives,
                 limits, applied>>

NumberReused(p) ==
  /\ ~alive[p] /\ lives[p] < MaxLives
  /\ alive' = [alive EXCEPT ![p] = TRUE]
  /\ lives' = [lives EXCEPT ![p] = @ + 1]
  /\ limits' = [limits EXCEPT ![p] = OldLimits]
  /\ UNCHANGED <<running, owner, thread, queueVars, handVars, ruleVars,
                 applied>>

-----------------------------------------------------------------------------
\* While the process is there.
Steady == ~ended /\ UNCHANGED ended

Receiver == \E p \in Payloads : (Steady /\ Receive(p)) \/ ReceiveThrows(p)
Waiting == Steady /\ Joined
Owner == (Steady /\ (start \/ stop)) \/ Waiting
ApplyThread ==
  /\ Steady
  /\ \/ CheckRunning \/ Sleep \/ IgnorePidZero \/ TakeMessage
     \/ StepSucceeds \/ StepFails \/ StepThrows \/ StepsDone \/ Record
Os == \E p \in Pids : Steady /\ (ProcessEnds(p) \/ NumberReused(p))

Next == Receiver \/ Owner \/ ApplyThread \/ Os

Spec == Init /\ [][Next]_vars

\* The apply thread is scheduled, and so is an owner that waits for it.
LiveSpec == Spec /\ WF_vars(ApplyThread) /\ WF_vars(Waiting)

-----------------------------------------------------------------------------
(* Safety.                                                                 *)

Ids(s) == [i \in DOMAIN s |-> s[i].id]
InHand == IF hand = NoMsg THEN <<>> ELSE <<hand>>

\* Every message enqueue has taken is handled, in hand or queued, once, and
\* they are handled in the order in which they were taken, across any number
\* of stops and starts and with messages arriving all the while.
InOrder ==
  Up => Ids(handled) \o Ids(InHand) \o Ids(ingress_queue)
          = [i \in DOMAIN accepted |-> i]

StepsMade(id) ==
  {applied[i].step : i \in {i \in DOMAIN applied : applied[i].id = id}}

\* Steps are made in the order of the messages and, of one message, in the
\* order of the code, each once.
StepsInOrder ==
  \A i, k \in DOMAIN applied : i < k =>
    \/ applied[i].id < applied[k].id
    \/ /\ applied[i].id = applied[k].id
       /\ Place[applied[i].step] < Place[applied[k].step]

\* The steps made of a message whose steps are given, if it failed: some of
\* the first, never all.
CutShort(made, steps) ==
  /\ made \subseteq steps
  /\ made = steps => steps = {}
  /\ \A s \in made, t \in steps \ made : Place[s] < Place[t]

OutcomeRight(i) ==
  LET made == StepsMade(i)
      steps == StepsOf(accepted[i])
  IN CASE handled[i].outcome = "processed" -> made = steps
       [] handled[i].outcome = "failed" -> CutShort(made, steps)
       [] OTHER -> made = {}

Processed(p) ==
  {i \in DOMAIN handled :
     handled[i].outcome = "processed" /\ accepted[i].pid = p}

RuleRight(p) ==
  IF Processed(p) = {} THEN p \notin DOMAIN rules
  ELSE p \in DOMAIN rules /\ rules[p] = Max(Processed(p))

\* What stats_ and rules_ say of a message is what was done: a message counted
\* as processed had all its steps made, in the order of the code; a failed one
\* some of the first, never all; and rules_ holds the last processed message
\* of each pid.
CountedAsDone ==
  /\ StepsInOrder
  /\ \A i \in DOMAIN handled : OutcomeRight(i)
  /\ \A p \in Pids : RuleRight(p)

Both(step) == IF step = "nofile" THEN <<"nofile_soft", "nofile_hard">>
                                 ELSE <<"core_soft", "core_hard">>

Hits(p, step) ==
  {i \in DOMAIN applied : /\ applied[i].pid = p /\ applied[i].life = lives[p]
                          /\ applied[i].step = step}

LimitRight(p, step) ==
  LET asked == accepted[applied[Max(Hits(p, step))].id].fields
      soft == Both(step)[1]
      hard == Both(step)[2]
  IN IF Hits(p, step) = {} THEN limits[p][step] = OldLimits[step]
     ELSE {soft, hard} \subseteq DOMAIN asked =>
            limits[p][step] = [cur |-> asked[soft], max |-> asked[hard]]

\* A process has the limits that the last message applied to it asked for, if
\* that message gave both the soft and the hard one; one that no message was
\* applied to since it got its number has its own.
LimitsAsAsked ==
  \A p \in Pids, step \in {"nofile", "core"} : LimitRight(p, step)

-----------------------------------------------------------------------------
(* The parser against a reading of the payload that does not go through it *)
(* from left to right.                                                     *)

LastOf(members, key) ==
  members[Max({i \in DOMAIN members : members[i].key = key})]

Keys(members) == {members[i].key : i \in DOMAIN members}

\* The fields a payload sets: of each policy object the last one counts.
Written(members) ==
  UNION {Keys(LastOf(members, g).value.members) :
           g \in Keys(members) \cap DOMAIN FieldsOf}
  \cup (Keys(members) \cap {"oom_score_adj"})

WrittenValue(members, f) ==
  IF f = "oom_score_adj" THEN LastOf(members, f).value
  ELSE LET g == CHOOSE g \in DOMAIN FieldsOf : f \in FieldsOf[g]
       IN LastOf(LastOf(members, g).value.members, f).value

PidWritten(payload) == LastOf(payload.members, "pid").value.n

AllClosed(payload) ==
  \A i \in DOMAIN payload.members :
    LET v == payload.members[i].value IN v.type = "object" => v.closed

\* What the message made of a payload has to do with it.
SaysWhatWasWritten(payload, msg) ==
  /\ PidWritten(payload) < Half32 => msg.pid = PidWritten(payload)
  /\ AllClosed(payload) =>
       /\ DOMAIN msg.fields = Written(payload.members)
       /\ \A f \in DOMAIN msg.fields :
            msg.fields[f] = FieldValue(WrittenValue(payload.members, f))

\* A message that enqueue takes says what the payload said, whatever members
\* and objects are repeated in it: its pid, if that is an int32_t, and, if all
\* objects are closed, exactly the fields of the last object of each name, each
\* with the last value given for it.
AcceptsWhatWasWritten ==
  [][accepted' # accepted => \A p \in Payloads :
       Receive(p) => SaysWhatWasWritten(p, accepted'[Len(accepted')])]_vars

-----------------------------------------------------------------------------
(* Liveness.                                                               *)

\* Every message taken is handled, unless the governor is stopped or its
\* process ended: a stream of failures or of new messages holds none up.
AcceptedHandled ==
  \A i \in 1..MaxMessages :
    i \in DOMAIN accepted ~> i \in DOMAIN handled \/ ~running \/ ~Up

\* stop returns, with messages queued or not, in the middle of a message or
\* not: the thread gets to see running_.
StopReturns == owner = "joining" ~> owner = "idle" \/ ~Up

-----------------------------------------------------------------------------
(* What docs/GOVERNOR.md says and the code does not do, each refuted by    *)
(* TLC with a configuration of its own (see README.md, Findings).          *)

\* Line 44, the pid is the "Process ID", and line 62.  A pid of more than 32
\* bits is cut to them after the check that it is positive.
PidAsWritten ==
  [][accepted' # accepted => \A p \in Payloads :
       Receive(p) => accepted'[Len(accepted')].pid = PidWritten(p)]_vars

\* Line 64, "NACK_PARSE_ERROR | Malformed JSON".  An object that is never
\* closed is accepted, the last digit in it taken for the brace.
MalformedRefused ==
  [][accepted' # accepted => \A p \in Payloads :
       Receive(p) => AllClosed(p)]_vars

\* Line 46, "Nice value (-20 to 19)".  The parser checks the range of int8_t.
NiceInRange ==
  \A i \in DOMAIN accepted :
    "nice" \in DOMAIN accepted[i].fields =>
      accepted[i].fields["nice"] \in -20..19

\* Line 8, "pidfd for lifecycle (with procfs start_time fallback)".  Every step
\* addresses the number, and half of a message may go to the next process.
OneProcessPerMessage ==
  \A i, k \in DOMAIN applied :
    applied[i].id = applied[k].id => applied[i].life = applied[k].life

\* Line 76, "Rule evicted due to capacity".  rules_ loses no entry.
RulesBounded == Cardinality(DOMAIN rules) <= kMaxRules
=============================================================================
