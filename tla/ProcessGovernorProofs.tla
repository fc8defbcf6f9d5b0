----------------------- MODULE ProcessGovernorProofs -----------------------
(***************************************************************************)
(* What ProcessGovernor promises about the messages it accepts, for every  *)
(* set of payloads and processes, every capacity and every bound: they are *)
(* handled in order, what is counted as done was done, and the limits of a *)
(* process are those of the last message applied to it.  What the parser   *)
(* makes of a payload plays no part in the argument.                       *)
(***************************************************************************)
EXTENDS ProcessGovernor, SequenceTheorems, WellFoundedInduction, TLAPS

\* The entries of the queue and of the two histories.
Queued == [id : Nat \ {0}, msg : Msgs]
Done == [id : Nat, outcome : Outcome]
Made == [id : Nat \ {0}, step : Steps, pid : Pids, life : Nat]

\* std::terminate has not been called in the apply thread.
Present == thread # "terminated"

\* The message in hand counts as one, and so does the one in hand when
\* std::terminate ended the process.
Held == IF hand = NoMsg /\ Present THEN 0 ELSE 1

\* The message numbers, place by place: the handled ones first, then the one
\* in hand, then the queue, without a gap up to the last one accepted.
Numbered ==
  /\ accepted \in Seq(Msgs)
  /\ handled \in Seq(Done)
  /\ ingress_queue \in Seq(Queued)
  /\ hand \in {NoMsg} \cup Queued
  /\ Len(accepted) = Len(handled) + Held + Len(ingress_queue)
  /\ \A i \in 1..Len(handled) : handled[i].id = i
  /\ hand # NoMsg => hand.id = Len(handled) + 1
  /\ \A i \in 1..Len(ingress_queue) :
       ingress_queue[i].id = Len(handled) + Held + i

\* A message is in hand exactly from TakeMessage to Record, and start finds no
\* thread: stop clears running and lets go of owner only after the join.
HandInv ==
  /\ thread \in {"apply", "record"} <=> hand # NoMsg
  /\ owner = "idle" /\ ~running => thread = "none"

OrderInv == HandInv /\ Numbered

\* What is queued and in hand is what was accepted under the same number.
SameMsg ==
  /\ \A i \in 1..Len(ingress_queue) :
       ingress_queue[i].msg = accepted[ingress_queue[i].id]
  /\ hand # NoMsg => hand.msg = accepted[hand.id]

\* Steps were made of the handled messages and of the one in hand, for
\* processes that there have been.
AppliedInv ==
  /\ applied \in Seq(Made)
  /\ \A i \in 1..Len(applied) : /\ applied[i].id <= Len(handled) + Held
                                /\ applied[i].life <= lives[applied[i].pid]
  /\ StepsInOrder

\* The message in hand: while it is being applied, what is not in todo has
\* been made; when its result is known, the result is right.
ProgressInv ==
  LET made == StepsMade(hand.id)
      steps == StepsOf(hand.msg)
  IN /\ thread = "apply" =>
          /\ pid \in Pids /\ todo \subseteq steps /\ made = steps \ todo
          /\ \A s \in made, t \in todo : Place[s] < Place[t]
     /\ thread = "record" =>
          IF result = "success" THEN pid \in Pids /\ made = steps
                                ELSE CutShort(made, steps)

OutcomesRight == \A i \in 1..Len(handled) : OutcomeRight(i)
RulesRight == \A p \in Pids : RuleRight(p)

GovernorInv ==
  /\ TypeOK /\ OrderInv /\ SameMsg /\ AppliedInv /\ ProgressInv
  /\ OutcomesRight /\ RulesRight /\ LimitsAsAsked

-----------------------------------------------------------------------------
\* The sets of entries and the empty hand do not depend on the state.
LEMMA ConstantSets == /\ Msgs' = Msgs /\ Queued' = Queued /\ Done' = Done
                      /\ Made' = Made /\ NoMsg' = NoMsg
BY DEF Msgs, Parsed, Queued, Done, Made, Steps, Needs, NoMsg, EmptyMsg

\* Appending to the history the entry with the next number keeps it numbered.
LEMMA HistoryNumbered ==
  ASSUME NEW s \in Seq(Done), NEW e \in Done,
         \A i \in 1..Len(s) : s[i].id = i,
         e.id = Len(s) + 1
  PROVE  /\ Append(s, e) \in Seq(Done) /\ Len(Append(s, e)) = Len(s) + 1
         /\ \A i \in 1..Len(Append(s, e)) : Append(s, e)[i].id = i
<1>1. /\ Append(s, e) \in Seq(Done) /\ Len(Append(s, e)) = Len(s) + 1
      /\ \A i \in 1..Len(s) : Append(s, e)[i] = s[i]
      /\ Append(s, e)[Len(s) + 1] = e /\ Len(s) \in Nat
  BY AppendProperties, LenProperties
<1>2. ASSUME NEW i \in 1..(Len(s) + 1) PROVE Append(s, e)[i].id = i
  <2>1. CASE i \in 1..Len(s)
    BY <1>1, <2>1
  <2>2. CASE i = Len(s) + 1
    BY <1>1, <2>2
  <2> QED
    BY <1>1, <2>1, <2>2
<1> QED
  BY <1>1, <1>2

\* A step that leaves queue, hand and history alone keeps the numbering.
LEMMA NumberedStutter ==
  ASSUME Numbered, UNCHANGED <<queueVars, hand, handled, Held>>
  PROVE  Numbered'
BY ConstantSets DEF Numbered, queueVars

\* enqueue gives the next number to the new last place of the queue.
LEMMA NumberedEnqueue ==
  ASSUME Numbered, NEW msg \in Msgs, enqueue(msg),
         UNCHANGED <<thread, hand, handled>>
  PROVE  Numbered'
<1> DEFINE e == [id |-> Len(accepted'), msg |-> msg]
           k == Len(handled) + Held
<1>1. /\ accepted \in Seq(Msgs) /\ ingress_queue \in Seq(Queued)
      /\ handled \in Seq(Done)
      /\ accepted' = Append(accepted, msg)
      /\ ingress_queue' = Append(ingress_queue, e)
  BY DEF Numbered, enqueue
<1>2. /\ Len(accepted) \in Nat /\ Len(ingress_queue) \in Nat
      /\ Len(handled) \in Nat
      /\ accepted' \in Seq(Msgs) /\ Len(accepted') = Len(accepted) + 1
  BY <1>1, LenProperties, AppendProperties
<1>3. Held' = Held /\ Held \in {0, 1}
  BY DEF Held, Present
<1>4. e \in Queued /\ e.id = Len(accepted) + 1
  BY <1>2 DEF Queued
<1>5. k \in Nat /\ Len(accepted) = k + Len(ingress_queue)
  BY <1>2, <1>3 DEF Numbered
<1>6. /\ \A i \in 1..Len(ingress_queue) : ingress_queue[i].id = k + i
      /\ e.id = k + Len(ingress_queue) + 1
  BY <1>2, <1>4, <1>5 DEF Numbered
<1> HIDE DEF e, k
<1>7. /\ ingress_queue' \in Seq(Queued)
      /\ Len(ingress_queue') = Len(ingress_queue) + 1
      /\ \A i \in 1..Len(ingress_queue') : ingress_queue'[i].id = k + i
  <2>1. /\ ingress_queue' \in Seq(Queued)
        /\ Len(ingress_queue') = Len(ingress_queue) + 1
        /\ \A i \in 1..Len(ingress_queue) :
             ingress_queue'[i] = ingress_queue[i]
        /\ ingress_queue'[Len(ingress_queue) + 1] = e
    BY <1>1, <1>4, AppendProperties
  <2>2. ASSUME NEW i \in 1..(Len(ingress_queue) + 1)
        PROVE  ingress_queue'[i].id = k + i
    <3>1. CASE i \in 1..Len(ingress_queue)
      BY <1>6, <2>1, <3>1
    <3>2. CASE i = Len(ingress_queue) + 1
      BY <1>2, <1>5, <1>6, <2>1, <3>2
    <3> QED
      BY <1>2, <3>1, <3>2
  <2> QED
    BY <2>1, <2>2
<1>8. k = Len(handled') + Held'
  BY <1>3 DEF k
<1>9. Len(accepted') = Len(handled') + Held' + Len(ingress_queue')
  BY <1>2, <1>5, <1>7, <1>8
<1> QED
  BY <1>2, <1>7, <1>8, <1>9, ConstantSets DEF Numbered

\* front and pop: the first of the queue bears the next number.
LEMMA QueueFront ==
  ASSUME Numbered, hand = NoMsg, Present, ingress_queue # <<>>
  PROVE  /\ FrontMsg \in Queued
         /\ FrontMsg.id = Len(handled) + 1
         /\ PopQueue \in Seq(Queued)
         /\ Len(PopQueue) = Len(ingress_queue) - 1
         /\ \A i \in 1..Len(PopQueue) :
              PopQueue[i].id = Len(handled) + 1 + i
<1>1. ingress_queue \in Seq(Queued) /\ handled \in Seq(Done)
  BY DEF Numbered
<1>2. Len(ingress_queue) \in Nat \ {0} /\ Len(handled) \in Nat
  BY <1>1, LenProperties, EmptySeq
<1>3. Held = 0
  BY DEF Held
<1>4. \A i \in 1..Len(ingress_queue) : ingress_queue[i].id = Len(handled) + i
  BY <1>2, <1>3 DEF Numbered
<1>5. FrontMsg \in Queued /\ FrontMsg = ingress_queue[1]
  BY <1>1, HeadTailProperties DEF FrontMsg
<1>6. /\ PopQueue \in Seq(Queued) /\ Len(PopQueue) = Len(ingress_queue) - 1
      /\ \A i \in 1..Len(PopQueue) : PopQueue[i] = ingress_queue[i + 1]
  BY <1>1, HeadTailProperties DEF PopQueue
<1>7. FrontMsg.id = Len(handled) + 1
  BY <1>2, <1>4, <1>5
<1>8. ASSUME NEW i \in 1..Len(PopQueue)
      PROVE  PopQueue[i].id = Len(handled) + 1 + i
  <2>1. i + 1 \in 1..Len(ingress_queue)
    BY <1>2, <1>6
  <2> QED
    BY <1>2, <1>4, <1>6, <2>1
<1> QED
  BY <1>5, <1>6, <1>7, <1>8

-----------------------------------------------------------------------------
\* The next-state relation, action by action.
LEMMA Actions ==
  ASSUME [Next]_vars
  PROVE  \/ \E p \in Payloads : Receive(p)
         \/ start \/ stop \/ Joined
         \/ CheckRunning \/ Sleep \/ IgnorePidZero \/ TakeMessage
         \/ StepSucceeds \/ StepFails \/ StepThrows \/ StepsDone \/ Record
         \/ \E p \in Pids : ProcessEnds(p)
         \/ \E p \in Pids : NumberReused(p)
         \/ UNCHANGED stateVars
BY DEF Next, Receiver, Owner, Waiting, ApplyThread, Os, Steady, ReceiveThrows,
       vars

\* An idle governor has accepted nothing.
LEMMA OrderInit == Init => OrderInv
BY DEF Init, OrderInv, HandInv, Numbered, Held, Present

\* Every step of the receiver, the owner and the apply thread keeps the order;
\* once an exception has ended the process nothing of it changes.
LEMMA OrderStep == OrderInv /\ [Next]_vars => OrderInv'
<1> SUFFICES ASSUME OrderInv, [Next]_vars
             PROVE  HandInv' /\ Numbered'
  BY DEF OrderInv
<1>0. HandInv /\ Numbered
  BY DEF OrderInv
<1>1. ASSUME NEW p \in Payloads, Receive(p) PROVE HandInv' /\ Numbered'
  <2>1. UNCHANGED <<running, owner, thread, hand, handled>>
    BY <1>1 DEF Receive, handVars, ruleVars
  <2>2. HandInv'
    BY <1>0, <2>1 DEF HandInv
  <2>3. CASE UNCHANGED queueVars
    BY <1>0, <2>1, <2>2, <2>3, NumberedStutter DEF Held, Present
  <2>4. CASE enqueue(Parsed[p].msg)
    BY <1>0, <2>1, <2>2, <2>4, NumberedEnqueue DEF Msgs
  <2> QED
    BY <1>1, <2>3, <2>4 DEF Receive
<1>2. CASE start \/ stop \/ Joined \/ CheckRunning \/ Sleep \/ StepSucceeds
           \/ StepsDone \/ UNCHANGED stateVars
           \/ \E p \in Pids : ProcessEnds(p) \/ NumberReused(p)
  <2>1. UNCHANGED <<queueVars, hand, handled>>
    BY <1>2 DEF start, stop, Joined, CheckRunning, Sleep, StepSucceeds,
                StepsDone, ProcessEnds, NumberReused, stateVars, handVars, ruleVars
  <2>2. HandInv'
    BY <1>0, <1>2 DEF HandInv, start, stop, Joined, CheckRunning, Sleep,
                      StepSucceeds, StepsDone, ProcessEnds, NumberReused, stateVars,
                      handVars
  <2>3. Held' = Held
    <3>1. (thread = "terminated") <=> (thread' = "terminated")
      BY <1>2 DEF start, stop, Joined, CheckRunning, Sleep, StepSucceeds,
                  StepsDone, ProcessEnds, NumberReused, stateVars, Up
    <3> QED
      BY <2>1, <3>1, ConstantSets DEF Held, Present
  <2> QED
    BY <1>0, <2>1, <2>2, <2>3, NumberedStutter
<1>3. CASE IgnorePidZero
  <2> DEFINE d == [id |-> FrontMsg.id, outcome |-> "ignored"]
  <2>1. hand = NoMsg /\ ingress_queue # <<>> /\ Present
    BY <1>0, <1>3 DEF IgnorePidZero, HandInv, Present
  <2>2. /\ thread' = "check" /\ hand' = NoMsg /\ accepted' = accepted
        /\ ingress_queue' = PopQueue /\ handled' = Append(handled, d)
        /\ thread = "pop" /\ UNCHANGED <<running, owner>>
    BY <1>3, <2>1 DEF IgnorePidZero, handVars
  <2>3. /\ FrontMsg.id = Len(handled) + 1 /\ Len(handled) \in Nat
        /\ d \in Done
    BY <1>0, <2>1, QueueFront, LenProperties DEF Numbered, Done, Outcome
  <2>4. d.id = Len(handled) + 1
    BY <2>3
  <2> HIDE DEF d
  <2>5. /\ handled' \in Seq(Done)
        /\ Len(handled') = Len(handled) + 1
        /\ \A i \in 1..Len(handled') : handled'[i].id = i
    BY <1>0, <2>2, <2>3, <2>4, HistoryNumbered DEF Numbered
  <2>6. Held = 0 /\ Held' = 0
    BY <2>1, <2>2, ConstantSets DEF Held, Present
  <2>7. HandInv'
    BY <1>0, <2>2 DEF HandInv
  <2>8. /\ PopQueue \in Seq(Queued) /\ Len(PopQueue) = Len(ingress_queue) - 1
        /\ \A i \in 1..Len(PopQueue) : PopQueue[i].id = Len(handled) + 1 + i
    BY <1>0, <2>1, QueueFront
  <2>9. /\ Len(accepted) = Len(handled) + Len(ingress_queue)
        /\ Len(ingress_queue) \in Nat /\ accepted \in Seq(Msgs)
    BY <1>0, <2>3, <2>6, LenProperties DEF Numbered
  <2>10. Len(accepted') = Len(handled') + Held' + Len(ingress_queue')
    BY <2>2, <2>3, <2>5, <2>6, <2>8, <2>9
  <2>11. \A i \in 1..Len(ingress_queue') :
           ingress_queue'[i].id = Len(handled') + Held' + i
    BY <2>2, <2>3, <2>5, <2>6, <2>8
  <2> QED
    BY <2>2, <2>5, <2>7, <2>8, <2>9, <2>10, <2>11, ConstantSets
    DEF Numbered
<1>4. CASE TakeMessage
  <2>1. hand = NoMsg /\ ingress_queue # <<>> /\ Present
    BY <1>0, <1>4 DEF TakeMessage, HandInv, Present
  <2>2. /\ thread' \in {"apply", "record"} /\ hand' = FrontMsg
        /\ UNCHANGED <<accepted, handled>> /\ ingress_queue' = PopQueue
        /\ thread = "pop" /\ UNCHANGED <<running, owner>>
    BY <1>4 DEF TakeMessage, ruleVars
  <2>3. FrontMsg # NoMsg
    BY <1>0, <2>1, QueueFront DEF NoMsg, Queued
  <2>4. Held = 0 /\ Held' = 1
    BY <2>1, <2>2, <2>3, ConstantSets DEF Held
  <2>5. HandInv'
    BY <1>0, <2>2, <2>3, ConstantSets DEF HandInv
  <2>6. Len(handled) \in Nat /\ Len(ingress_queue) \in Nat
    BY <1>0, LenProperties DEF Numbered
  <2>7. /\ PopQueue \in Seq(Queued) /\ Len(PopQueue) = Len(ingress_queue) - 1
        /\ \A i \in 1..Len(PopQueue) : PopQueue[i].id = Len(handled) + 1 + i
        /\ FrontMsg \in Queued /\ FrontMsg.id = Len(handled) + 1
    BY <1>0, <2>1, QueueFront
  <2>8. /\ Len(accepted) = Len(handled) + Len(ingress_queue)
        /\ accepted \in Seq(Msgs) /\ handled \in Seq(Done)
        /\ \A i \in 1..Len(handled) : handled[i].id = i
    BY <1>0, <2>4, <2>6 DEF Numbered
  <2>9. Len(accepted') = Len(handled') + Held' + Len(ingress_queue')
    BY <2>2, <2>4, <2>6, <2>7, <2>8
  <2>10. \A i \in 1..Len(ingress_queue') :
           ingress_queue'[i].id = Len(handled') + Held' + i
    BY <2>2, <2>4, <2>7
  <2> QED
    BY <2>2, <2>5, <2>7, <2>8, <2>9, <2>10, ConstantSets
    DEF Numbered
<1>5. CASE StepFails
  <2>1. UNCHANGED <<queueVars, hand, handled>> /\ thread' = "record"
        /\ thread = "apply" /\ UNCHANGED <<running, owner>>
    BY <1>5 DEF StepFails, AfterFailure, ruleVars
  <2>2. HandInv'
    BY <1>0, <2>1 DEF HandInv
  <2>3. Held' = Held
    BY <2>1, ConstantSets DEF Held, Present
  <2> QED
    BY <1>0, <2>1, <2>2, <2>3, NumberedStutter
<1>6. CASE Record
  <2>1. hand # NoMsg /\ hand' = NoMsg /\ thread' = "check"
        /\ UNCHANGED <<accepted, ingress_queue, running, owner>>
        /\ thread = "record"
    BY <1>0, <1>6 DEF Record, HandInv, queueVars
  <2>2. PICK o \in Outcome : handled' = Append(handled, [id |-> hand.id,
                                                         outcome |-> o])
    BY <1>6 DEF Record, Outcome
  <2> DEFINE d == [id |-> hand.id, outcome |-> o]
  <2>3. /\ hand.id = Len(handled) + 1 /\ Len(handled) \in Nat
        /\ d.id = hand.id /\ d \in Done
    BY <1>0, <2>1, LenProperties DEF Numbered, Done
  <2>4. handled' = Append(handled, d)
    BY <2>2
  <2> HIDE DEF d
  <2>5. /\ handled' \in Seq(Done)
        /\ Len(handled') = Len(handled) + 1
        /\ \A i \in 1..Len(handled') : handled'[i].id = i
    BY <1>0, <2>3, <2>4, HistoryNumbered DEF Numbered
  <2>6. Held = 1 /\ Held' = 0
    BY <2>1, ConstantSets DEF Held, Present
  <2>7. HandInv'
    BY <1>0, <2>1 DEF HandInv
  <2> QED
    BY <1>0, <2>1, <2>3, <2>5, <2>6, <2>7, ConstantSets, LenProperties
    DEF Numbered
<1>7. CASE StepThrows
  <2>1. /\ UNCHANGED <<accepted, ingress_queue, handled, running, owner>>
        /\ thread = "apply" /\ thread' = "terminated" /\ hand' = NoMsg
    BY <1>7 DEF StepThrows, queueVars, ruleVars
  <2>2. hand # NoMsg /\ HandInv'
    BY <1>0, <2>1, ConstantSets DEF HandInv
  <2>3. Held = 1 /\ Held' = 1
    BY <2>1, <2>2 DEF Held, Present
  <2> QED
    BY <1>0, <2>1, <2>2, <2>3, ConstantSets DEF Numbered
<1> QED
  BY <1>1, <1>2, <1>3, <1>4, <1>5, <1>6, <1>7, Actions

-----------------------------------------------------------------------------
\* Counting on where the first sequence stops.
LEMMA CountingConcat ==
  ASSUME NEW a \in Nat, NEW b \in Nat
  PROVE  [i \in 1..a |-> i] \o [i \in 1..b |-> a + i] = [i \in 1..(a + b) |-> i]
<1> DEFINE s == [i \in 1..a |-> i]
           t == [i \in 1..b |-> a + i]
           u == [i \in 1..(a + b) |-> i]
<1>1. /\ s \in Seq(Nat) /\ Len(s) = a /\ \A i \in 1..a : s[i] = i
      /\ t \in Seq(Nat) /\ Len(t) = b /\ \A i \in 1..b : t[i] = a + i
      /\ u \in Seq(Nat) /\ Len(u) = a + b /\ \A i \in 1..(a + b) : u[i] = i
  OBVIOUS
<1> HIDE DEF s, t, u
<1>2. /\ s \o t \in Seq(Nat) /\ Len(s \o t) = a + b
      /\ \A i \in 1..(a + b) : (s \o t)[i] = IF i <= a THEN s[i] ELSE t[i - a]
  BY <1>1, ConcatProperties, SMTT(30)
<1>3. \A i \in 1..(a + b) : (s \o t)[i] = u[i]
  BY <1>1, <1>2, SMTT(30)
<1>4. s \o t = u
  BY <1>1, <1>2, <1>3, SeqEqual
<1> QED
  BY <1>4 DEF s, t, u

\* Place by place and as one sequence are the same.
LEMMA NumberedInOrder == ASSUME Numbered, Present PROVE InOrder
<1> DEFINE h == Ids(handled)
           n == Ids(InHand)
           q == Ids(ingress_queue)
           k == Len(handled)
<1>1. /\ accepted \in Seq(Msgs) /\ handled \in Seq(Done)
      /\ ingress_queue \in Seq(Queued)
  BY DEF Numbered
<1>2. /\ k \in Nat /\ Len(accepted) \in Nat /\ Len(ingress_queue) \in Nat
      /\ DOMAIN handled = 1..k
      /\ DOMAIN accepted = 1..Len(accepted)
      /\ DOMAIN ingress_queue = 1..Len(ingress_queue)
  BY <1>1, LenProperties
<1>3. Held \in {0, 1}
  BY DEF Held
<1>4. h = [i \in 1..k |-> i]
  BY <1>2 DEF Numbered, Ids
<1>5. n = [i \in 1..Held |-> k + i]
  <2>1. CASE hand = NoMsg
    BY <2>1 DEF Ids, InHand, Held, Present
  <2>2. CASE hand # NoMsg
    <3>1. InHand = <<hand>> /\ Held = 1 /\ hand.id = k + 1
      BY <2>2 DEF InHand, Held, Numbered
    <3>2. DOMAIN InHand = 1..1 /\ InHand[1] = hand
      BY <3>1
    <3>3. \A i \in 1..1 : i = 1
      OBVIOUS
    <3> QED
      BY <3>1, <3>2, <3>3 DEF Ids
  <2> QED
    BY <2>1, <2>2
<1>6. q = [i \in 1..Len(ingress_queue) |-> k + Held + i]
  BY <1>2 DEF Numbered, Ids
<1>7. Len(accepted) = k + Held + Len(ingress_queue)
  BY DEF Numbered
<1> HIDE DEF h, n, q, k
<1>8. h \o n = [i \in 1..(k + Held) |-> i]
  BY <1>2, <1>3, <1>4, <1>5, CountingConcat
<1>9. (h \o n) \o q = [i \in 1..(k + Held + Len(ingress_queue)) |-> i]
  <2> DEFINE m == k + Held
  <2>1. /\ m \in Nat /\ h \o n = [i \in 1..m |-> i]
        /\ q = [i \in 1..Len(ingress_queue) |-> m + i]
    BY <1>2, <1>3, <1>6, <1>8
  <2>2. (h \o n) \o q = [i \in 1..(m + Len(ingress_queue)) |-> i]
    <3> HIDE DEF m
    <3> QED
      BY <1>2, <2>1, CountingConcat
  <2> QED
    BY <2>2
<1> QED
  BY <1>2, <1>7, <1>9 DEF InOrder, h, n, q

\* Every message enqueue accepts is handled, in hand or queued exactly once,
\* in the order of acceptance, as long as the process lives.
THEOREM HandledInOrder == Spec => []InOrder
<1>1. OrderInv => InOrder
  <2> SUFFICES ASSUME OrderInv PROVE InOrder
    OBVIOUS
  <2>1. CASE Present
    BY <2>1, NumberedInOrder DEF OrderInv
  <2>2. CASE ~Present
    BY <2>2 DEF InOrder, Up, Present
  <2> QED
    BY <2>1, <2>2
<1> QED
  BY OrderInit, OrderStep, <1>1, PTL DEF Spec

-----------------------------------------------------------------------------
(* Maxima.                                                                 *)

\* A set of numbers up to n has a maximum.
LEMMA MaxExists ==
  ASSUME NEW n \in Nat, NEW S \in SUBSET (1..n), S # {}
  PROVE  Max(S) \in S /\ \A y \in S : Max(S) >= y
<1> DEFINE R == OpToRel(<, Nat)
           T == {n - x : x \in S}
<1>1. \A x, y \in Nat : <<x, y>> \in R <=> x < y
  BY DEF OpToRel
<1>2. IsWellFoundedOn(R, Nat)
  BY NatLessThanWellFounded, Zenon
<1> HIDE DEF R
<1>3. T \subseteq Nat /\ T # {}
  <2>1. \A x \in S : n - x \in Nat
    OBVIOUS
  <2> QED
    BY <2>1
<1>4. PICK t \in T : \A y \in T : ~ (<<y, t>> \in R)
  <2> HIDE DEF T
  <2> QED
    BY <1>2, <1>3, WFMin
<1>5. \A y \in T : ~(y < t)
  BY <1>1, <1>3, <1>4, Zenon
<1>6. PICK x \in S : t = n - x
  BY <1>4
<1>7. \A y \in S : x >= y
  <2> SUFFICES ASSUME NEW y \in S PROVE x >= y
    OBVIOUS
  <2>1. n - y \in T
    OBVIOUS
  <2>2. ~(n - y < n - x)
    BY <1>5, <1>6, <2>1
  <2> QED
    BY <2>2
<1>8. \E z \in S : \A y \in S : z >= y
  BY <1>7
<1> QED
  BY <1>8 DEF Max

\* A number above all others of a set is its maximum.
LEMMA MaxLast ==
  ASSUME NEW n \in Nat, NEW S \in SUBSET (1..n)
  PROVE  Max(S \cup {n + 1}) = n + 1
<1> DEFINE U == S \cup {n + 1}
<1>1. n + 1 \in U /\ \A y \in U : n + 1 >= y
  OBVIOUS
<1>2. \A z \in U : (\A y \in U : z >= y) => z = n + 1
  OBVIOUS
<1> HIDE DEF U
<1>3. Max(U) = n + 1
  BY <1>1, <1>2 DEF Max
<1> QED
  BY <1>3 DEF U

-----------------------------------------------------------------------------
(* The steps of a message.                                                 *)

\* apply_rules takes the steps that are left in the order of the code.
LEMMA NextStepFirst ==
  ASSUME NEW T \in SUBSET Steps, todo = T, T # {}
  PROVE  /\ NextStep \in T
         /\ \A t \in T \ {NextStep} : Place[NextStep] < Place[t]
<1>1. Steps = {"affinity", "nice", "nofile", "core", "oom"}
  BY DEF Steps, Needs
<1>2. \A s, t \in Steps : /\ Place[s] \in 1..5
                          /\ Place[s] = Place[t] => s = t
  BY <1>1 DEF Place
<1>3. \E s \in T : \A t \in T : Place[s] <= Place[t]
  <2>0. T \subseteq {"affinity", "nice", "nofile", "core", "oom"}
    BY <1>1
  <2>1. CASE "affinity" \in T
    BY <2>0, <2>1 DEF Place
  <2>2. CASE "affinity" \notin T /\ "nice" \in T
    BY <2>0, <2>2 DEF Place
  <2>3. CASE "affinity" \notin T /\ "nice" \notin T /\ "nofile" \in T
    BY <2>0, <2>3 DEF Place
  <2>4. CASE /\ "affinity" \notin T /\ "nice" \notin T /\ "nofile" \notin T
             /\ "core" \in T
    BY <2>0, <2>4 DEF Place
  <2>5. CASE /\ "affinity" \notin T /\ "nice" \notin T /\ "nofile" \notin T
             /\ "core" \notin T
    <3>1. \A t \in T : t = "oom"
      BY <2>0, <2>5
    <3> QED
      BY <3>1 DEF Place
  <2> QED
    BY <2>1, <2>2, <2>3, <2>4, <2>5, Zenon
<1>4. NextStep \in T /\ \A t \in T : Place[NextStep] <= Place[t]
  BY <1>3 DEF NextStep
<1> QED
  BY <1>2, <1>4

\* A step made is added to those of its message.
LEMMA StepsMadeAppend ==
  ASSUME applied \in Seq(Made), NEW e \in Made,
         applied' = Append(applied, e), NEW id
  PROVE  StepsMade(id)' = IF id = e.id THEN StepsMade(id) \cup {e.step}
                                       ELSE StepsMade(id)
<1> DEFINE n == Len(applied)
<1>1. /\ n \in Nat /\ DOMAIN applied = 1..n /\ DOMAIN applied' = 1..(n + 1)
      /\ \A i \in 1..n : applied'[i] = applied[i]
      /\ applied'[n + 1] = e
  BY AppendProperties, LenProperties
<1>2. \A x : x \in StepsMade(id) <=>
             \E i \in 1..n : applied[i].id = id /\ x = applied[i].step
  BY <1>1 DEF StepsMade
<1>3. \A x : x \in StepsMade(id)' <=>
             \E i \in 1..(n + 1) : applied'[i].id = id /\ x = applied'[i].step
  BY <1>1 DEF StepsMade
<1>4. \A i : i \in 1..(n + 1) <=> i \in 1..n \/ i = n + 1
  BY <1>1
<1> HIDE DEF n
<1>5. \A x : x \in StepsMade(id)' <=>
             x \in StepsMade(id) \/ (e.id = id /\ x = e.step)
  <2> TAKE x
  <2>1. ASSUME x \in StepsMade(id)
        PROVE  x \in StepsMade(id)'
    <3>1. PICK i \in 1..n : applied[i].id = id /\ x = applied[i].step
      BY <1>2, <2>1
    <3> QED
      BY <1>1, <1>3, <1>4, <3>1
  <2>2. ASSUME e.id = id /\ x = e.step
        PROVE  x \in StepsMade(id)'
    BY <1>1, <1>3, <1>4, <2>2
  <2>3. ASSUME x \in StepsMade(id)'
        PROVE  x \in StepsMade(id) \/ (e.id = id /\ x = e.step)
    <3>1. PICK i \in 1..(n + 1) : applied'[i].id = id /\ x = applied'[i].step
      BY <1>3, <2>3
    <3>2. CASE i \in 1..n
      BY <1>1, <1>2, <3>1, <3>2
    <3>3. CASE i = n + 1
      BY <1>1, <3>1, <3>3
    <3> QED
      BY <1>4, <3>1, <3>2, <3>3
  <2> QED
    BY <2>1, <2>2, <2>3, Zenon
<1> HIDE DEF StepsMade
<1> QED
  BY <1>5

\* Nothing was made of a message that is still queued.
LEMMA NothingMade ==
  ASSUME AppliedInv, OrderInv, NEW id \in Nat, id > Len(handled) + Held
  PROVE  StepsMade(id) = {}
<1>1. DOMAIN applied = 1..Len(applied) /\ Len(handled) + Held \in Nat
  <2>1. handled \in Seq(Done) /\ applied \in Seq(Made)
    BY DEF AppliedInv, OrderInv, Numbered
  <2>2. Len(handled) \in Nat /\ DOMAIN applied = 1..Len(applied)
    BY <2>1, LenProperties
  <2>3. Held \in {0, 1}
    BY DEF Held
  <2> QED
    BY <2>2, <2>3
<1>2. \A i \in 1..Len(applied) : applied[i].id \in Nat
  <2>1. applied \in Seq(Made)
    BY DEF AppliedInv
  <2>2. \A i \in 1..Len(applied) : applied[i] \in Made
    BY <2>1, ElementOfSeq
  <2> QED
    BY <2>2 DEF Made
<1>3. \A i \in 1..Len(applied) : applied[i].id # id
  BY <1>1, <1>2 DEF AppliedInv
<1> QED
  BY <1>1, <1>3 DEF StepsMade

-----------------------------------------------------------------------------
(* Types.                                                                  *)

\* The sequences have lengths and the hand counts as nothing or one.
LEMMA Lengths ==
  ASSUME OrderInv
  PROVE  /\ Len(accepted) \in Nat /\ DOMAIN accepted = 1..Len(accepted)
         /\ Len(handled) \in Nat /\ DOMAIN handled = 1..Len(handled)
         /\ Len(ingress_queue) \in Nat
         /\ DOMAIN ingress_queue = 1..Len(ingress_queue)
         /\ Held \in {0, 1}
         /\ Len(handled) + Held + Len(ingress_queue) = Len(accepted)
<1>1. /\ accepted \in Seq(Msgs) /\ handled \in Seq(Done)
      /\ ingress_queue \in Seq(Queued)
      /\ Len(accepted) = Len(handled) + Held + Len(ingress_queue)
  BY DEF OrderInv, Numbered
<1>2. Held \in {0, 1}
  BY DEF Held
<1> QED
  BY <1>1, <1>2, LenProperties

\* A payload adds nothing to the queue, or one message to a queue with room.
LEMMA Received ==
  ASSUME NEW p \in Payloads, Receive(p)
  PROVE  \/ UNCHANGED <<accepted, ingress_queue>>
         \/ /\ Len(ingress_queue) < kQueueCapacity /\ Len(accepted) < MaxMessages
            /\ enqueue(Parsed[p].msg) /\ Parsed[p].msg \in Msgs
BY DEF Receive, queueVars, HasRoom, Msgs, enqueue

\* Messages are only ever added to the accepted ones.
LEMMA AcceptedGrows ==
  ASSUME OrderInv, [Next]_vars
  PROVE  /\ Len(accepted) <= Len(accepted')
         /\ \A i \in 1..Len(accepted) : accepted'[i] = accepted[i]
         /\ accepted' # accepted => \E p \in Payloads : Receive(p)
<1>1. accepted \in Seq(Msgs) /\ Len(accepted) \in Nat
  BY Lengths DEF OrderInv, Numbered
<1>2. CASE UNCHANGED accepted
  BY <1>1, <1>2
<1>3. ASSUME NEW p \in Payloads, Receive(p), accepted' # accepted
      PROVE  /\ Len(accepted) <= Len(accepted')
             /\ \A i \in 1..Len(accepted) : accepted'[i] = accepted[i]
  <2>1. PICK m \in Msgs : accepted' = Append(accepted, m)
    BY <1>3, Received DEF enqueue
  <2> QED
    BY <1>1, <2>1, AppendProperties
<1>4. accepted' # accepted => \E p \in Payloads : Receive(p)
  BY Actions DEF start, stop, Joined, CheckRunning, Sleep, IgnorePidZero,
     TakeMessage, StepSucceeds, StepFails, StepThrows, StepsDone, Record,
     ProcessEnds, NumberReused, stateVars, queueVars
<1> QED
  BY <1>2, <1>3, <1>4

\* prlimit is given values that a message or the operating system gave.
LEMMA RlimType ==
  ASSUME hand.msg \in Msgs, NEW step \in {"nofile", "core"}
  PROVE  RlimFor(step) \in Limit
<1>1. /\ OwnLimits.nofile \in [cur : Nat, max : Nat]
      /\ OwnLimits.core \in [cur : Nat, max : Nat]
  BY LimitsAssumption
<1>2. \A f \in DOMAIN fields \cap LimitFields : fields[f] \in Asked
  BY DEF Asked, fields
<1>3. {"nofile_soft", "nofile_hard", "core_soft", "core_hard"} \subseteq LimitFields
  BY DEF LimitFields, Needs
<1>4. ASSUME NEW own \in [cur : Nat, max : Nat],
             NEW soft \in LimitFields, NEW hard \in LimitFields
      PROVE  Rlim(own, soft, hard) \in Limit
  <2>1. own.cur \in Nat /\ own.max \in Nat /\ own = [cur |-> own.cur, max |-> own.max]
    OBVIOUS
  <2>2. CASE ~Has(hard)
    BY <2>1, <2>2 DEF Rlim, Limit
  <2>3. CASE Has(hard) /\ Has(soft)
    BY <1>2, <2>3 DEF Rlim, Limit, Has
  <2>4. CASE Has(hard) /\ ~Has(soft)
    BY <1>2, <2>1, <2>4 DEF Rlim, Limit, Has
  <2> QED
    BY <2>2, <2>3, <2>4
<1> QED
  BY <1>1, <1>3, <1>4 DEF RlimFor

\* What prlimit changes: one limit of one process.
LEMMA LimitSet ==
  ASSUME NEW T, NEW L \in [Pids -> [nofile : T, core : T]],
         NEW p \in Pids, NEW s \in {"nofile", "core"}, NEW v \in T, NEW M,
         M = [L EXCEPT ![p][s] = v]
  PROVE  /\ M \in [Pids -> [nofile : T, core : T]]
         /\ M[p][s] = v
         /\ \A q \in Pids, t \in {"nofile", "core"} :
              q # p \/ t # s => M[q][t] = L[q][t]
OBVIOUS

\* The places of the messages, as TypeOK states them.
Places ==
  /\ \A i \in DOMAIN ingress_queue : ingress_queue[i].id \in DOMAIN accepted
  /\ hand.id \in {0} \cup DOMAIN accepted
  /\ hand # NoMsg => hand.id \in DOMAIN accepted /\ hand.msg \in Msgs
  /\ thread \in {"apply", "record"} <=> hand # NoMsg

\* A message has a place among those accepted, wherever it is.
LEMMA PlacesTyped == OrderInv => Places
<1> SUFFICES ASSUME OrderInv PROVE Places
  OBVIOUS
<1>1. /\ \A i \in 1..Len(ingress_queue) :
           ingress_queue[i].id = Len(handled) + Held + i
      /\ hand # NoMsg => hand.id = Len(handled) + 1
      /\ hand \in {NoMsg} \cup Queued
  BY DEF OrderInv, Numbered
<1>2. hand # NoMsg => Held = 1
  BY DEF Held
<1>3. NoMsg.id = 0
  BY DEF NoMsg
<1>4. thread \in {"apply", "record"} <=> hand # NoMsg
  BY DEF OrderInv, HandInv
<1>5. hand # NoMsg => hand.msg \in Msgs
  BY <1>1 DEF Queued
<1>6. hand # NoMsg => hand.id \in DOMAIN accepted
  BY <1>1, <1>2, Lengths
<1>7. \A i \in DOMAIN ingress_queue : ingress_queue[i].id \in DOMAIN accepted
  BY <1>1, Lengths
<1> QED
  BY <1>3, <1>4, <1>5, <1>6, <1>7 DEF Places

\* Every action keeps every variable within its type.
LEMMA TypeStep ==
  ASSUME TypeOK, OrderInv, ProgressInv, [Next]_vars
  PROVE  TypeOK'
<1>1. OrderInv'
  BY OrderStep
<1>2. /\ \A i \in DOMAIN ingress_queue' :
           ingress_queue'[i].id \in DOMAIN accepted'
      /\ hand'.id \in {0} \cup DOMAIN accepted'
      /\ thread' \in {"apply", "record"} <=> hand' # NoMsg
  <2>1. Places'
    BY <1>1, PlacesTyped, PTL
  <2> QED
    BY <2>1, ConstantSets DEF Places
<1>3. DOMAIN accepted \subseteq DOMAIN accepted'
  <2>1. /\ DOMAIN accepted = 1..Len(accepted) /\ Len(accepted) \in Nat
    BY Lengths
  <2>2. DOMAIN accepted' = 1..Len(accepted') /\ Len(accepted') \in Nat
    BY <1>1, ConstantSets, LenProperties DEF OrderInv, Numbered
  <2> QED
    BY <2>1, <2>2, AcceptedGrows
<1>4. Len(ingress_queue') <= kQueueCapacity /\ Len(accepted') <= MaxMessages
  <2>1. /\ Len(ingress_queue) \in Nat /\ Len(accepted) \in Nat
        /\ Len(ingress_queue) <= kQueueCapacity /\ Len(accepted) <= MaxMessages
        /\ accepted \in Seq(Msgs) /\ ingress_queue \in Seq(Queued)
        /\ kQueueCapacity \in Nat /\ MaxMessages \in Nat
    BY Lengths, GovernorAssumption DEF TypeOK, OrderInv, Numbered
  <2>2. CASE UNCHANGED <<accepted, ingress_queue>>
    BY <2>1, <2>2
  <2>3. ASSUME NEW p \in Payloads, Receive(p)
        PROVE  Len(ingress_queue') <= kQueueCapacity /\ Len(accepted') <= MaxMessages
    <3>1. CASE /\ Len(ingress_queue) < kQueueCapacity /\ Len(accepted) < MaxMessages
               /\ enqueue(Parsed[p].msg) /\ Parsed[p].msg \in Msgs
      <4>1. Len(accepted') = Len(accepted) + 1
        BY <2>1, <3>1, AppendProperties DEF enqueue
      <4>2. Len(accepted') \in Nat \ {0}
        BY <2>1, <4>1
      <4>3. [id |-> Len(accepted'), msg |-> Parsed[p].msg] \in Queued
        BY <3>1, <4>2 DEF Queued
      <4>4. Len(ingress_queue') = Len(ingress_queue) + 1
        BY <2>1, <3>1, <4>3, AppendProperties DEF enqueue
      <4> QED
        BY <2>1, <3>1, <4>1, <4>4
    <3> QED
      BY <2>2, <2>3, <3>1, Received
  <2>4. CASE IgnorePidZero \/ TakeMessage
    <3>1. ingress_queue' = Tail(ingress_queue) /\ accepted' = accepted
          /\ ingress_queue # <<>>
      BY <2>4 DEF IgnorePidZero, TakeMessage, PopQueue
    <3>2. Len(Tail(ingress_queue)) = Len(ingress_queue) - 1
      BY <2>1, <3>1, HeadTailProperties
    <3> QED
      BY <2>1, <3>1, <3>2
  <2> QED
    BY <2>2, <2>3, <2>4, Actions
    DEF start, stop, Joined, CheckRunning, Sleep, StepSucceeds, StepFails,
        StepThrows, StepsDone, Record, ProcessEnds, NumberReused, stateVars, queueVars
<1>5. /\ running' \in BOOLEAN /\ owner' \in {"idle", "joining"}
      /\ thread' \in {"none", "check", "pop", "apply", "record", "exited",
                      "terminated"}
  BY Actions DEF TypeOK, Receive, start, stop, Joined, CheckRunning, Sleep,
     IgnorePidZero, TakeMessage, StepSucceeds, StepFails, AfterFailure,
     StepThrows, StepsDone, Record, ProcessEnds, NumberReused, stateVars
<1>6. /\ todo' \subseteq Steps /\ (todo' # {} => thread' = "apply")
      /\ result' \in {"none", "success", "lookup"} \cup Steps
  <2>0. /\ todo \subseteq Steps /\ (todo # {} => thread = "apply")
        /\ result \in {"none", "success", "lookup"} \cup Steps
    BY DEF TypeOK
  <2>1. CASE UNCHANGED <<todo, result, thread>>
    BY <2>0, <2>1
  <2>2. CASE start \/ Joined \/ CheckRunning \/ Sleep \/ IgnorePidZero
    <3>1. thread # "apply" /\ UNCHANGED <<todo, result>>
      <4>1. thread # "apply"
        BY <2>2 DEF OrderInv, HandInv, start, Joined, CheckRunning, Sleep,
                    IgnorePidZero
      <4>2. UNCHANGED <<todo, result>>
        BY <2>2 DEF start, Joined, CheckRunning, Sleep, IgnorePidZero, handVars
      <4> QED
        BY <4>1, <4>2
    <3> QED
      BY <2>0, <3>1
  <2>3. CASE TakeMessage
    BY <2>0, <2>3 DEF TakeMessage, StepsOf
  <2>4. CASE StepSucceeds
    BY <2>0, <2>4 DEF StepSucceeds
  <2>5. CASE StepFails
    <3>1. NextStep \in Steps
      BY <2>0, <2>5, NextStepFirst DEF StepFails
    <3> QED
      BY <2>5, <3>1 DEF StepFails, AfterFailure
  <2>6. CASE StepThrows \/ StepsDone \/ Record
    BY <2>0, <2>6 DEF StepThrows, StepsDone, Record
  <2> QED
    BY <2>1, <2>2, <2>3, <2>4, <2>5, <2>6, Actions
    DEF Receive, stop, ProcessEnds, NumberReused, stateVars, handVars
<1>7. /\ DOMAIN rules' \subseteq Pids
      /\ \A p \in DOMAIN rules' : rules'[p] \in DOMAIN accepted'
      /\ stats' \in [messages_processed : Nat, messages_failed : Nat,
                     last_err : {"none", "lookup"} \cup Steps]
  <2>0. /\ DOMAIN rules \subseteq Pids
        /\ \A p \in DOMAIN rules : rules[p] \in DOMAIN accepted
        /\ stats \in [messages_processed : Nat, messages_failed : Nat,
                      last_err : {"none", "lookup"} \cup Steps]
        /\ result \in {"none", "success", "lookup"} \cup Steps
    BY DEF TypeOK
  <2>1. CASE UNCHANGED <<rules, stats>>
    BY <1>3, <2>0, <2>1
  <2>2. CASE Record
    <3>1. thread = "record" /\ hand.id \in DOMAIN accepted
      BY <2>2, PlacesTyped DEF Record, Places
    <3>2. CASE result = "success"
      <4>1. /\ rules' = Set(rules, pid, hand.id)
            /\ stats' = [stats EXCEPT !.messages_processed = @ + 1]
        BY <2>2, <3>2 DEF Record
      <4>2. pid \in Pids
        BY <3>1, <3>2 DEF ProgressInv
      <4>3. stats' \in [messages_processed : Nat, messages_failed : Nat,
                        last_err : {"none", "lookup"} \cup Steps]
        BY <2>0, <4>1
      <4> QED
        BY <1>3, <2>0, <3>1, <4>1, <4>2, <4>3 DEF Set
    <3>3. CASE result # "success"
      <4>1. /\ UNCHANGED rules
            /\ stats' = [stats EXCEPT !.messages_failed = @ + 1,
                                      !.last_err = result]
        BY <2>2, <3>3 DEF Record
      <4>2. result \in {"none", "lookup"} \cup Steps
        BY <2>0, <3>3
      <4>3. stats' \in [messages_processed : Nat, messages_failed : Nat,
                        last_err : {"none", "lookup"} \cup Steps]
        <5> DEFINE E == {"none", "lookup"} \cup Steps
        <5>1. /\ stats \in [messages_processed : Nat, messages_failed : Nat,
                             last_err : E]
              /\ result \in E
          BY <2>0, <4>2
        <5> HIDE DEF E
        <5>2. stats' \in [messages_processed : Nat, messages_failed : Nat,
                          last_err : E]
          <6> DEFINE r == [messages_processed |-> stats.messages_processed,
                           messages_failed |-> stats.messages_failed + 1,
                           last_err |-> result]
          <6>1. stats' = r
            BY <4>1, <5>1, Zenon
          <6> QED
            BY <5>1, <6>1
        <5> QED
          BY <5>2 DEF E
      <4> QED
        BY <1>3, <2>0, <4>1, <4>3
    <3> QED
      BY <3>2, <3>3
  <2> QED
    BY <2>1, <2>2, Actions
    DEF Receive, start, stop, Joined, CheckRunning, Sleep, IgnorePidZero,
        TakeMessage, StepSucceeds, StepFails, StepThrows, StepsDone,
        ProcessEnds, NumberReused, stateVars, ruleVars
<1>8. /\ lives' \in [Pids -> 0..MaxLives] /\ alive' \in [Pids -> BOOLEAN]
      /\ limits' \in [Pids -> [nofile : Limit, core : Limit]]
  <2>0. /\ lives \in [Pids -> 0..MaxLives] /\ alive \in [Pids -> BOOLEAN]
        /\ limits \in [Pids -> [nofile : Limit, core : Limit]]
        /\ MaxLives \in Nat
    BY GovernorAssumption DEF TypeOK
  <2>1. CASE UNCHANGED <<lives, alive, limits>>
    BY <2>0, <2>1
  <2>2. CASE StepSucceeds
    <3>1. UNCHANGED <<lives, alive>> /\ thread = "apply"
      BY <2>2 DEF StepSucceeds
    <3>2. hand.msg \in Msgs /\ pid \in Pids
      BY <3>1, PlacesTyped DEF ProgressInv, Places
    <3>3. CASE NextStep \in {"nofile", "core"}
      <4>1. limits' = [limits EXCEPT ![pid][NextStep] = RlimFor(NextStep)]
        BY <2>2, <3>3 DEF StepSucceeds, apply_rlimit
      <4>2. RlimFor(NextStep) \in Limit
        BY <3>2, <3>3, RlimType
      <4>3. limits' \in [Pids -> [nofile : Limit, core : Limit]]
        BY <2>0, <3>2, <3>3, <4>1, <4>2, LimitSet
      <4> QED
        BY <2>0, <3>1, <4>3
    <3>4. CASE NextStep \notin {"nofile", "core"}
      BY <2>0, <2>2, <3>1, <3>4 DEF StepSucceeds
    <3> QED
      BY <3>3, <3>4
  <2>3. ASSUME NEW p \in Pids, ProcessEnds(p)
        PROVE  /\ lives' \in [Pids -> 0..MaxLives] /\ alive' \in [Pids -> BOOLEAN]
               /\ limits' \in [Pids -> [nofile : Limit, core : Limit]]
    BY <2>0, <2>3 DEF ProcessEnds
  <2>4. ASSUME NEW p \in Pids, NumberReused(p)
        PROVE  /\ lives' \in [Pids -> 0..MaxLives] /\ alive' \in [Pids -> BOOLEAN]
               /\ limits' \in [Pids -> [nofile : Limit, core : Limit]]
    <3>1. OldLimits \in [nofile : Limit, core : Limit]
      BY LimitsAssumption DEF Limit
    <3>2. limits' = [limits EXCEPT ![p] = OldLimits]
      BY <2>4 DEF NumberReused
    <3>3. limits' \in [Pids -> [nofile : Limit, core : Limit]]
      BY <2>0, <3>1, <3>2
    <3> QED
      BY <2>0, <2>4, <3>3 DEF NumberReused
  <2> QED
    BY <2>1, <2>2, <2>3, <2>4, Actions
    DEF Receive, start, stop, Joined, CheckRunning, Sleep, IgnorePidZero,
        TakeMessage, StepFails, StepThrows, StepsDone, Record, stateVars, osVars
<1>9. Limit' = Limit /\ Steps' = Steps
  BY DEF Limit, Asked, Msgs, Parsed, LimitFields, Needs, Steps
<1>10. ended' \in BOOLEAN
  BY DEF TypeOK, Next, Receiver, Owner, Waiting, ApplyThread, Os, Steady,
         ReceiveThrows, vars
<1> QED
  BY <1>2, <1>4, <1>5, <1>6, <1>7, <1>8, <1>9, <1>10, ConstantSets DEF TypeOK

-----------------------------------------------------------------------------
(* The messages and the steps made of them.                                *)

\* A message keeps what it says from enqueue to Record.
LEMMA SameMsgStep ==
  ASSUME OrderInv, SameMsg, [Next]_vars
  PROVE  SameMsg'
<1>1. /\ accepted \in Seq(Msgs) /\ ingress_queue \in Seq(Queued)
      /\ \A i \in 1..Len(ingress_queue) :
           ingress_queue[i].id = Len(handled) + Held + i
  BY DEF OrderInv, Numbered
<1>2. /\ \A i \in 1..Len(ingress_queue) : /\ ingress_queue[i].id \in 1..Len(accepted)
                                         /\ ingress_queue[i].msg
                                              = accepted[ingress_queue[i].id]
      /\ hand # NoMsg => /\ hand.id \in 1..Len(accepted)
                         /\ hand.msg = accepted[hand.id]
  BY PlacesTyped, Lengths DEF Places, SameMsg
<1>3. CASE UNCHANGED <<accepted, ingress_queue>> /\ hand' \in {hand, NoMsg}
  BY <1>2, <1>3, ConstantSets DEF SameMsg
<1>4. ASSUME NEW p \in Payloads, Receive(p) PROVE SameMsg'
  <2>0. UNCHANGED hand
    BY <1>4 DEF Receive, handVars
  <2>1. CASE UNCHANGED <<accepted, ingress_queue>>
    BY <1>3, <2>0, <2>1
  <2>2. CASE enqueue(Parsed[p].msg) /\ Parsed[p].msg \in Msgs
    <3> DEFINE m == Parsed[p].msg
               e == [id |-> Len(accepted'), msg |-> m]
               n == Len(ingress_queue)
    <3>1. /\ Len(accepted) \in Nat /\ Len(accepted') = Len(accepted) + 1
          /\ \A i \in 1..Len(accepted) : accepted'[i] = accepted[i]
          /\ accepted'[Len(accepted')] = m
      BY <1>1, <2>2, AppendProperties, Lengths DEF enqueue
    <3>2. e \in Queued /\ e.id = Len(accepted') /\ e.msg = m
      BY <2>2, <3>1 DEF Queued
    <3>3. ingress_queue' = Append(ingress_queue, e)
      BY <2>2 DEF enqueue
    <3> HIDE DEF e, m
    <3>4. /\ n \in Nat /\ Len(ingress_queue') = n + 1
          /\ \A i \in 1..n : ingress_queue'[i] = ingress_queue[i]
          /\ ingress_queue'[n + 1] = e
      BY <1>1, <3>2, <3>3, AppendProperties, Lengths
    <3>5. ASSUME NEW i \in 1..Len(ingress_queue')
          PROVE  ingress_queue'[i].msg = accepted'[ingress_queue'[i].id]
      <4>1. CASE i \in 1..n
        BY <1>2, <3>1, <3>4, <4>1
      <4>2. CASE i = n + 1
        BY <3>1, <3>2, <3>4, <4>2
      <4> QED
        BY <3>4, <4>1, <4>2
    <3> QED
      BY <1>2, <2>0, <3>1, <3>5, ConstantSets DEF SameMsg
  <2> QED
    BY <1>4, <2>1, <2>2, Received
<1>5. CASE IgnorePidZero \/ TakeMessage
  <2>1. /\ ingress_queue # <<>> /\ ingress_queue' = PopQueue
        /\ hand' \in {hand, FrontMsg} /\ accepted' = accepted
    BY <1>5 DEF IgnorePidZero, TakeMessage, handVars
  <2>2. /\ FrontMsg = ingress_queue[1] /\ 1 \in 1..Len(ingress_queue)
        /\ Len(PopQueue) = Len(ingress_queue) - 1
        /\ \A i \in 1..Len(PopQueue) : PopQueue[i] = ingress_queue[i + 1]
    BY <1>1, <2>1, HeadTailProperties, Lengths, EmptySeq DEF FrontMsg, PopQueue
  <2>3. \A i \in 1..Len(PopQueue) : i + 1 \in 1..Len(ingress_queue)
    BY <2>2, Lengths
  <2>4. \A i \in 1..Len(PopQueue) : PopQueue[i].msg = accepted[PopQueue[i].id]
    BY <1>2, <2>2, <2>3
  <2>5. hand' # NoMsg => hand'.msg = accepted'[hand'.id]
    BY <1>2, <2>1, <2>2
  <2> QED
    BY <2>1, <2>4, <2>5, ConstantSets DEF SameMsg
<1> QED
  BY <1>3, <1>4, <1>5, Actions
  DEF start, stop, Joined, CheckRunning, Sleep, StepSucceeds, StepFails,
      StepThrows, StepsDone, Record, ProcessEnds, NumberReused, stateVars, queueVars,
      handVars

\* The messages handled or in hand only grow in number, and so do the lives
\* of a process number.
LEMMA HeldGrows ==
  ASSUME TypeOK, OrderInv, [Next]_vars
  PROVE  /\ Len(handled) + Held <= Len(handled') + Held'
         /\ \A p \in Pids : lives[p] <= lives'[p] /\ lives'[p] \in Nat
<1>1. OrderInv'
  BY OrderStep
<1>2. /\ Len(accepted) = Len(handled) + Held + Len(ingress_queue)
      /\ Len(accepted') = Len(handled') + Held' + Len(ingress_queue')
  BY <1>1 DEF OrderInv, Numbered
<1>3. /\ Len(handled) \in Nat /\ Held \in {0, 1} /\ Len(ingress_queue) \in Nat
      /\ ingress_queue \in Seq(Queued) /\ accepted \in Seq(Msgs)
  BY Lengths DEF OrderInv, Numbered
<1>4. Len(handled') \in Nat /\ Held' \in {0, 1} /\ Len(ingress_queue') \in Nat
  <2>1. handled' \in Seq(Done) /\ ingress_queue' \in Seq(Queued)
    BY <1>1, ConstantSets DEF OrderInv, Numbered
  <2>2. Held' \in {0, 1}
    BY DEF Held
  <2> QED
    BY <2>1, <2>2, LenProperties
<1>5. Len(accepted') - Len(ingress_queue') >= Len(accepted) - Len(ingress_queue)
  <2>1. CASE UNCHANGED <<accepted, ingress_queue>>
    BY <1>2, <1>3, <2>1
  <2>2. ASSUME NEW p \in Payloads, enqueue(Parsed[p].msg), Parsed[p].msg \in Msgs
        PROVE  Len(accepted') - Len(ingress_queue')
                 >= Len(accepted) - Len(ingress_queue)
    <3>1. Len(accepted') = Len(accepted) + 1 /\ Len(accepted) \in Nat
      BY <1>3, <2>2, AppendProperties, Lengths DEF enqueue
    <3>2. [id |-> Len(accepted'), msg |-> Parsed[p].msg] \in Queued
      BY <2>2, <3>1 DEF Queued
    <3>3. Len(ingress_queue') = Len(ingress_queue) + 1
      BY <1>3, <2>2, <3>2, AppendProperties DEF enqueue
    <3> QED
      BY <1>3, <3>1, <3>3
  <2>3. CASE IgnorePidZero \/ TakeMessage
    <3>1. /\ ingress_queue # <<>> /\ ingress_queue' = Tail(ingress_queue)
          /\ accepted' = accepted
      BY <2>3 DEF IgnorePidZero, TakeMessage, PopQueue
    <3>2. Len(Tail(ingress_queue)) = Len(ingress_queue) - 1
      BY <1>3, <3>1, HeadTailProperties
    <3> QED
      BY <1>2, <1>3, <3>1, <3>2
  <2> QED
    BY <2>1, <2>2, <2>3, Actions, Received
    DEF start, stop, Joined, CheckRunning, Sleep, StepSucceeds, StepFails,
        StepThrows, StepsDone, Record, ProcessEnds, NumberReused, stateVars, queueVars
<1>6. \A p \in Pids : lives[p] <= lives'[p] /\ lives'[p] \in Nat
  <2>0. lives \in [Pids -> Nat]
    BY GovernorAssumption DEF TypeOK
  <2>1. CASE UNCHANGED lives
    BY <2>0, <2>1
  <2>2. ASSUME NEW q \in Pids, NumberReused(q)
        PROVE  \A p \in Pids : lives[p] <= lives'[p] /\ lives'[p] \in Nat
    BY <2>0, <2>2 DEF NumberReused
  <2> QED
    BY <2>1, <2>2, Actions
    DEF Receive, start, stop, Joined, CheckRunning, Sleep, IgnorePidZero,
        TakeMessage, StepSucceeds, StepFails, StepThrows, StepsDone, Record,
        ProcessEnds, stateVars, osVars
<1> QED
  BY <1>2, <1>3, <1>4, <1>5, <1>6

\* The entry StepSucceeds adds to the history.
MadeNow == [id |-> hand.id, step |-> NextStep, pid |-> pid, life |-> lives[pid]]

\* A step that succeeds is the next one of the message in hand.
LEMMA StepMade ==
  ASSUME TypeOK, OrderInv, AppliedInv, ProgressInv, StepSucceeds
  PROVE  /\ MadeNow \in Made /\ applied' = Append(applied, MadeNow)
         /\ MadeNow.id = hand.id /\ MadeNow.step = NextStep
         /\ MadeNow.pid = pid /\ MadeNow.life = lives[pid]
         /\ pid \in Pids /\ thread = "apply" /\ hand # NoMsg
         /\ hand.id = Len(handled) + 1 /\ Held = 1
         /\ NextStep \in todo
         /\ \A t \in todo \ {NextStep} : Place[NextStep] < Place[t]
         /\ UNCHANGED <<thread, hand, result, handled, accepted, ingress_queue,
                        rules, lives>>
         /\ todo' = todo \ {NextStep}
<1>1. /\ thread = "apply" /\ todo # {} /\ todo' = todo \ {NextStep}
      /\ UNCHANGED <<thread, hand, result, handled, accepted, ingress_queue,
                     rules, lives>>
      /\ applied' = Append(applied, MadeNow)
  BY DEF StepSucceeds, queueVars, ruleVars, MadeNow
<1>2. hand # NoMsg /\ hand.id = Len(handled) + 1 /\ Held = 1
  BY <1>1 DEF OrderInv, HandInv, Numbered, Held
<1>3. pid \in Pids
  BY <1>1 DEF ProgressInv
<1>4. todo \subseteq Steps
  BY DEF TypeOK
<1>5. /\ NextStep \in todo
      /\ \A t \in todo \ {NextStep} : Place[NextStep] < Place[t]
  BY <1>1, <1>4, NextStepFirst
<1>6. /\ MadeNow.id = hand.id /\ MadeNow.step = NextStep
      /\ MadeNow.pid = pid /\ MadeNow.life = lives[pid]
  BY DEF MadeNow
<1>7. MadeNow \in Made
  <2>1. hand.id \in Nat \ {0}
    BY <1>2, Lengths
  <2>2. lives[pid] \in Nat
    BY <1>3, GovernorAssumption DEF TypeOK
  <2>3. NextStep \in Steps
    BY <1>4, <1>5
  <2> QED
    BY <1>3, <2>1, <2>2, <2>3 DEF MadeNow, Made
<1> QED
  BY <1>1, <1>2, <1>3, <1>5, <1>6, <1>7

\* Only StepSucceeds adds to the steps made.
LEMMA OnlyStepsMade ==
  ASSUME [Next]_vars, ~StepSucceeds
  PROVE  applied' = applied
BY Actions DEF Receive, start, stop, Joined, CheckRunning, Sleep, IgnorePidZero,
   TakeMessage, StepFails, StepThrows, StepsDone, Record, ProcessEnds,
   NumberReused, stateVars

\* The steps made stay those of messages taken, in order.
LEMMA AppliedStep ==
  ASSUME TypeOK, OrderInv, AppliedInv, ProgressInv, [Next]_vars
  PROVE  AppliedInv'
<1> DEFINE n == Len(applied)
           k == Len(handled) + Held
<1>1. /\ applied \in Seq(Made) /\ n \in Nat /\ DOMAIN applied = 1..n
      /\ \A i \in 1..n : applied[i] \in Made
  BY LenProperties, ElementOfSeq DEF AppliedInv
<1>2. \A i \in 1..n : /\ applied[i].id \in Nat /\ applied[i].pid \in Pids
                      /\ applied[i].life \in Nat
  BY <1>1 DEF Made
<1>3. \A i \in 1..n : /\ applied[i].id <= k
                      /\ applied[i].life <= lives[applied[i].pid]
  BY DEF AppliedInv
<1>4. /\ k \in Nat /\ k <= Len(handled') + Held'
      /\ Len(handled') + Held' \in Nat
      /\ \A p \in Pids : lives[p] <= lives'[p] /\ lives'[p] \in Nat
                         /\ lives[p] \in Nat
  <2>1. k \in Nat
    BY Lengths
  <2>2. Len(handled') \in Nat /\ Held' \in {0, 1}
    <3>1. handled' \in Seq(Done)
      BY OrderStep, ConstantSets DEF OrderInv, Numbered
    <3>2. Held' \in {0, 1}
      BY DEF Held
    <3> QED
      BY <3>1, <3>2, LenProperties
  <2>3. \A p \in Pids : lives[p] \in Nat
    BY GovernorAssumption DEF TypeOK
  <2> QED
    BY <2>1, <2>2, <2>3, HeldGrows
<1> HIDE DEF k
<1>5. \A i \in 1..n : /\ applied[i].id <= Len(handled') + Held'
                      /\ applied[i].life <= lives'[applied[i].pid]
  BY <1>2, <1>3, <1>4, SMTT(30)
<1>6. CASE ~StepSucceeds
  BY <1>1, <1>5, <1>6, OnlyStepsMade, ConstantSets DEF AppliedInv, StepsInOrder
<1>7. CASE StepSucceeds
  <2>0. /\ MadeNow \in Made /\ applied' = Append(applied, MadeNow)
        /\ MadeNow.id = hand.id /\ MadeNow.step = NextStep
        /\ MadeNow.pid = pid /\ MadeNow.life = lives[pid]
        /\ pid \in Pids /\ hand.id = k /\ NextStep \in todo
    BY <1>7, StepMade DEF k
  <2> HIDE DEF n
  <2>1. /\ applied' \in Seq(Made) /\ Len(applied') = n + 1
        /\ \A i \in 1..n : applied'[i] = applied[i]
        /\ applied'[n + 1] = MadeNow
    BY <1>1, <2>0, AppendProperties DEF n
  <2>2. DOMAIN applied' = 1..(n + 1)
    BY <1>1, <2>1, LenProperties
  <2>3. \A i \in 1..(n + 1) : i \in 1..n \/ i = n + 1
    BY <1>1
  <2>4. ASSUME NEW i \in 1..Len(applied')
        PROVE  /\ applied'[i].id <= Len(handled') + Held'
               /\ applied'[i].life <= lives'[applied'[i].pid]
    <3>1. CASE i \in 1..n
      BY <1>5, <2>1, <3>1
    <3>2. CASE i = n + 1
      BY <1>4, <2>0, <2>1, <3>2
    <3> QED
      BY <2>1, <2>3, <3>1, <3>2
  <2>5. \A i \in 1..n : applied[i].id = hand.id => Place[applied[i].step] < Place[NextStep]
    <3> SUFFICES ASSUME NEW i \in 1..n, applied[i].id = hand.id
                 PROVE  Place[applied[i].step] < Place[NextStep]
      OBVIOUS
    <3>1. applied[i].step \in StepsMade(hand.id)
      BY <1>1 DEF StepsMade
    <3>2. \A s \in StepsMade(hand.id), t \in todo : Place[s] < Place[t]
      BY <1>7, StepMade DEF ProgressInv
    <3> QED
      BY <2>0, <3>1, <3>2
  <2>6. StepsInOrder'
    <3>1. SUFFICES ASSUME NEW i \in 1..(n + 1), NEW j \in 1..(n + 1), i < j
                   PROVE  \/ applied'[i].id < applied'[j].id
                          \/ /\ applied'[i].id = applied'[j].id
                             /\ Place[applied'[i].step] < Place[applied'[j].step]
      BY <2>2 DEF StepsInOrder, Place
    <3>2. i \in 1..n /\ applied'[i] = applied[i]
      BY <1>1, <2>1, <3>1
    <3>3. CASE j \in 1..n
      BY <1>1, <2>1, <3>1, <3>2, <3>3 DEF AppliedInv, StepsInOrder
    <3>4. CASE j = n + 1
      <4>1. applied'[j].id = k /\ applied'[j].step = NextStep
        BY <2>0, <2>1, <3>4
      <4>2. applied[i].id < k \/ applied[i].id = k
        BY <1>2, <1>3, <1>4, <3>2
      <4> QED
        BY <2>0, <2>5, <3>2, <4>1, <4>2
    <3> QED
      BY <2>3, <3>3, <3>4
  <2> QED
    BY <2>1, <2>4, <2>6, ConstantSets DEF AppliedInv
<1> QED
  BY <1>6, <1>7

\* What is left to do and what has been made make up the message in hand.
LEMMA ProgressStep ==
  ASSUME TypeOK, OrderInv, AppliedInv, ProgressInv, [Next]_vars
  PROVE  ProgressInv'
<1>0. todo \subseteq Steps
  BY DEF TypeOK
<1>1. CASE thread' \notin {"apply", "record"}
  BY <1>1 DEF ProgressInv
<1>2. CASE UNCHANGED <<thread, hand, todo, result, applied>>
  <2>1. /\ StepsMade(hand.id)' = StepsMade(hand.id)
        /\ StepsOf(hand.msg)' = StepsOf(hand.msg) /\ pid' = pid
    BY <1>2 DEF StepsMade, StepsOf, Steps, Needs, pid
  <2>2. CutShort(StepsMade(hand.id), StepsOf(hand.msg))
          => CutShort(StepsMade(hand.id), StepsOf(hand.msg))'
    BY <2>1 DEF CutShort, Place
  <2> QED
    BY <1>2, <2>1, <2>2 DEF ProgressInv, Place
<1>3. CASE TakeMessage
  <2> DEFINE m == FrontMsg.msg
             steps == StepsOf(FrontMsg.msg)
  <2>1. /\ thread = "pop" /\ ingress_queue # <<>> /\ hand' = FrontMsg
        /\ UNCHANGED applied
    BY <1>3 DEF TakeMessage
  <2>2. hand = NoMsg /\ Present
    BY <2>1 DEF OrderInv, HandInv, Present
  <2>3. Held = 0 /\ FrontMsg.id = Len(handled) + 1
    BY <2>1, <2>2, QueueFront DEF OrderInv, Held
  <2>4. StepsMade(FrontMsg.id) = {}
    BY <2>3, NothingMade, Lengths
  <2>5. StepsMade(hand.id)' = {} /\ StepsOf(hand.msg)' = steps
    BY <2>1, <2>4 DEF StepsMade, StepsOf, Steps, Needs
  <2>6. CASE is_process_alive(m.pid)
    <3>1. thread' = "apply" /\ todo' = steps
      BY <1>3, <2>6 DEF TakeMessage
    <3>2. pid' \in Pids
      BY <2>1, <2>6 DEF pid, is_process_alive
    <3> HIDE DEF steps
    <3> QED
      BY <2>5, <3>1, <3>2 DEF ProgressInv
  <2>7. CASE ~is_process_alive(m.pid)
    <3>1. thread' = "record" /\ result' = "lookup"
      BY <1>3, <2>7 DEF TakeMessage
    <3>2. CutShort({}, steps)
      BY DEF CutShort
    <3> HIDE DEF steps
    <3>3. CutShort(StepsMade(hand.id), StepsOf(hand.msg))'
      BY <2>5, <3>2 DEF CutShort, Place
    <3> QED
      BY <3>1, <3>3 DEF ProgressInv
  <2> QED
    BY <2>6, <2>7
<1>4. CASE StepSucceeds
  <2> DEFINE made == StepsMade(hand.id)
             steps == StepsOf(hand.msg)
  <2>1. /\ MadeNow \in Made /\ applied' = Append(applied, MadeNow)
        /\ MadeNow.id = hand.id /\ MadeNow.step = NextStep
        /\ pid \in Pids /\ thread = "apply" /\ NextStep \in todo
        /\ \A t \in todo \ {NextStep} : Place[NextStep] < Place[t]
        /\ UNCHANGED <<thread, hand, result>> /\ todo' = todo \ {NextStep}
    BY <1>4, StepMade
  <2>2. /\ todo \subseteq steps /\ made = steps \ todo
        /\ \A s \in made, t \in todo : Place[s] < Place[t]
    BY <2>1 DEF ProgressInv
  <2>3. StepsMade(hand.id)' = made \cup {NextStep}
    <3>1. \A id : StepsMade(id)' = IF id = MadeNow.id
                                     THEN StepsMade(id) \cup {MadeNow.step}
                                     ELSE StepsMade(id)
      BY <2>1, StepsMadeAppend DEF AppliedInv
    <3>2. StepsMade(hand.id)' = {applied'[i].step :
                                   i \in {i \in DOMAIN applied' : applied'[i].id = hand.id}}
      BY <2>1 DEF StepsMade
    <3>3. \A id : StepsMade(id)' = {applied'[i].step :
                                   i \in {i \in DOMAIN applied' : applied'[i].id = id}}
      BY DEF StepsMade
    <3> HIDE DEF StepsMade
    <3>4. {applied'[i].step : i \in {i \in DOMAIN applied' : applied'[i].id = hand.id}}
            = StepsMade(hand.id) \cup {NextStep}
      BY <2>1, <3>1, <3>3
    <3> QED
      BY <3>2, <3>4
  <2>4. StepsOf(hand.msg)' = steps /\ pid' = pid
    BY <2>1 DEF StepsOf, Steps, Needs, pid
  <2> HIDE DEF made, steps
  <2>5. /\ todo' \subseteq steps /\ made \cup {NextStep} = steps \ todo'
        /\ \A s \in made \cup {NextStep}, t \in todo' : Place[s] < Place[t]
    BY <2>1, <2>2
  <2> QED
    BY <2>1, <2>3, <2>4, <2>5 DEF ProgressInv, Place
<1>5. CASE StepFails
  <2>1. /\ thread = "apply" /\ todo # {} /\ thread' = "record"
        /\ result' = NextStep /\ UNCHANGED <<hand, applied>>
    BY <1>5 DEF StepFails, AfterFailure
  <2> DEFINE made == StepsMade(hand.id)
             steps == StepsOf(hand.msg)
  <2>2. NextStep \in todo /\ NextStep \in Steps
    BY <1>0, <2>1, NextStepFirst
  <2>3. NextStep # "success"
    BY <2>2 DEF Steps, Needs
  <2>4. /\ todo \subseteq steps /\ made = steps \ todo
        /\ \A s \in made, t \in todo : Place[s] < Place[t]
    BY <2>1 DEF ProgressInv
  <2>5. StepsMade(hand.id)' = made /\ StepsOf(hand.msg)' = steps
    BY <2>1 DEF StepsMade, StepsOf, Steps, Needs
  <2> HIDE DEF made, steps
  <2>6. CutShort(made, steps)
    BY <2>2, <2>4 DEF CutShort
  <2>7. CutShort(StepsMade(hand.id), StepsOf(hand.msg))'
    BY <2>5, <2>6 DEF CutShort, Place
  <2> QED
    BY <2>1, <2>3, <2>7 DEF ProgressInv
<1>6. CASE StepsDone
  <2>1. /\ thread = "apply" /\ todo = {} /\ thread' = "record"
        /\ result' = "success" /\ UNCHANGED <<hand, applied>>
    BY <1>6 DEF StepsDone
  <2>2. pid \in Pids /\ StepsMade(hand.id) = StepsOf(hand.msg)
    BY <2>1 DEF ProgressInv
  <2>3. /\ StepsMade(hand.id)' = StepsMade(hand.id)
        /\ StepsOf(hand.msg)' = StepsOf(hand.msg) /\ pid' = pid
    BY <2>1 DEF StepsMade, StepsOf, Steps, Needs, pid
  <2> QED
    BY <2>1, <2>2, <2>3 DEF ProgressInv
<1> QED
  BY <1>1, <1>2, <1>3, <1>4, <1>5, <1>6, Actions
  DEF Receive, start, stop, Joined, CheckRunning, Sleep, IgnorePidZero,
      StepThrows, Record, ProcessEnds, NumberReused, stateVars, handVars

-----------------------------------------------------------------------------
(* Outcomes.                                                               *)

\* An outcome stays right while the message and the steps made of it stay.
LEMMA OutcomeSame ==
  ASSUME NEW i, handled'[i] = handled[i], accepted'[i] = accepted[i],
         StepsMade(i)' = StepsMade(i), OutcomeRight(i)
  PROVE  OutcomeRight(i)'
<1>1. StepsOf(accepted[i])' = StepsOf(accepted[i])
  BY DEF StepsOf, Steps, Needs
<1>2. CutShort(StepsMade(i), StepsOf(accepted[i]))'
        <=> CutShort(StepsMade(i), StepsOf(accepted[i]))
  BY <1>1 DEF CutShort, Place
<1> QED
  BY <1>1, <1>2 DEF OutcomeRight

\* The history of outcomes grows by one entry at a time, in two actions.
LEMMA HandledGrows ==
  ASSUME OrderInv, [Next]_vars
  PROVE  \/ handled' = handled
         \/ \E o \in Outcome :
              /\ handled' \in Seq(Done) /\ Len(handled') = Len(handled) + 1
              /\ \A i \in 1..Len(handled) : handled'[i] = handled[i]
              /\ handled'[Len(handled) + 1].outcome = o
              /\ \/ IgnorePidZero /\ o = "ignored"
                 \/ Record /\ o = IF result = "success" THEN "processed"
                                                        ELSE "failed"
<1> SUFFICES ASSUME handled' # handled
             PROVE  \E o \in Outcome :
                      /\ handled' \in Seq(Done) /\ Len(handled') = Len(handled) + 1
                      /\ \A i \in 1..Len(handled) : handled'[i] = handled[i]
                      /\ handled'[Len(handled) + 1].outcome = o
                      /\ \/ IgnorePidZero /\ o = "ignored"
                         \/ Record /\ o = IF result = "success" THEN "processed"
                                                                ELSE "failed"
  OBVIOUS
<1>1. handled \in Seq(Done) /\ handled' \in Seq(Done)
  BY OrderStep, ConstantSets DEF OrderInv, Numbered
<1>2. IgnorePidZero \/ Record
  BY Actions DEF Receive, start, stop, Joined, CheckRunning, Sleep, TakeMessage,
     StepSucceeds, StepFails, StepThrows, StepsDone, ProcessEnds, NumberReused,
     stateVars, ruleVars
<1>3. PICK d \in Done, o \in Outcome :
        /\ handled' = Append(handled, d) /\ d.outcome = o
        /\ \/ IgnorePidZero /\ o = "ignored"
           \/ Record /\ o = IF result = "success" THEN "processed" ELSE "failed"
  <2>1. CASE IgnorePidZero
    <3> DEFINE e == [id |-> FrontMsg.id, outcome |-> "ignored"]
    <3>1. handled' = Append(handled, e)
      BY <2>1 DEF IgnorePidZero
    <3>2. hand = NoMsg /\ Present /\ ingress_queue # <<>>
      BY <2>1 DEF IgnorePidZero, OrderInv, HandInv, Present
    <3>3. FrontMsg.id \in Nat
      BY <3>2, QueueFront, Lengths DEF OrderInv
    <3>4. e \in Done /\ e.outcome = "ignored" /\ "ignored" \in Outcome
      BY <3>3 DEF Done, Outcome
    <3> HIDE DEF e
    <3> QED
      BY <2>1, <3>1, <3>4
  <2>2. CASE Record
    <3> DEFINE o == IF result = "success" THEN "processed" ELSE "failed"
               e == [id |-> hand.id, outcome |-> o]
    <3>1. handled' = Append(handled, e)
      BY <2>2 DEF Record
    <3>2. hand.id \in Nat
      BY <2>2, Lengths DEF Record, OrderInv, HandInv, Numbered
    <3>3. o \in Outcome
      BY DEF Outcome
    <3>4. e \in Done /\ e.outcome = o
      BY <3>2, <3>3 DEF Done
    <3> HIDE DEF e
    <3> QED
      BY <2>2, <3>1, <3>3, <3>4
  <2> QED
    BY <1>2, <2>1, <2>2
<1>4. /\ Len(handled') = Len(handled) + 1
      /\ \A i \in 1..Len(handled) : handled'[i] = handled[i]
      /\ handled'[Len(handled) + 1] = d
  BY <1>1, <1>3, AppendProperties
<1> QED
  BY <1>1, <1>3, <1>4

\* What was made of a message that has been handled does not change.
LEMMA HandledKept ==
  ASSUME TypeOK, OrderInv, AppliedInv, ProgressInv, [Next]_vars,
         NEW i \in 1..Len(handled)
  PROVE  /\ StepsMade(i)' = StepsMade(i)
         /\ accepted'[i] = accepted[i]
<1>1. accepted'[i] = accepted[i]
  <2>1. i \in 1..Len(accepted)
    BY Lengths
  <2> QED
    BY <2>1, AcceptedGrows
<1>2. CASE ~StepSucceeds
  BY <1>1, <1>2, OnlyStepsMade DEF StepsMade
<1>3. CASE StepSucceeds
  <2>1. /\ MadeNow \in Made /\ applied' = Append(applied, MadeNow)
        /\ MadeNow.id = Len(handled) + 1
    BY <1>3, StepMade
  <2>2. i # MadeNow.id
    BY <2>1, Lengths
  <2>3. applied \in Seq(Made)
    BY DEF AppliedInv
  <2>4. StepsMade(i)' = StepsMade(i)
    BY <2>1, <2>2, <2>3, StepsMadeAppend
  <2> QED
    BY <1>1, <2>4
<1> QED
  BY <1>2, <1>3

\* The outcomes counted are right.
LEMMA OutcomesStep ==
  ASSUME TypeOK, OrderInv, SameMsg, AppliedInv, ProgressInv, OutcomesRight,
         [Next]_vars
  PROVE  OutcomesRight'
<1>1. PICK n \in Nat : n = Len(handled)
  BY Lengths
<1>2. ASSUME NEW i \in 1..n, handled'[i] = handled[i]
      PROVE  OutcomeRight(i)'
  <2>1. StepsMade(i)' = StepsMade(i) /\ accepted'[i] = accepted[i]
    BY <1>1, HandledKept
  <2>2. OutcomeRight(i)
    BY <1>1 DEF OutcomesRight
  <2> QED
    BY <1>2, <2>1, <2>2, OutcomeSame
<1>3. CASE handled' = handled
  <2>1. \A i \in 1..n : OutcomeRight(i)'
    BY <1>2, <1>3, Zenon
  <2> QED
    BY <1>1, <1>3, <2>1 DEF OutcomesRight
<1>4. ASSUME NEW o \in Outcome,
             Len(handled') = n + 1,
             \A i \in 1..n : handled'[i] = handled[i],
             handled'[n + 1].outcome = o,
             \/ IgnorePidZero /\ o = "ignored"
             \/ Record /\ o = IF result = "success" THEN "processed" ELSE "failed"
      PROVE  OutcomesRight'
  <2>0. StepsMade(n + 1)' = StepsMade(n + 1)
    <3>1. UNCHANGED applied
      BY <1>4 DEF IgnorePidZero, Record
    <3> QED
      BY <3>1 DEF StepsMade
  <2>1. OutcomeRight(n + 1)'
    <3>1. CASE IgnorePidZero /\ o = "ignored"
      <4>1. Held = 0
        BY <3>1 DEF IgnorePidZero, OrderInv, HandInv, Held, Present
      <4>2. StepsMade(n + 1) = {}
        BY <1>1, <4>1, NothingMade
      <4>3. OutcomeRight(n + 1)' <=> StepsMade(n + 1)' = {}
        BY <1>4, <3>1 DEF OutcomeRight
      <4> QED
        BY <2>0, <4>2, <4>3
    <3>2. CASE Record /\ o = IF result = "success" THEN "processed" ELSE "failed"
      <4>1. /\ thread = "record" /\ hand # NoMsg /\ hand.id = n + 1
            /\ accepted[n + 1] = hand.msg /\ accepted' = accepted
        BY <1>1, <3>2 DEF Record, OrderInv, HandInv, Numbered, SameMsg, queueVars
      <4>2. StepsOf(accepted[n + 1])' = StepsOf(hand.msg)
        <5>1. accepted'[n + 1] = hand.msg
          BY <4>1
        <5> QED
          BY <4>1, <5>1 DEF StepsOf, Steps, Needs
      <4>3. StepsMade(n + 1)' = StepsMade(hand.id)
        BY <2>0, <4>1
      <4>4. CASE result = "success"
        <5>1. StepsMade(hand.id) = StepsOf(hand.msg)
          BY <4>1, <4>4 DEF ProgressInv
        <5>2. OutcomeRight(n + 1)'
                <=> StepsMade(n + 1)' = StepsOf(accepted[n + 1])'
          BY <1>4, <3>2, <4>4 DEF OutcomeRight
        <5> QED
          BY <4>2, <4>3, <5>1, <5>2
      <4>5. CASE result # "success"
        <5>1. CutShort(StepsMade(hand.id), StepsOf(hand.msg))
          BY <4>1, <4>5 DEF ProgressInv
        <5>2. OutcomeRight(n + 1)'
                <=> CutShort(StepsMade(n + 1), StepsOf(accepted[n + 1]))'
          BY <1>4, <3>2, <4>5 DEF OutcomeRight
        <5>3. CutShort(StepsMade(n + 1), StepsOf(accepted[n + 1]))'
          BY <4>2, <4>3, <5>1 DEF CutShort, Place
        <5> QED
          BY <5>2, <5>3
      <4> QED
        BY <4>4, <4>5
    <3> QED
      BY <1>4, <3>1, <3>2
  <2>2. \A i \in 1..(n + 1) : i \in 1..n \/ i = n + 1
    BY <1>1
  <2>3. \A i \in 1..n : OutcomeRight(i)'
    BY <1>2, <1>4
  <2>4. \A i \in 1..Len(handled') : OutcomeRight(i)'
    BY <1>4, <2>1, <2>2, <2>3
  <2> QED
    BY <2>4 DEF OutcomesRight
<1> QED
  BY <1>1, <1>3, <1>4, HandledGrows, SMTT(30)

\* rules_ holds the last processed message of each process.
LEMMA RulesStep ==
  ASSUME TypeOK, OrderInv, SameMsg, AppliedInv, ProgressInv, RulesRight,
         [Next]_vars
  PROVE  RulesRight'
<1> SUFFICES ASSUME NEW p \in Pids PROVE RuleRight(p)'
  BY SMTT(30) DEF RulesRight
<1>1. PICK n \in Nat : n = Len(handled) /\ DOMAIN handled = 1..n
  BY Lengths
<1>2. RuleRight(p) /\ Processed(p) \subseteq 1..n
  BY <1>1 DEF RulesRight, Processed
<1>3. \A i \in 1..n : accepted'[i] = accepted[i]
  BY <1>1, HandledKept
<1>4. CASE Processed(p)' = Processed(p) /\ UNCHANGED rules
  BY <1>2, <1>4 DEF RuleRight
<1>5. CASE handled' = handled
  <2>1. UNCHANGED rules
    <3>1. CASE Record
      <4>1. handled \in Seq(Done) /\ handled' \in Seq(Done) /\ hand.id \in Nat
        BY <3>1, OrderStep, ConstantSets, Lengths
        DEF OrderInv, Numbered, Record, HandInv
      <4>2. PICK o \in Outcome : handled' = Append(handled, [id |-> hand.id,
                                                             outcome |-> o])
        BY <3>1 DEF Record, Outcome
      <4>3. [id |-> hand.id, outcome |-> o] \in Done
        BY <4>1 DEF Done
      <4>4. Len(handled') = Len(handled) + 1
        BY <4>1, <4>2, <4>3, AppendProperties
      <4> QED
        BY <1>1, <1>5, <4>4
    <3>2. CASE ~Record
      BY <3>2, Actions
      DEF Receive, start, stop, Joined, CheckRunning, Sleep, IgnorePidZero,
          TakeMessage, StepSucceeds, StepFails, StepThrows, StepsDone,
          ProcessEnds, NumberReused, stateVars, ruleVars
    <3> QED
      BY <3>1, <3>2
  <2>2. Processed(p)' = Processed(p)
    BY <1>1, <1>3, <1>5 DEF Processed
  <2> QED
    BY <1>4, <2>1, <2>2
<1>6. ASSUME NEW o \in Outcome,
             handled' \in Seq(Done), Len(handled') = n + 1,
             \A i \in 1..n : handled'[i] = handled[i],
             handled'[n + 1].outcome = o,
             \/ IgnorePidZero /\ o = "ignored"
             \/ Record /\ o = IF result = "success" THEN "processed" ELSE "failed"
      PROVE  RuleRight(p)'
  <2>1. DOMAIN handled' = 1..(n + 1)
    BY <1>6, LenProperties
  <2>2. \A i : i \in 1..(n + 1) <=> i \in 1..n \/ i = n + 1
    OBVIOUS
  <2>3. \A i : i \in Processed(p) <=> i \in 1..n /\ handled[i].outcome = "processed"
                                      /\ accepted[i].pid = p
    BY <1>1 DEF Processed
  <2>4. \A i : i \in Processed(p)' <=>
               i \in 1..(n + 1) /\ handled'[i].outcome = "processed"
               /\ accepted'[i].pid = p
    BY <2>1 DEF Processed
  <2>5. \A i : i \in Processed(p)' <=>
               \/ i \in Processed(p)
               \/ i = n + 1 /\ o = "processed" /\ accepted'[n + 1].pid = p
    BY <1>3, <1>6, <2>2, <2>3, <2>4
  <2>6. CASE o # "processed"
    <3>1. UNCHANGED rules
      BY <1>6, <2>6 DEF IgnorePidZero, Record
    <3>2. Processed(p)' = Processed(p)
      BY <2>5, <2>6
    <3> QED
      BY <1>4, <3>1, <3>2
  <2>7. CASE o = "processed"
    <3>1. Record /\ result = "success"
      BY <1>6, <2>7
    <3>2. /\ thread = "record" /\ hand # NoMsg /\ hand.id = n + 1
          /\ accepted[n + 1] = hand.msg /\ accepted' = accepted
          /\ rules' = Set(rules, pid, n + 1)
      BY <1>1, <3>1 DEF Record, OrderInv, HandInv, Numbered, SameMsg, queueVars
    <3>3. accepted'[n + 1].pid = pid
      BY <3>2 DEF pid
    <3>4. CASE p = pid
      <4>1. Processed(p)' = Processed(p) \cup {n + 1}
        BY <2>5, <2>7, <3>3, <3>4
      <4>2. Max(Processed(p) \cup {n + 1}) = n + 1
        BY <1>2, MaxLast
      <4>3. p \in DOMAIN rules' /\ rules'[p] = n + 1
        BY <3>2, <3>4 DEF Set
      <4>4. Max(Processed(p)') = n + 1 /\ Processed(p)' # {}
        BY <4>1, <4>2
      <4> QED
        BY <4>3, <4>4 DEF RuleRight, Max
    <3>5. CASE p # pid
      <4>1. Processed(p)' = Processed(p)
        BY <2>5, <3>3, <3>5
      <4>2. /\ p \in DOMAIN rules' <=> p \in DOMAIN rules
            /\ p \in DOMAIN rules => rules'[p] = rules[p]
        BY <3>2, <3>5 DEF Set
      <4> QED
        BY <1>2, <4>1, <4>2 DEF RuleRight, Max
    <3> QED
      BY <3>4, <3>5
  <2> QED
    BY <2>6, <2>7
<1> QED
  BY <1>1, <1>5, <1>6, HandledGrows

-----------------------------------------------------------------------------
(* Limits.                                                                 *)

\* A limit stays right while it and the message last applied stay.
LEMMA LimitSame ==
  ASSUME OrderInv, AppliedInv, [Next]_vars, NEW p, NEW step,
         Hits(p, step)' = Hits(p, step),
         \A i \in 1..Len(applied) : applied'[i] = applied[i],
         limits'[p][step] = limits[p][step],
         LimitRight(p, step)
  PROVE  LimitRight(p, step)'
<1>1. CASE Hits(p, step) = {}
  BY <1>1 DEF LimitRight
<1>2. CASE Hits(p, step) # {}
  <2>1. /\ applied \in Seq(Made) /\ Len(applied) \in Nat
        /\ DOMAIN applied = 1..Len(applied)
    BY LenProperties DEF AppliedInv
  <2>2. Hits(p, step) \subseteq 1..Len(applied)
    BY <2>1 DEF Hits
  <2>3. PICK h \in 1..Len(applied) : h = Max(Hits(p, step))
    BY <1>2, <2>1, <2>2, MaxExists
  <2>4. Max(Hits(p, step))' = h
    BY <2>3 DEF Max
  <2>5. applied[h].id \in 1..Len(accepted)
    <3>1. applied[h] \in Made
      BY <2>1, <2>3, ElementOfSeq
    <3>2. applied[h].id \in Nat \ {0} /\ applied[h].id <= Len(handled) + Held
      BY <2>3, <3>1 DEF Made, AppliedInv
    <3> QED
      BY <3>2, Lengths
  <2>6. /\ applied'[h] = applied[h]
        /\ accepted'[applied'[h].id] = accepted[applied[h].id]
    BY <2>3, <2>5, AcceptedGrows
  <2> QED
    BY <1>2, <2>3, <2>4, <2>6 DEF LimitRight, Both
<1> QED
  BY <1>1, <1>2

\* The limits of a process are those of the last message applied to it, also
\* when its number has been reused.
LEMMA LimitsStep ==
  ASSUME TypeOK, OrderInv, SameMsg, AppliedInv, ProgressInv, LimitsAsAsked,
         [Next]_vars
  PROVE  LimitsAsAsked'
<1> SUFFICES ASSUME NEW p \in Pids, NEW step \in {"nofile", "core"}
             PROVE  LimitRight(p, step)'
  BY DEF LimitsAsAsked
<1>0. LimitRight(p, step)
  BY DEF LimitsAsAsked
<1>1. PICK n \in Nat : n = Len(applied) /\ DOMAIN applied = 1..n
  BY LenProperties DEF AppliedInv
<1>2. /\ limits \in [Pids -> [nofile : Limit, core : Limit]]
      /\ lives \in [Pids -> Nat]
  BY GovernorAssumption DEF TypeOK
<1>3. CASE UNCHANGED <<applied, lives, limits>>
  <2>1. Hits(p, step)' = Hits(p, step)
    BY <1>3 DEF Hits
  <2> QED
    BY <1>0, <1>3, <2>1, LimitSame
<1>4. ASSUME NEW q \in Pids, NumberReused(q)
      PROVE  LimitRight(p, step)'
  <2>1. /\ lives' = [lives EXCEPT ![q] = @ + 1]
        /\ limits' = [limits EXCEPT ![q] = OldLimits] /\ UNCHANGED applied
    BY <1>4 DEF NumberReused
  <2>2. CASE p = q
    <3>1. lives'[p] = lives[p] + 1 /\ limits'[p][step] = OldLimits[step]
          /\ lives[p] \in Nat
      BY <1>2, <2>1, <2>2
    <3>2. \A i \in 1..n : applied[i].pid = p =>
                            applied[i].life <= lives[p] /\ applied[i].life \in Nat
      <4> SUFFICES ASSUME NEW i \in 1..n, applied[i].pid = p
                   PROVE  applied[i].life <= lives[p] /\ applied[i].life \in Nat
        OBVIOUS
      <4>1. applied[i] \in Made
        BY <1>1, ElementOfSeq DEF AppliedInv
      <4> QED
        BY <1>1, <4>1 DEF AppliedInv, Made
    <3>3. Hits(p, step)' = {}
      BY <1>1, <2>1, <3>1, <3>2 DEF Hits
    <3> QED
      BY <3>1, <3>3 DEF LimitRight
  <2>3. CASE p # q
    <3>1. lives'[p] = lives[p] /\ limits'[p] = limits[p]
      BY <1>2, <2>1, <2>3
    <3>2. Hits(p, step)' = Hits(p, step)
      BY <2>1, <3>1 DEF Hits
    <3> QED
      BY <1>0, <2>1, <3>1, <3>2, LimitSame
  <2> QED
    BY <2>2, <2>3
<1>5. CASE StepSucceeds
  <2>0. /\ MadeNow \in Made /\ applied' = Append(applied, MadeNow)
        /\ MadeNow.id = hand.id /\ MadeNow.step = NextStep
        /\ MadeNow.pid = pid /\ MadeNow.life = lives[pid]
        /\ pid \in Pids /\ hand # NoMsg
        /\ UNCHANGED <<accepted, lives>>
    BY <1>5, StepMade
  <2>1. /\ applied \in Seq(Made)
        /\ DOMAIN applied' = 1..(n + 1)
        /\ \A i \in 1..n : applied'[i] = applied[i]
        /\ applied'[n + 1] = MadeNow
    BY <1>1, <2>0, AppendProperties, LenProperties DEF AppliedInv
  <2>2. \A i : i \in 1..(n + 1) <=> i \in 1..n \/ i = n + 1
    OBVIOUS
  <2>3. \A i : i \in Hits(p, step) <=>
               /\ i \in 1..n /\ applied[i].pid = p /\ applied[i].life = lives[p]
               /\ applied[i].step = step
    BY <1>1 DEF Hits
  <2>4. \A i : i \in Hits(p, step)' <=>
               /\ i \in 1..(n + 1) /\ applied'[i].pid = p
               /\ applied'[i].life = lives[p] /\ applied'[i].step = step
    BY <2>0, <2>1 DEF Hits
  <2>5. \A i : i \in Hits(p, step)' <=>
               i \in Hits(p, step) \/ (i = n + 1 /\ p = pid /\ step = NextStep)
    BY <2>0, <2>1, <2>2, <2>3, <2>4
  <2>6. CASE p = pid /\ step = NextStep
    <3>1. Hits(p, step)' = Hits(p, step) \cup {n + 1}
      BY <2>5, <2>6
    <3>2. Hits(p, step) \subseteq 1..n
      BY <2>3
    <3>3. Max(Hits(p, step) \cup {n + 1}) = n + 1
      BY <3>2, MaxLast
    <3>4. Max(Hits(p, step))' = n + 1 /\ Hits(p, step)' # {}
      BY <3>1, <3>3 DEF Max
    <3>5. accepted'[applied'[n + 1].id].fields = fields
      BY <2>0, <2>1 DEF SameMsg, fields
    <3>6. limits'[p][step] = RlimFor(step)
      <4>1. limits' = [limits EXCEPT ![p][step] = RlimFor(step)]
        BY <1>5, <2>6 DEF StepSucceeds, apply_rlimit
      <4> QED
        BY <1>2, <4>1
    <3>7. {Both(step)[1], Both(step)[2]} \subseteq DOMAIN fields =>
            RlimFor(step) = [cur |-> fields[Both(step)[1]],
                             max |-> fields[Both(step)[2]]]
      BY DEF Both, RlimFor, Rlim, Has
    <3> QED
      BY <3>4, <3>5, <3>6, <3>7 DEF LimitRight, Both
  <2>7. CASE ~(p = pid /\ step = NextStep)
    <3>1. Hits(p, step)' = Hits(p, step)
      BY <2>5, <2>7
    <3>2. limits'[p][step] = limits[p][step]
      <4>1. CASE NextStep \in {"nofile", "core"}
        <5>1. limits' = [limits EXCEPT ![pid][NextStep] = RlimFor(NextStep)]
          BY <1>5, <4>1 DEF StepSucceeds, apply_rlimit
        <5>2. RlimFor(NextStep) \in Limit
          BY <2>0, <4>1, RlimType, PlacesTyped DEF Places
        <5> QED
          BY <1>2, <2>0, <2>7, <4>1, <5>1, <5>2, LimitSet
      <4>2. CASE NextStep \notin {"nofile", "core"}
        BY <1>5, <4>2 DEF StepSucceeds
      <4> QED
        BY <4>1, <4>2
    <3> QED
      BY <1>0, <1>1, <2>1, <3>1, <3>2, LimitSame
  <2> QED
    BY <2>6, <2>7
<1> QED
  BY <1>3, <1>4, <1>5, Actions
  DEF Receive, start, stop, Joined, CheckRunning, Sleep, IgnorePidZero,
      TakeMessage, StepFails, StepThrows, StepsDone, Record, ProcessEnds, stateVars,
      osVars

-----------------------------------------------------------------------------
\* A new governor satisfies the invariant: nothing has been accepted or done.
LEMMA GovernorInit == Init => GovernorInv
<1> SUFFICES ASSUME Init PROVE GovernorInv
  OBVIOUS
<1>1. OrderInv
  BY OrderInit
<1>2. TypeOK
  <2>1. OldLimits \in [nofile : Limit, core : Limit]
    BY LimitsAssumption DEF Limit
  <2>2. limits \in [Pids -> [nofile : Limit, core : Limit]]
    BY <2>1 DEF Init
  <2>3. lives \in [Pids -> 0..MaxLives] /\ alive \in [Pids -> BOOLEAN]
    BY GovernorAssumption DEF Init
  <2>4. stats \in [messages_processed : Nat, messages_failed : Nat,
                   last_err : {"none", "lookup"} \cup Steps]
    BY DEF Init
  <2>5. NoMsg.id = 0
    BY DEF NoMsg
  <2>6. /\ running \in BOOLEAN /\ ended \in BOOLEAN
        /\ owner = "idle" /\ thread = "none"
        /\ hand = NoMsg /\ todo = {} /\ result = "none"
    BY DEF Init
  <2>7. DOMAIN rules = {}
    <3>1. rules = <<>>
      BY DEF Init
    <3> QED
      BY <3>1
  <2>8. Len(ingress_queue) = 0 /\ Len(accepted) = 0
    <3>1. ingress_queue = <<>> /\ accepted = <<>>
      BY DEF Init
    <3> QED
      BY <3>1, LenProperties
  <2>9. Places
    BY <1>1, PlacesTyped
  <2> QED
    BY <2>2, <2>3, <2>4, <2>5, <2>6, <2>7, <2>8, <2>9, GovernorAssumption
    DEF TypeOK, Places
<1>3. SameMsg /\ ProgressInv /\ OutcomesRight
  BY DEF Init, SameMsg, ProgressInv, OutcomesRight
<1>4. AppliedInv
  BY DEF Init, AppliedInv, StepsInOrder
<1>5. RulesRight
  <2>1. \A p \in Pids : Processed(p) = {} /\ p \notin DOMAIN rules
    BY DEF Init, Processed
  <2> QED
    BY <2>1 DEF RulesRight, RuleRight
<1>6. LimitsAsAsked
  <2>1. \A p \in Pids, step \in {"nofile", "core"} :
          Hits(p, step) = {} /\ limits[p][step] = OldLimits[step]
    BY DEF Init, Hits
  <2> QED
    BY <2>1 DEF LimitsAsAsked, LimitRight
<1> QED
  BY <1>1, <1>2, <1>3, <1>4, <1>5, <1>6 DEF GovernorInv

\* Every action preserves the invariant, part by part.
LEMMA GovernorStep == GovernorInv /\ [Next]_vars => GovernorInv'
<1> SUFFICES ASSUME GovernorInv, [Next]_vars PROVE GovernorInv'
  OBVIOUS
<1>1. /\ TypeOK /\ OrderInv /\ SameMsg /\ AppliedInv /\ ProgressInv
      /\ OutcomesRight /\ RulesRight /\ LimitsAsAsked
  BY DEF GovernorInv
<1>2. OrderInv'
  BY <1>1, OrderStep
<1>3. TypeOK' /\ SameMsg'
  BY <1>1, TypeStep, SameMsgStep
<1>4. AppliedInv' /\ ProgressInv'
  BY <1>1, AppliedStep, ProgressStep
<1>5. OutcomesRight' /\ RulesRight' /\ LimitsAsAsked'
  BY <1>1, OutcomesStep, RulesStep, LimitsStep
<1> QED
  BY <1>2, <1>3, <1>4, <1>5 DEF GovernorInv

\* The inductive invariant holds in every state of the governor, through stops
\* and starts, failures, and processes that end and whose numbers are reused.
THEOREM GovernorInductive == Spec => []GovernorInv
BY GovernorInit, GovernorStep, PTL DEF Spec

\* The queue never exceeds kQueueCapacity, apply_rules only works on a message
\* in hand, and every variable keeps its type.
THEOREM GovernorTypes == Spec => []TypeOK
<1>1. GovernorInv => TypeOK
  BY DEF GovernorInv
<1> QED
  BY <1>1, GovernorInductive, PTL

\* What stats_ and rules_ say of a message is what was done: all the steps of
\* a processed one, in the order of the code, and only some of the first of a
\* failed one; rules_ holds the last processed message of each process.
THEOREM CountsAreHonest == Spec => []CountedAsDone
<1>1. GovernorInv => CountedAsDone
  <2> SUFFICES ASSUME GovernorInv PROVE CountedAsDone
    OBVIOUS
  <2>1. DOMAIN handled = 1..Len(handled)
    BY Lengths DEF GovernorInv
  <2> QED
    BY <2>1 DEF GovernorInv, AppliedInv, OutcomesRight, RulesRight, CountedAsDone
<1> QED
  BY <1>1, GovernorInductive, PTL

\* A process has the limits that the last message applied to it asked for,
\* though it is addressed by a number that may have changed hands.
THEOREM LimitsFollowMessages == Spec => []LimitsAsAsked
<1>1. GovernorInv => LimitsAsAsked
  BY DEF GovernorInv
<1> QED
  BY <1>1, GovernorInductive, PTL
=============================================================================
