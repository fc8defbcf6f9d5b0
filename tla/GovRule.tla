------------------------------ MODULE GovRule ------------------------------
(***************************************************************************)
(* parse_gov_apply (src/governor/gov_rule.cpp): the hand-written parser of *)
(* GOV_APPLY payloads.                                                     *)
(*                                                                         *)
(* A payload is what the parser tells apart in its text: whether it is     *)
(* empty or longer than kMaxPayloadSize, whether it is wrapped in braces,  *)
(* and its members in order.  Commas are not recorded: the parser skips    *)
(* one after a value and misses none.  Text that is no key is a member     *)
(* whose key is NotAKey.  Strings hold no braces, which the search for the *)
(* end of an object would count, and no object ends in a comma.            *)
(***************************************************************************)
EXTENDS Integers, Sequences, SequencesExt

CONSTANTS
  Half32,          \* 2^31: int32_t is -Half32 .. Half32 - 1
  Half64           \* 2^63, likewise for int64_t

ASSUME WidthAssumption ==
  /\ Half32 \in Nat /\ Half64 \in Nat
  /\ 1000 < Half32 /\ Half32 < Half64

NotAKey == "not a key"

\* A member as written: its key, whether a colon follows, whether white space
\* follows the colon, and the value.
Member(key, value) ==
  [key |-> key, colon |-> TRUE, space |-> FALSE, value |-> value]

\* Values: a number of any magnitude, a quoted string, an object (closed or
\* running to the end of the payload), or anything else.
Number(n) == [type |-> "number", n |-> n]
Text(t) == [type |-> "string", t |-> t]
Object(members, closed) ==
  [type |-> "object", members |-> members, closed |-> closed]
Junk == [type |-> "junk"]

\* GovApplyMsg: the pid and the fields that are set.  An empty policy object
\* and an absent one are the same to every reader of the message.
EmptyMsg == [pid |-> 0, fields |-> <<>>]

FieldsOf ==
  [cpu  |-> {"affinity", "nice", "max_pct"},
   mem  |-> {"max_bytes"},
   pids |-> {"max"},
   rlim |-> {"nofile_soft", "nofile_hard", "core_soft", "core_hard"}]

-----------------------------------------------------------------------------
(* Numbers.                                                                *)

\* std::stoll and std::stoull throw std::out_of_range, which nothing catches.
parse_int_value(v) ==
  CASE v.type # "number" -> "fails"
    [] v.n < -Half64 \/ v.n >= Half64 -> "throws"
    [] OTHER -> "parses"

\* A minus sign is no digit.
parse_uint_value(v) ==
  CASE v.type # "number" \/ (v.type = "number" /\ v.n < 0) -> "fails"
    [] v.n >= 2 * Half64 -> "throws"
    [] OTHER -> "parses"

\* static_cast<int32_t> of an int64_t.
ToInt32(n) == ((n + Half32) % (2 * Half32)) - Half32

-----------------------------------------------------------------------------
(* One member: the answer if the parser returns here, else "ACK".          *)

Answer(outcome, n, lo, hi, failed, outside) ==
  CASE outcome = "throws" -> "throws"
    [] outcome = "fails" -> failed
    [] n < lo \/ n > hi -> outside
    [] OTHER -> "ACK"

UnsignedAnswer(v) ==
  Answer(parse_uint_value(v), v.n, 0, 2 * Half64 - 1, "NACK_PARSE_ERROR",
         "NACK_PARSE_ERROR")

\* The fields of the four policy objects.  parse_int8_value and
\* parse_uint8_value answer one bool for "no number" and "out of range".
FieldAnswer(field, v) ==
  CASE field = "affinity" ->
         IF v.type = "string" THEN "ACK" ELSE "NACK_PARSE_ERROR"
    [] field = "nice" ->
         Answer(parse_int_value(v), v.n, -128, 127, "NACK_INVALID_RANGE",
                "NACK_INVALID_RANGE")
    [] field = "max_pct" ->
         Answer(parse_uint_value(v), v.n, 0, 255, "NACK_INVALID_RANGE",
                "NACK_INVALID_RANGE")
    [] field = "max" ->
         Answer(parse_uint_value(v), v.n, 0, 2 * Half32 - 1,
                "NACK_PARSE_ERROR", "NACK_INVALID_RANGE")
    [] OTHER -> UnsignedAnswer(v)

PidAnswer(v) ==
  Answer(parse_int_value(v), v.n, 1, Half64 - 1, "NACK_PARSE_ERROR",
         "NACK_INVALID_PID")

OomAnswer(v) ==
  Answer(parse_int_value(v), v.n, -1000, 1000, "NACK_PARSE_ERROR",
         "NACK_INVALID_RANGE")

FieldValue(v) == IF v.type = "string" THEN v.t ELSE v.n

\* The state of a parse: the answer so far ("ACK" while it goes on), whether
\* a pid was seen, and the message.
Refuse(r, code) == [r EXCEPT !.ack = code]

Set(fields, field, value) ==
  [f \in DOMAIN fields \cup {field} |->
     IF f = field THEN value ELSE fields[f]]

KeyParses(m) == m.key # NotAKey /\ m.colon

\* One member of a policy object.
ParseField(known, r, m) ==
  CASE r.ack # "ACK" -> r
    [] ~KeyParses(m) -> Refuse(r, "NACK_PARSE_ERROR")
    [] m.key \notin known -> Refuse(r, "NACK_UNKNOWN_FIELD")
    [] FieldAnswer(m.key, m.value) # "ACK" ->
         Refuse(r, FieldAnswer(m.key, m.value))
    [] OTHER -> [r EXCEPT !.msg.fields = Set(@, m.key, FieldValue(m.value))]

\* An object whose brace is never closed extends to the end of the payload,
\* and remove_suffix(1) takes its last character for the brace: a number
\* loses its last digit, a string its closing quote.  With nothing after the
\* brace the suffix of an empty view is removed (undefined behaviour); what
\* is read then is the payload's own closing brace, which is no key.
ClipNumber(n) ==
  CASE n > 9 -> Number(n \div 10)
    [] n < -9 -> Number(-((-n) \div 10))
    [] OTHER -> Junk

Clip(v) == IF v.type = "number" THEN ClipNumber(v.n) ELSE Junk

Inside(o) ==
  IF o.closed THEN o.members
  ELSE IF o.members = <<>> THEN <<Member(NotAKey, Junk)>>
  ELSE [o.members EXCEPT ![Len(o.members)].value = Clip(@)]

\* Mutant: a second object of the same name adds to the first one.
ForgetGroupNot(fields, group) == fields

\* Each object is parsed into a fresh policy, which then replaces the one of
\* an earlier member with the same key.
ForgetGroup(fields, group) ==
  [f \in DOMAIN fields \ FieldsOf[group] |-> fields[f]]

\* A policy object.  The brace must follow the colon at once.
ParseObject(r, m) ==
  IF m.space \/ m.value.type # "object" THEN Refuse(r, "NACK_PARSE_ERROR")
  ELSE FoldLeft(LAMBDA q, f : ParseField(FieldsOf[m.key], q, f),
                [r EXCEPT !.msg.fields = ForgetGroup(@, m.key)],
                Inside(m.value))

\* One member of the payload.
ParseMember(r, m) ==
  CASE r.ack # "ACK" -> r
    [] ~KeyParses(m) -> Refuse(r, "NACK_PARSE_ERROR")
    [] m.key = "pid" ->
         IF PidAnswer(m.value) # "ACK" THEN Refuse(r, PidAnswer(m.value))
         ELSE [r EXCEPT !.has_pid = TRUE, !.msg.pid = ToInt32(m.value.n)]
    [] m.key \in DOMAIN FieldsOf -> ParseObject(r, m)
    [] m.key = "oom_score_adj" ->
         IF OomAnswer(m.value) # "ACK" THEN Refuse(r, OomAnswer(m.value))
         ELSE [r EXCEPT !.msg.fields = Set(@, m.key, m.value.n)]
    [] OTHER -> Refuse(r, "NACK_UNKNOWN_FIELD")

\* The whole payload.  The answer "throws" is the uncaught exception.
parse_gov_apply(payload) ==
  LET start == [ack |-> "ACK", has_pid |-> FALSE, msg |-> EmptyMsg]
      r == FoldLeft(ParseMember, start, payload.members)
  IN CASE payload.size # "fits" -> Refuse(start, "NACK_INVALID_PAYLOAD")
       [] ~payload.braces -> Refuse(start, "NACK_PARSE_ERROR")
       [] r.ack = "ACK" /\ ~r.has_pid -> Refuse(r, "NACK_INVALID_PAYLOAD")
       [] OTHER -> r

=============================================================================
