------------------------------- MODULE Daemon -------------------------------
(***************************************************************************)
(* The heidi-kerneld process (src/daemon/daemon.cpp, src/ipc/ipc.cpp):     *)
(* the main thread serves one client after the other, the monitor thread   *)
(* asks the governor twice a second, the sampling thread measures and      *)
(* writes the metrics history.                                             *)
(*                                                                         *)
(* UnixSocketServer::serve_forever is a loop without an exit: neither      *)
(* g_running nor running_ is looked at again once it is entered, so what   *)
(* follows it in Daemon::run is never reached and running_ stays true.     *)
(*                                                                         *)
(* Sections under governor_mutex_ or metrics_mutex_ are single steps.      *)
(***************************************************************************)
EXTENDS ResourceGovernor, MetricsHistory

CONSTANTS
  Clients,        \* clients, each with at most one connection at a time
  Updates,        \* bodies of governor/policy_update: fields with new values
  Measurements    \* SystemMetrics the sampler may measure

Metrics == [cpu : Nat, total : Nat, free : Nat]

\* Before the first sample.
NoMetrics == [cpu |-> 0, total |-> 0, free |-> 0]

\* Mutant: the fields the body does not name fall back to their defaults.
MergedFresh(old, update) ==
  [f \in DOMAIN old |->
     IF f \in DOMAIN update THEN update[f] ELSE DefaultPolicy[f]]

\* update_policy's new_policy: a copy of the policy in which the fields named
\* in the body are replaced.  Names it does not know are ignored.
Merged(old, update) ==
  [f \in DOMAIN old |-> IF f \in DOMAIN update THEN update[f] ELSE old[f]]

ASSUME DaemonAssumption ==
  /\ \A u \in Updates : Merged(DefaultPolicy, u) \in GovernorPolicy
  /\ Measurements \subseteq {m \in Metrics : m.total > 0}

\* What a client may send: nothing, a command that only reads, an update, or
\* an update with a value that is no number.
Request(k, u) == [kind |-> k, body |-> u]
NoFields == << >>
Silence == Request("silence", NoFields)
Requests == {Silence, Request("query", NoFields), Request("malformed", NoFields)}
              \cup {Request("update", u) : u \in Updates}

VARIABLES
  alive,          \* "up", or how the process ended
  policy,         \* the policy of governor_
  main,           \* the main thread: "accept", "read" or "update"
  serving,        \* the client whose connection it holds
  new_policy,     \* update_policy: new_policy
  conn,           \* conn[c]: "none", "waiting" (in the backlog) or "served"
  request,        \* what the client being served sends
  hung,           \* hung[c]: client c has closed its end
  latest_metrics, \* latest_metrics_
  monitor,        \* the monitor thread: "poll" or "tick"
  metrics,        \* handle_monitor_tick: metrics
  diagnostics,    \* last_tick_diagnostics_ (decision, reason, retry_after)
  running_jobs, queued_jobs     \* running_jobs_, queued_jobs_

mainVars == <<main, serving, new_policy>>
monitorVars == <<monitor, metrics, diagnostics, running_jobs, queued_jobs>>
memoryVars == <<policy, mainVars, latest_metrics, monitorVars>>
connVars == <<conn, request, hung>>
vars == <<alive, memoryVars, connVars, historyVars>>

NoClient == "no client"

TypeOK ==
  /\ alive \in {"up", "crashed", "SIGPIPE", "exception"}
  /\ policy \in GovernorPolicy /\ new_policy \in GovernorPolicy
  /\ main \in {"accept", "read", "update"}
  /\ serving \in Clients \cup {NoClient}
  /\ main # "accept" => serving \in Clients
  /\ conn \in [Clients -> {"none", "waiting", "served"}]
  /\ request \in Requests /\ hung \in [Clients -> BOOLEAN]
  /\ latest_metrics \in Metrics /\ metrics \in Metrics
  /\ monitor \in {"poll", "tick"}
  /\ diagnostics \in [decision : GovernorDecision, reason : BlockReason,
                      retry_after_ms : Nat]
  /\ running_jobs \in Nat /\ queued_jobs \in Nat
  /\ HistoryTypeOK

\* The objects as constructed, and no connection.  Nothing ever adds to
\* queued_jobs_.
Fresh ==
  /\ policy = DefaultPolicy /\ new_policy = DefaultPolicy
  /\ main = "accept" /\ serving = NoClient
  /\ latest_metrics = NoMetrics /\ monitor = "poll" /\ metrics = NoMetrics
  /\ diagnostics = Result("START_NOW", "NONE", 0)
  /\ running_jobs = 0 /\ queued_jobs = 0
  /\ conn = [c \in Clients |-> "none"]
  /\ request = Silence
  /\ hung = [c \in Clients |-> FALSE]

Init == alive = "up" /\ Fresh /\ HistoryInit

\* The process ends.  All but the files is lost.
End(how) ==
  /\ alive' = how
  /\ policy' = DefaultPolicy /\ new_policy' = DefaultPolicy
  /\ main' = "accept" /\ serving' = NoClient
  /\ latest_metrics' = NoMetrics /\ monitor' = "poll" /\ metrics' = NoMetrics
  /\ diagnostics' = Result("START_NOW", "NONE", 0)
  /\ running_jobs' = 0 /\ queued_jobs' = 0
  /\ conn' = [c \in Clients |-> "none"]
  /\ request' = Silence
  /\ hung' = [c \in Clients |-> FALSE]
  /\ HistoryCrash

-----------------------------------------------------------------------------
(* The main thread: serve_forever and handle_client.                       *)

Accept(c) ==
  /\ main = "accept" /\ conn[c] = "waiting"
  /\ conn' = [conn EXCEPT ![c] = "served"]
  /\ main' = "read" /\ serving' = c /\ request' \in Requests
  /\ UNCHANGED <<alive, policy, new_policy, latest_metrics, monitorVars,
                 hung, historyVars>>

\* close(client_fd), and back to accept.
CloseClient ==
  /\ conn' = [conn EXCEPT ![serving] = "none"]
  /\ request' = Silence
  /\ hung' = [hung EXCEPT ![serving] = FALSE]
  /\ main' = "accept" /\ serving' = NoClient

\* Mutant: an end of file is taken for "nothing yet" and read again.
ReadNothingAgain ==
  /\ main = "read" /\ request = Silence /\ hung[serving]
  /\ UNCHANGED vars

\* read has no timeout: a client that sends nothing is waited for until it
\* hangs up.
ReadNothing ==
  /\ main = "read" /\ request = Silence /\ hung[serving]
  /\ CloseClient
  /\ UNCHANGED <<alive, policy, new_policy, latest_metrics, monitorVars,
                 historyVars>>

\* ping, status, governor/policy, governor/diagnostics, anything unknown.
Query ==
  /\ main = "read" /\ request.kind = "query" /\ ~hung[serving]
  /\ CloseClient
  /\ UNCHANGED <<alive, policy, new_policy, latest_metrics, monitorVars,
                 historyVars>>

\* update_policy: the current policy is copied, without governor_mutex_, and
\* the body parsed into the copy ...
UpdateParse ==
  /\ main = "read" /\ request.kind = "update"
  /\ new_policy' = Merged(policy, request.body)
  /\ main' = "update"
  /\ UNCHANGED <<alive, policy, serving, latest_metrics, monitorVars, connVars,
                 historyVars>>

\* ... unless stoi, stod or stoull throws.  Nothing catches it before the
\* Daemon is destroyed with its threads joinable: std::terminate.
UpdateThrow ==
  /\ main = "read" /\ request.kind = "malformed"
  /\ End("exception")

\* ... then the copy is validated and takes effect under governor_mutex_.
UpdateApply ==
  /\ main = "update" /\ ~hung[serving]
  /\ policy' = validate_and_update(policy, new_policy).effective_policy
  /\ CloseClient
  /\ new_policy' = DefaultPolicy            \* the local goes out of scope
  /\ UNCHANGED <<alive, latest_metrics, monitorVars, historyVars>>

\* The answer of either is written to a client that has hung up: SIGPIPE,
\* which nothing handles.
WriteFails ==
  /\ \/ main = "read" /\ request.kind = "query"
     \/ main = "update"
  /\ hung[serving]
  /\ End("SIGPIPE")

-----------------------------------------------------------------------------
(* The monitor thread.                                                     *)

\* (total - free) * 100.0 / total: 0.0 / 0 before the first sample.
UsedPct(m) == IF m.total = 0 THEN NaN
              ELSE ((m.total - m.free) * 100) \div m.total

Least(m, n) == IF m <= n THEN m ELSE n

\* handle_monitor_tick copies the latest metrics ...
MonitorWake ==
  /\ monitor = "poll" /\ monitor' = "tick"
  /\ metrics' = latest_metrics
  /\ UNCHANGED <<alive, policy, mainVars, latest_metrics, diagnostics,
                 running_jobs, queued_jobs, connVars, historyVars>>

\* ... and does the rest under governor_mutex_.  check_job_limits finds no
\* job: nothing submits one to this JobRunner.
MonitorTick ==
  /\ monitor = "tick" /\ monitor' = "poll"
  /\ LET result == decide(policy, metrics.cpu, UsedPct(metrics), running_jobs,
                          queued_jobs)
         to_start == IF result.decision = "START_NOW" /\ queued_jobs > 0
                       THEN Least(5, Least(queued_jobs,
                              policy.max_running_jobs - running_jobs))
                       ELSE 0
     IN /\ diagnostics' = result
        /\ queued_jobs' = queued_jobs - to_start
        /\ running_jobs' = running_jobs + to_start
  /\ metrics' = NoMetrics                   \* the local goes out of scope
  /\ UNCHANGED <<alive, policy, mainVars, latest_metrics, connVars, historyVars>>

-----------------------------------------------------------------------------
(* The sampling thread.                                                    *)

\* A new sample becomes the latest one; appending it follows.
Sample ==
  /\ AppendBegin
  /\ latest_metrics' \in Measurements
  /\ UNCHANGED <<alive, policy, mainVars, monitorVars, connVars>>

AppendSample ==
  /\ RemoveOldest \/ Shift \/ Shifted \/ Write
  /\ UNCHANGED <<alive, memoryVars, connVars>>

-----------------------------------------------------------------------------
(* The clients, and the end of the process.                                *)

Connect(c) ==
  /\ conn[c] = "none"
  /\ conn' = [conn EXCEPT ![c] = "waiting"]
  /\ UNCHANGED <<alive, memoryVars, request, hung, historyVars>>

HangUp(c) ==
  /\ conn[c] # "none" /\ ~hung[c]
  /\ hung' = [hung EXCEPT ![c] = TRUE]
  /\ UNCHANGED <<alive, memoryVars, conn, request, historyVars>>

\* SIGKILL, or a failed rename in rotate_files, which throws.  The machine
\* itself stays up: what append wrote and never synced is not lost.
Crash == End("crashed")

\* Whatever ended the process, it is started again.
Restart ==
  /\ alive # "up" /\ alive' = "up"
  /\ UNCHANGED <<memoryVars, connVars, historyVars>>

-----------------------------------------------------------------------------
Serve == \/ \E c \in Clients : Accept(c)
         \/ ReadNothing \/ Query \/ UpdateParse \/ UpdateThrow \/ UpdateApply
         \/ WriteFails

Next ==
  \/ /\ alive = "up"
     /\ \/ Serve \/ MonitorWake \/ MonitorTick \/ Sample \/ AppendSample
        \/ \E c \in Clients : Connect(c) \/ HangUp(c)
        \/ Crash
  \/ Restart

Spec == Init /\ [][Next]_vars

\* The main thread runs, and the backlog is a queue: a client in it is not
\* passed over for ever.  Nothing is assumed of the clients.
LiveSpec ==
  /\ Spec
  /\ WF_vars(alive = "up" /\ Serve)
  /\ \A c \in Clients : SF_vars(alive = "up" /\ Accept(c))

-----------------------------------------------------------------------------
\* Whatever updates arrive, in whatever order and however much of the policy
\* each leaves as it was, the governor keeps a policy that can protect the
\* machine: a bounded number of jobs, and no start when the processor or the
\* memory is fully used.  A watermark that is NaN would never hold anything.
PolicyProtects ==
  /\ policy.max_running_jobs \in 1..1000
  /\ decide(policy, 100, 0, 0, 0).decision # "START_NOW"
  /\ decide(policy, 0, 100, 0, 0).decision # "START_NOW"

\* An update is all or nothing and touches only the fields it names, starting
\* from the policy in effect when it is applied, not from an older one or
\* from the defaults.
UpdateAtomic ==
  [][policy' # policy /\ alive' = "up" /\ alive = "up" =>
       /\ request.kind = "update"
       /\ \A f \in DOMAIN policy :
            policy'[f] = IF f \in DOMAIN request.body
                           THEN request.body[f] ELSE policy[f]]_vars

\* A client's wait is over: it is served, or gives up, or the process ends.
WaitOver(c) == conn[c] # "waiting" \/ hung[c] \/ alive # "up"

\* The main thread is in read for a client that sends nothing and stays.
Silenced == main = "read" /\ request = Silence /\ ~hung[serving]

\* Nothing but one client that stays silent for ever can keep another one
\* waiting for ever: no request, no update, good or bad, no client that hangs
\* up and no number of clients before it.
OnlySilenceBlocks ==
  \A c \in Clients :
    [](conn[c] = "waiting" => <>WaitOver(c) \/ <>[]Silenced)

\* docs/ARCHITECTURE.md:63, "Blocking I/O with timeouts": every client that
\* waits is served in the end.  read has no timeout, and TLC refutes this
\* (Finding_silent_client.cfg; see README.md, Findings).
ClientServed == \A c \in Clients : conn[c] = "waiting" ~> WaitOver(c)
=============================================================================
