----------------------------- MODULE EventLoop -----------------------------
(***************************************************************************)
(* EventLoop (src/event_loop.cpp): one worker thread that calls the tick   *)
(* callback whenever tick_interval_ has passed and sleeps at most 10 ms in *)
(* between.  request_stop sets the flag without holding mutex_, so its     *)
(* notify may come between the worker's test and its sleep: the 10 ms      *)
(* bound, not the notify, is what ends the sleep then.                     *)
(***************************************************************************)
VARIABLES
  running,          \* running_
  stop_requested,   \* stop_requested_
  worker            \* worker_: "none", "test", "sleep" or "done"

vars == <<running, stop_requested, worker>>

TypeOK ==
  /\ running \in BOOLEAN /\ stop_requested \in BOOLEAN
  /\ worker \in {"none", "test", "sleep", "done"}

Init == running = FALSE /\ stop_requested = FALSE /\ worker = "none"

\* A second call returns at once.
run ==
  /\ running' = TRUE
  /\ worker' = IF running THEN worker ELSE "test"
  /\ UNCHANGED stop_requested

request_stop == stop_requested' = TRUE /\ UNCHANGED <<running, worker>>

\* Mutant: running_ stays set when the worker ends.
LoopEndsRunning == worker' = "done" /\ UNCHANGED running

LoopEnds == worker' = "done" /\ running' = FALSE

\* The loop's test; a tick (its callback keeps no state worth modelling) is
\* part of the way from here to the sleep.
Test ==
  /\ worker = "test"
  /\ IF stop_requested
       THEN LoopEnds
       ELSE worker' = "sleep" /\ UNCHANGED running
  /\ UNCHANGED stop_requested

\* wait_for returns: notified with the flag set, or after 10 ms.
Wake ==
  /\ worker = "sleep"
  /\ worker' = "test"
  /\ UNCHANGED <<running, stop_requested>>
=============================================================================
