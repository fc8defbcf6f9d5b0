---------------------------- MODULE StatusSocket ----------------------------
(***************************************************************************)
(* StatusSocket (src/kernel/status.cpp): the server thread that answers    *)
(* requests and keeps the list of subscribers, and publish_event, which    *)
(* other threads call to send an event to every subscriber.                *)
(*                                                                         *)
(* subscribers_mutex_ protects the list, but the set of descriptors that   *)
(* select watches is built under it and used after it is released.  The    *)
(* descriptor numbers are the kernel's: a number that is closed is given   *)
(* to the next accepted connection.                                        *)
(*                                                                         *)
(* An event is named by the position at which it was pushed into           *)
(* ring_buffer_.                                                           *)
(***************************************************************************)
EXTENDS RingBuffer, FiniteSets

CONSTANTS
  Clients,          \* connections clients may make
  Publishers,       \* threads that call publish_event
  Fds,              \* descriptor numbers the process may hold: 1..n
  Replayed,         \* events replayed to a new subscriber (100)
  MaxEvents         \* bound: events published

ASSUME StatusAssumption ==
  /\ IsFiniteSet(Fds) /\ Fds \subseteq Nat \ {0}
  /\ Replayed \in Nat /\ MaxEvents \in Nat
  /\ Publishers \cap {"free", "server"} = {}

VARIABLES
  ring,             \* ring_buffer_
  pushed,           \* events pushed so far
  subscribers,      \* subscribers_
  lock,             \* holder of subscribers_mutex_, or "free"
  stop_requested,   \* stop_requested_
  bound,            \* server_fd_ >= 0: bind succeeded
  spc,              \* where the server thread is
  watch,            \* server: descriptors in the set given to select
  ready,            \* server: descriptors select reported
  it,               \* server: index in subscribers_ the sweep has reached
  serving,          \* server: the connection handle_client was given
  replay,           \* server: the events handle_client replays
  ppc,              \* ppc[p]: where publisher p is
  event,            \* event[p]: the event p publishes
  next,             \* next[p]: index in subscribers_ p has reached
  conn,             \* a client's connection, as the process sees it
  fd,               \* its descriptor number in the process, 0 if none
  request,          \* what the client sent
  hung,             \* the client closed its end
  data,             \* a subscriber sent bytes that were not read yet
  stalled,          \* a subscriber does not read: its socket buffer is full
  answered,         \* the client was sent a response
  received,         \* events sent to the client, in order
  since,            \* history: events pushed before the client's replay starts
  killed            \* the process died of SIGPIPE

serverVars == <<spc, watch, ready, it, serving, replay>>
publisherVars == <<ppc, event, next>>
clientVars == <<request, hung, data, stalled>>
sentVars == <<answered, received, since>>
vars == <<ring, pushed, subscribers, lock, stop_requested, bound, serverVars,
          publisherVars, conn, fd, clientVars, sentVars, killed>>

NoClient == "no client"
Requests == {"none", "SUBSCRIBE", "command", "blank"}
Events == 1..MaxEvents
Subscribed == {subscribers[i] : i \in DOMAIN subscribers}

TypeOK ==
  /\ ring \in Ring(0..MaxEvents) /\ pushed \in 0..MaxEvents
  /\ subscribers \in Seq(Fds)
  /\ lock \in {"free", "server"} \cup Publishers
  /\ stop_requested \in BOOLEAN /\ bound \in BOOLEAN /\ killed \in BOOLEAN
  /\ spc \in {"top", "select", "accept", "handle", "replay", "sweep", "poll",
             "ended"}
  /\ it \in Nat
  /\ watch \subseteq Fds /\ ready \subseteq Fds
  /\ serving \in Clients \cup {NoClient}
  /\ spc \in {"handle", "replay"} => serving \in Clients
  /\ replay \in Seq(Events)
  /\ ppc \in [Publishers -> {"idle", "lock", "send"}]
  /\ event \in [Publishers -> 0..MaxEvents]
  /\ next \in [Publishers -> Nat]
  /\ conn \in [Clients -> {"none", "backlog", "open", "closed"}]
  /\ fd \in [Clients -> Fds \cup {0}]
  /\ request \in [Clients -> Requests]
  /\ hung \in [Clients -> BOOLEAN] /\ data \in [Clients -> BOOLEAN]
  /\ stalled \in [Clients -> BOOLEAN] /\ answered \in [Clients -> BOOLEAN]
  /\ received \in [Clients -> Seq(Events)]
  /\ since \in [Clients -> 0..MaxEvents]

\* After bind.  A socket that could not be bound makes serve_forever return.
Init ==
  /\ ring = EmptyRing(0) /\ pushed = 0
  /\ subscribers = <<>> /\ lock = "free"
  /\ stop_requested = FALSE /\ killed = FALSE
  /\ bound \in BOOLEAN /\ spc = IF bound THEN "top" ELSE "ended"
  /\ watch = {} /\ ready = {} /\ it = 0 /\ serving = NoClient /\ replay = <<>>
  /\ ppc = [p \in Publishers |-> "idle"]
  /\ event = [p \in Publishers |-> 0] /\ next = [p \in Publishers |-> 0]
  /\ conn = [c \in Clients |-> "none"] /\ fd = [c \in Clients |-> 0]
  /\ request = [c \in Clients |-> "none"]
  /\ hung = [c \in Clients |-> FALSE] /\ data = [c \in Clients |-> FALSE]
  /\ stalled = [c \in Clients |-> FALSE]
  /\ answered = [c \in Clients |-> FALSE]
  /\ received = [c \in Clients |-> <<>>] /\ since = [c \in Clients |-> 0]

-----------------------------------------------------------------------------
(* Descriptors.                                                            *)

Backlog == {c \in Clients : conn[c] = "backlog"}
Open == {c \in Clients : conn[c] = "open"}
FreeFds == Fds \ {fd[c] : c \in Open}

\* The connection behind an open descriptor number.
Owner(n) == CHOOSE c \in Open : fd[c] = n

Reset(f, cs, value) == [c \in Clients |-> IF c \in cs THEN value ELSE f[c]]

\* ::close on the descriptors of the connections in cs.  What their clients
\* do from then on is of no consequence, and forgotten.
Close(cs) ==
  /\ conn' = Reset(conn, cs, "closed")
  /\ fd' = Reset(fd, cs, 0)
  /\ hung' = Reset(hung, cs, FALSE)
  /\ data' = Reset(data, cs, FALSE)
  /\ stalled' = Reset(stalled, cs, FALSE)
  /\ received' = Reset(received, cs, <<>>)
  /\ since' = Reset(since, cs, 0)

\* Mutant: the descriptor is closed but stays in the list.
ErasedKept(i) == subscribers

\* What subscribers_.erase leaves.
Erased(i) == SubSeq(subscribers, 1, i - 1)
               \o SubSeq(subscribers, i + 1, Len(subscribers))

-----------------------------------------------------------------------------
(* serve_forever.                                                          *)

\* The loop's test, and the set for select, built under the mutex.
BuildSet ==
  /\ spc = "top"
  /\ IF stop_requested
       THEN spc' = "ended" /\ UNCHANGED watch
       ELSE lock = "free" /\ spc' = "select" /\ watch' = Subscribed
  /\ UNCHANGED <<ring, pushed, subscribers, lock, stop_requested, bound, ready,
                 it, serving, replay, publisherVars, conn, fd, clientVars,
                 sentVars, killed>>

\* select.  A watched number that is no longer open is EBADF, and ends the
\* loop; a timeout or EINTR, with nothing to report, starts the next round.
Select ==
  /\ spc = "select"
  /\ \/ /\ watch \cap FreeFds # {}
        /\ spc' = "ended" /\ UNCHANGED ready
     \/ /\ watch \cap FreeFds = {}
        /\ ready' = {n \in watch : hung[Owner(n)] \/ data[Owner(n)]}
        /\ spc' = IF Backlog # {} THEN "accept"
                  ELSE IF ready' # {} THEN "sweep" ELSE "top"
  /\ watch' = {}
  /\ UNCHANGED <<ring, pushed, subscribers, lock, stop_requested, bound, it,
                 serving, replay, publisherVars, conn, fd, clientVars,
                 sentVars, killed>>

\* accept gives the lowest free number; with none left it fails, and the
\* connection waits on.
Accept ==
  /\ spc = "accept"
  /\ \/ /\ FreeFds # {}
        /\ \E c \in Backlog :
             /\ serving' = c
             /\ conn' = [conn EXCEPT ![c] = "open"]
             /\ fd' = [fd EXCEPT ![c] = CHOOSE n \in FreeFds :
                                          \A m \in FreeFds : n <= m]
        /\ spc' = "handle"
     \/ /\ FreeFds = {}
        /\ spc' = "sweep" /\ UNCHANGED <<serving, conn, fd>>
  /\ UNCHANGED <<ring, pushed, subscribers, lock, stop_requested, bound, watch,
                 ready, it, replay, publisherVars, clientVars, sentVars,
                 killed>>

\* After accept, or at once: the pass over subscribers_, under the mutex.
Sweep ==
  /\ spc = "sweep" /\ lock = "free"
  /\ lock' = "server" /\ it' = 1
  /\ spc' = "poll"
  /\ UNCHANGED <<ring, pushed, subscribers, stop_requested, bound, watch,
                 ready, serving, replay, publisherVars, conn, fd, clientVars,
                 sentVars, killed>>

\* A reported subscriber is read without blocking; end of file, and "nothing
\* to read" as well, drops it.
Poll ==
  /\ spc = "poll" /\ it <= Len(subscribers)
  /\ LET n == subscribers[it]
         c == Owner(n)
     IN \/ /\ n \in ready /\ ~data[c]
           /\ Close({c}) /\ subscribers' = Erased(it)
           /\ UNCHANGED it
        \/ /\ n \in ready => data[c]
           /\ data' = [data EXCEPT ![c] = @ /\ n \notin ready]
           /\ it' = it + 1
           /\ UNCHANGED <<subscribers, conn, fd, hung, stalled, received,
                          since>>
  /\ UNCHANGED <<ring, pushed, lock, stop_requested, bound, spc, watch, ready,
                 serving, replay, publisherVars, request, answered, killed>>

SweepEnds ==
  /\ spc = "poll" /\ it > Len(subscribers)
  /\ lock' = "free" /\ it' = 0
  /\ spc' = "top" /\ ready' = {}
  /\ UNCHANGED <<ring, pushed, subscribers, stop_requested, bound, watch,
                 serving, replay, publisherVars, conn, fd, clientVars,
                 sentVars, killed>>

-----------------------------------------------------------------------------
(* handle_client.                                                          *)

\* Nothing arrives within half a second, or the client has hung up.
HandleNothing ==
  /\ spc = "handle" /\ request[serving] = "none"
  /\ Close({serving})
  /\ spc' = "sweep" /\ serving' = NoClient
  /\ UNCHANGED <<ring, pushed, subscribers, lock, stop_requested, bound, watch,
                 ready, it, replay, publisherVars, request, answered, killed>>

\* ping, version, status and unknown commands get a response; a blank line
\* gets none.  The descriptor is not closed.  Writing to a client that has
\* hung up raises SIGPIPE, which nothing handles.
HandleCommand ==
  /\ spc = "handle" /\ request[serving] \in {"command", "blank"}
  /\ IF request[serving] = "command"
       THEN /\ killed' = hung[serving]
            /\ answered' = [answered EXCEPT ![serving] = ~hung[serving]]
       ELSE UNCHANGED <<killed, answered>>
  /\ spc' = "sweep" /\ serving' = NoClient
  /\ UNCHANGED <<ring, pushed, subscribers, lock, stop_requested, bound, watch,
                 ready, it, replay, publisherVars, conn, fd, clientVars,
                 received, since>>

\* SUBSCRIBE: the descriptor joins the list and the replay is fetched, all
\* under the mutex ...
HandleSubscribe ==
  /\ spc = "handle" /\ request[serving] = "SUBSCRIBE"
  /\ lock = "free" /\ lock' = "server"
  /\ subscribers' = Append(subscribers, fd[serving])
  /\ replay' = last_n(ring, Replayed)
  /\ since' = [since EXCEPT ![serving] =
                 pushed - Smaller(pushed, Smaller(Replayed, Capacity))]
  /\ spc' = "replay"
  /\ UNCHANGED <<ring, pushed, stop_requested, bound, watch, ready, it,
                 serving, publisherVars, conn, fd, clientVars, answered, received,
                 killed>>

\* ... which is held until the replay is sent.  Send errors are ignored.
SendReplay ==
  /\ spc = "replay"
  /\ stalled[serving] => hung[serving] \/ replay = <<>>
  /\ received' = IF hung[serving] THEN received
                   ELSE [received EXCEPT ![serving] = @ \o replay]
  /\ replay' = <<>> /\ lock' = "free"
  /\ spc' = "sweep" /\ serving' = NoClient
  /\ UNCHANGED <<ring, pushed, subscribers, stop_requested, bound, watch,
                 ready, it, publisherVars, conn, fd, clientVars, answered,
                 since, killed>>

-----------------------------------------------------------------------------
(* publish_event.                                                          *)

\* Mutant: the event is kept out of the ring buffer until it has been sent.
RingAfterPushLate(e) == ring

RingAfterPush(e) == push(ring, e)

Push(p) ==
  /\ ppc[p] = "idle" /\ pushed < MaxEvents
  /\ pushed' = pushed + 1
  /\ ring' = RingAfterPush(pushed + 1)
  /\ event' = [event EXCEPT ![p] = pushed + 1]
  /\ ppc' = [ppc EXCEPT ![p] = "lock"]
  /\ UNCHANGED <<subscribers, lock, stop_requested, bound, serverVars, next,
                 conn, fd, clientVars, sentVars, killed>>

LockList(p) ==
  /\ ppc[p] = "lock" /\ lock = "free"
  /\ lock' = p
  /\ next' = [next EXCEPT ![p] = 1]
  /\ ppc' = [ppc EXCEPT ![p] = "send"]
  /\ UNCHANGED <<ring, pushed, subscribers, stop_requested, bound, serverVars,
                 event, conn, fd, clientVars, sentVars, killed>>

\* One blocking send.  A client that has hung up is dropped.
Send(p) ==
  /\ ppc[p] = "send" /\ next[p] <= Len(subscribers)
  /\ LET c == Owner(subscribers[next[p]]) IN
       \/ /\ hung[c]
          /\ Close({c}) /\ subscribers' = Erased(next[p])
          /\ UNCHANGED next
       \/ /\ ~hung[c] /\ ~stalled[c]
          /\ received' = [received EXCEPT ![c] = Append(@, event[p])]
          /\ next' = [next EXCEPT ![p] = @ + 1]
          /\ UNCHANGED <<conn, fd, subscribers, hung, data, stalled, since>>
  /\ UNCHANGED <<ring, pushed, lock, stop_requested, bound, serverVars, ppc,
                 event, request, answered, killed>>

Published(p) ==
  /\ ppc[p] = "send" /\ next[p] > Len(subscribers)
  /\ lock' = "free"
  /\ ppc' = [ppc EXCEPT ![p] = "idle"]
  /\ event' = [event EXCEPT ![p] = 0] /\ next' = [next EXCEPT ![p] = 0]
  /\ UNCHANGED <<ring, pushed, subscribers, stop_requested, bound, serverVars,
                 conn, fd, clientVars, sentVars, killed>>

-----------------------------------------------------------------------------
(* The owner of the object, and the clients.                               *)

set_stop ==
  /\ stop_requested' = TRUE
  /\ UNCHANGED <<ring, pushed, subscribers, lock, bound, serverVars,
                 publisherVars, conn, fd, clientVars, sentVars, killed>>

clientUnchanged == <<ring, pushed, subscribers, lock, stop_requested, bound,
                     serverVars, publisherVars, fd, sentVars, killed>>

Connect(c) ==
  /\ bound /\ conn[c] = "none"
  /\ conn' = [conn EXCEPT ![c] = "backlog"]
  /\ \E r \in Requests : request' = [request EXCEPT ![c] = r]
  /\ UNCHANGED <<clientUnchanged, hung, data, stalled>>

HangUp(c) ==
  /\ conn[c] \in {"backlog", "open"} /\ ~hung[c]
  /\ hung' = [hung EXCEPT ![c] = TRUE]
  /\ UNCHANGED <<clientUnchanged, conn, request, data, stalled>>

\* A subscriber writes to the socket, stops reading, reads on.
Chatter(c) ==
  /\ conn[c] = "open" /\ request[c] = "SUBSCRIBE" /\ ~hung[c] /\ ~data[c]
  /\ data' = [data EXCEPT ![c] = TRUE]
  /\ UNCHANGED <<clientUnchanged, conn, request, hung, stalled>>

Stall(c) ==
  /\ conn[c] = "open" /\ request[c] = "SUBSCRIBE" /\ ~stalled[c]
  /\ stalled' = [stalled EXCEPT ![c] = TRUE]
  /\ UNCHANGED <<clientUnchanged, conn, request, hung, data>>

Resume(c) ==
  /\ stalled[c]
  /\ stalled' = [stalled EXCEPT ![c] = FALSE]
  /\ UNCHANGED <<clientUnchanged, conn, request, hung, data>>

-----------------------------------------------------------------------------
Server == \/ BuildSet \/ Select \/ Accept \/ Sweep \/ Poll \/ SweepEnds
          \/ HandleNothing \/ HandleCommand \/ HandleSubscribe \/ SendReplay
Publish(p) == Push(p) \/ LockList(p) \/ Send(p) \/ Published(p)
Client(c) == \/ Connect(c) \/ HangUp(c) \/ Chatter(c)
             \/ Stall(c) \/ Resume(c)

Next == \/ Server \/ set_stop
        \/ \E p \in Publishers : Publish(p)
        \/ \E c \in Clients : Client(c)

Spec == Init /\ [][~killed /\ Next]_vars

-----------------------------------------------------------------------------
(* Safety.                                                                 *)

\* ring_buffer_ holds the latest events: what last_n returns is the tail of
\* everything pushed, in order, whichever publishers pushed it and however
\* often the indices have wrapped.
RingHoldsLatest ==
  \A n \in 0..(Capacity + 1) :
    LET k == Smaller(n, Smaller(pushed, Capacity))
    IN  last_n(ring, n) = [i \in 1..k |-> pushed - k + i]

\* Every number in subscribers_ is open, listed once, and belongs to a
\* connection that asked for SUBSCRIBE: closing and erasing never come apart,
\* though two threads do both and numbers are reused.
SubscribersLive ==
  /\ \A n \in Subscribed :
       \E c \in Open : fd[c] = n /\ request[c] = "SUBSCRIBE"
  /\ \A i, k \in DOMAIN subscribers : subscribers[i] = subscribers[k] => i = k

\* p will still send its event to subscriber c.
Owes(p, c) ==
  \/ ppc[p] = "lock"
  \/ ppc[p] = "send" /\ \E i \in DOMAIN subscribers :
                          i >= next[p] /\ subscribers[i] = fd[c]

\* No subscriber misses an event between its replay and the live stream:
\* what was pushed since its replay began was sent to it, or its publisher
\* has not come to it yet.
NoEventMissed ==
  \A c \in Open :
    fd[c] \in Subscribed /\ ~hung[c] /\ ~(spc = "replay" /\ serving = c) =>
      \A e \in (since[c] + 1)..pushed :
        \/ \E i \in DOMAIN received[c] : received[c][i] = e
        \/ \E p \in Publishers : event[p] = e /\ Owes(p, c)
=============================================================================
