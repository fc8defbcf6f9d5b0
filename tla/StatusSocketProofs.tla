------------------------- MODULE StatusSocketProofs -------------------------
(***************************************************************************)
(* StatusSocket for every number of clients, publishers, descriptors and   *)
(* events, and the heidi-kernel process that runs it.                      *)
(***************************************************************************)
EXTENDS KernelMain, SequenceTheorems, WellFoundedInduction, TLAPS

\* The slot j pushes back from the write index.
Back(h, j) == IF j <= h THEN h - j ELSE h + Capacity - j

\* The indices and the flag agree with the number of pushes, and the slots
\* hold the latest events.
RingInv ==
  /\ ring.full <=> pushed >= Capacity
  /\ ring.tail = IF ring.full THEN ring.head ELSE 0
  /\ ~ring.full => ring.head = pushed
  /\ \A j \in 1..Capacity :
       j <= pushed => ring.buffer[Back(ring.head, j)] = pushed - j + 1

\* The mutex is held while a publisher sends, while the replay is sent and
\* during the sweep, and at no other time.
LockInv ==
  /\ \A p \in Publishers : lock = p <=> ppc[p] = "send"
  /\ lock = "server" <=> spc \in {"replay", "poll"}

\* A connection has a number while it is open, and no other has that number.
FdInv ==
  /\ \A c \in Clients : conn[c] = "open" <=> fd[c] # 0
  /\ \A c, d \in Open : fd[c] = fd[d] => c = d

\* The connection in handle_client is open, and not in the list before
\* SUBSCRIBE.
ServingInv ==
  /\ spc \in {"handle", "replay"} => serving \in Open
  /\ spc = "handle" => fd[serving] \notin Subscribed

\* The iterators are valid, and a publisher under way has an event.
PassInv ==
  /\ \A p \in Publishers : ppc[p] # "idle" => event[p] # 0
  /\ \A p \in Publishers : ppc[p] = "send" => next[p] >= 1
  /\ spc = "poll" => it >= 1

\* Event e has come to subscriber c, or is bound to: it is in the replay about
\* to be sent, it was sent, or its publisher has c before it.
Reaches(c, e) ==
  \/ spc = "replay" /\ serving = c /\ \E i \in DOMAIN replay : replay[i] = e
  \/ \E i \in DOMAIN received[c] : received[c][i] = e
  \/ \E p \in Publishers : event[p] = e /\ Owes(p, c)

StreamInv ==
  \A c \in Open :
    fd[c] \in Subscribed /\ ~hung[c] =>
      \A e \in (since[c] + 1)..pushed : Reaches(c, e)

SocketInv == /\ TypeOK /\ RingInv /\ LockInv /\ FdInv /\ ServingInv
             /\ PassInv /\ SubscribersLive /\ StreamInv

-----------------------------------------------------------------------------
(* The ring buffer.                                                        *)

\* The remainder of a number that is too large by less than one turn.
LEMMA OneTurn ==
  ASSUME NEW n \in Nat \ {0}, NEW x \in Nat, x < n + n
  PROVE  x % n = IF x < n THEN x ELSE x - n
<1> DEFINE q == x \div n
<1> DEFINE m == x % n
<1>1. q \in Int /\ m \in Int /\ x = n * q + m /\ 0 <= m /\ m < n
  OBVIOUS
<1> HIDE DEF q, m
<1>2. q >= 0
  <2> SUFFICES ASSUME q <= -1 PROVE FALSE
    BY <1>1
  <2>1. n * q <= -n
    BY <1>1
  <2> QED
    BY <1>1, <2>1
<1>3. q <= 1
  <2> SUFFICES ASSUME q >= 2 PROVE FALSE
    BY <1>1
  <2>1. n * q >= n + n
    BY <1>1
  <2> QED
    BY <1>1, <2>1
<1>4. q = 0 \/ q = 1
  BY <1>1, <1>2, <1>3
<1>5. n * 0 = 0 /\ n * 1 = n
  OBVIOUS
<1>6. m = IF x < n THEN x ELSE x - n
  BY <1>1, <1>4, <1>5
<1> QED
  BY <1>6 DEF m

\* size is the number of pushes, up to the capacity.
LEMMA RingSize ==
  ASSUME TypeOK, RingInv
  PROVE  size(ring) = Smaller(pushed, Capacity)
<1>1. /\ ring.head \in 0..(Capacity - 1) /\ pushed \in Nat /\ Capacity \in Nat
      /\ ring.full \in BOOLEAN
  BY CapacityAssumption, StatusAssumption DEF TypeOK, Ring
<1> QED
  BY <1>1 DEF RingInv, size, Smaller

\* The latest k events, as last_n finds them.
LEMMA RingLatest ==
  ASSUME TypeOK, RingInv, NEW n \in Nat
  PROVE  LET k == Smaller(n, Smaller(pushed, Capacity))
         IN  last_n(ring, n) = [i \in 1..k |-> pushed - k + i]
<1> DEFINE k == Smaller(n, Smaller(pushed, Capacity))
<1>1. /\ ring.head \in 0..(Capacity - 1) /\ pushed \in Nat /\ Capacity \in Nat \ {0}
  BY CapacityAssumption, StatusAssumption DEF TypeOK, Ring
<1>2. k \in Nat /\ k <= pushed /\ k <= Capacity
  BY <1>1 DEF Smaller
<1>3. Smaller(n, size(ring)) = k
  BY RingSize
<1> HIDE DEF k
<1>4. ASSUME NEW i \in 1..k
      PROVE  ring.buffer[(ring.head + Capacity - k + (i - 1)) % Capacity]
               = pushed - k + i
  <2> DEFINE j == k - i + 1
  <2>1. j \in 1..Capacity /\ j <= pushed
    BY <1>1, <1>2
  <2> DEFINE x == ring.head + Capacity - k + (i - 1)
  <2>2. x \in Nat /\ x < Capacity + Capacity /\ x = ring.head + Capacity - j
    BY <1>1, <1>2
  <2>3. pushed - j + 1 = pushed - k + i
    BY <1>1, <1>2
  <2> HIDE DEF x, j
  <2>4. x % Capacity = IF x < Capacity THEN x ELSE x - Capacity
    BY <1>1, <2>2, OneTurn
  <2>5. x % Capacity = Back(ring.head, j)
    BY <1>1, <2>1, <2>2, <2>4 DEF Back
  <2>6. ring.buffer[Back(ring.head, j)] = pushed - j + 1
    BY <2>1 DEF RingInv
  <2> QED
    BY <2>3, <2>5, <2>6 DEF x
<1>5. last_n(ring, n) =
        [i \in 1..k |->
           ring.buffer[(ring.head + Capacity - k + (i - 1)) % Capacity]]
  BY <1>3 DEF last_n
<1>6. last_n(ring, n) = [i \in 1..k |-> pushed - k + i]
  BY <1>4, <1>5
<1> QED
  BY <1>6 DEF k

\* publish_event pushes the next event.
LEMMA PushStep ==
  ASSUME TypeOK, RingInv, pushed < MaxEvents,
         pushed' = pushed + 1, ring' = push(ring, pushed + 1)
  PROVE  ring' \in Ring(0..MaxEvents) /\ RingInv'
<1> DEFINE h == ring.head
<1> DEFINE nh == IF h + 1 = Capacity THEN 0 ELSE h + 1
<1>1. /\ h \in 0..(Capacity - 1) /\ pushed \in Nat /\ Capacity \in Nat \ {0}
      /\ ring.full \in BOOLEAN /\ MaxEvents \in Nat
      /\ ring.buffer \in [0..(Capacity - 1) -> 0..MaxEvents]
  BY CapacityAssumption, StatusAssumption, SMTT(30) DEF TypeOK, Ring
<1>2. (h + 1) % Capacity = nh /\ nh \in 0..(Capacity - 1)
  <2>1. h + 1 \in Nat /\ h + 1 < Capacity + Capacity
    BY <1>1
  <2>2. (h + 1) % Capacity = IF h + 1 < Capacity THEN h + 1 ELSE h + 1 - Capacity
    BY <1>1, <2>1, OneTurn, SMTT(30)
  <2> QED
    BY <1>1, <2>2, SMTT(30)
<1> DEFINE nt == IF ring.full THEN nh ELSE 0
<1>3. (IF ring.full THEN (ring.tail + 1) % Capacity ELSE ring.tail) = nt
  <2>1. CASE ring.full
    BY <1>2, <2>1 DEF RingInv
  <2>2. CASE ~ring.full
    BY <2>2 DEF RingInv
  <2> QED
    BY <2>1, <2>2
<1>4. ring' = [buffer |-> [ring.buffer EXCEPT ![h] = pushed + 1], head |-> nh,
               tail |-> nt, full |-> ring.full \/ nh = nt]
  BY <1>2, <1>3 DEF push
<1> HIDE DEF h, nh, nt
<1>5. /\ ring'.head = nh /\ ring'.tail = nt
      /\ ring'.buffer = [ring.buffer EXCEPT ![h] = pushed + 1]
  BY <1>4
<1>f. ring'.full <=> (ring.full \/ nh = nt)
  <2> DEFINE fl == (ring.full \/ nh = nt)
  <2>1. ring' = [buffer |-> [ring.buffer EXCEPT ![h] = pushed + 1], head |-> nh,
                 tail |-> nt, full |-> fl]
    BY <1>4
  <2> HIDE DEF fl
  <2>2. ring'.full = fl
    BY <2>1
  <2> QED
    BY <2>2 DEF fl
<1>6. nt \in 0..(Capacity - 1) /\ pushed + 1 \in 0..MaxEvents
  BY <1>1, <1>2 DEF nt
<1>7. ring' \in Ring(0..MaxEvents)
  <2> DEFINE b == [ring.buffer EXCEPT ![h] = pushed + 1]
  <2> DEFINE fl == (ring.full \/ nh = nt)
  <2>1. b \in [0..(Capacity - 1) -> 0..MaxEvents]
    BY <1>1, <1>6
  <2>2. fl \in BOOLEAN
    OBVIOUS
  <2>3. ring' = [buffer |-> b, head |-> nh, tail |-> nt, full |-> fl]
    BY <1>4
  <2> HIDE DEF b, fl
  <2> QED
    BY <1>2, <1>6, <2>1, <2>2, <2>3 DEF Ring
<1>8. /\ ring'.full <=> pushed + 1 >= Capacity
      /\ ring'.tail = IF ring'.full THEN ring'.head ELSE 0
      /\ ~ring'.full => ring'.head = pushed + 1
  <2>1. CASE ring.full
    BY <1>1, <1>5, <1>f, <2>1 DEF RingInv, nt
  <2>2. CASE ~ring.full
    <3>1. pushed < Capacity /\ h = pushed /\ nt = 0
      BY <1>1, <2>2 DEF RingInv, nt, h
    <3>2. CASE pushed + 1 = Capacity
      BY <1>1, <1>5, <1>f, <2>2, <3>1, <3>2 DEF nh
    <3>3. CASE pushed + 1 # Capacity
      BY <1>1, <1>5, <1>f, <2>2, <3>1, <3>3 DEF nh
    <3> QED
      BY <3>2, <3>3
  <2> QED
    BY <2>1, <2>2
<1>9. ASSUME NEW j \in 1..Capacity, j <= pushed + 1
      PROVE  ring'.buffer[Back(nh, j)] = (pushed + 1) - j + 1
  <2>1. Back(nh, j) \in 0..(Capacity - 1)
    BY <1>1, <1>2, <1>5 DEF Back
  <2>2. CASE j = 1
    <3>1. Back(nh, j) = h
      BY <1>1, <1>5, <2>2 DEF Back, nh
    <3> QED
      BY <1>1, <1>5, <2>2, <3>1
  <2>3. CASE j # 1
    <3>1. Back(nh, j) = Back(ring.head, j - 1) /\ Back(nh, j) # h
      <4>1. ring.head = h /\ j \in Int /\ j >= 2 /\ j <= Capacity
        BY <1>1, <2>3 DEF h
      <4>2. CASE h + 1 = Capacity
        BY <1>1, <4>1, <4>2 DEF Back, nh
      <4>3. CASE h + 1 # Capacity
        BY <1>1, <4>1, <4>3 DEF Back, nh
      <4> QED
        BY <4>2, <4>3
    <3>2. j - 1 \in 1..Capacity /\ j - 1 <= pushed
      BY <1>1, <1>9, <2>3
    <3>3. ring.buffer[Back(ring.head, j - 1)] = pushed - (j - 1) + 1
      BY <3>2 DEF RingInv
    <3>4. ring'.buffer[Back(nh, j)] = ring.buffer[Back(nh, j)]
      BY <1>1, <1>5, <2>1, <3>1
    <3> QED
      BY <1>1, <3>1, <3>3, <3>4
  <2> QED
    BY <2>2, <2>3
<1>10. RingInv'
  <2>1. \A j \in 1..Capacity :
          j <= pushed' => ring'.buffer[Back(ring'.head, j)] = pushed' - j + 1
    <3> SUFFICES ASSUME NEW j \in 1..Capacity, j <= pushed'
                 PROVE  ring'.buffer[Back(ring'.head, j)] = pushed' - j + 1
      OBVIOUS
    <3>1. ring'.buffer[Back(nh, j)] = (pushed + 1) - j + 1
      BY <1>9
    <3>2. ring'.head = nh /\ pushed' = pushed + 1
      BY <1>5
    <3> QED
      BY <3>1, <3>2, Zenon
  <2>2. /\ ring'.full <=> pushed' >= Capacity
        /\ ring'.tail = IF ring'.full THEN ring'.head ELSE 0
        /\ ~ring'.full => ring'.head = pushed'
    BY <1>8
  <2> QED
    BY <2>1, <2>2, Zenon DEF RingInv, Back
<1> QED
  BY <1>7, <1>10

-----------------------------------------------------------------------------
(* The list of subscribers and the descriptors.                            *)

\* What erase leaves of a sequence.
LEMMA EraseAt ==
  ASSUME NEW S, NEW s \in Seq(S), NEW i \in 1..Len(s), NEW t,
         t = SubSeq(s, 1, i - 1) \o SubSeq(s, i + 1, Len(s))
  PROVE  /\ t \in Seq(S) /\ Len(t) = Len(s) - 1
         /\ \A k \in 1..(Len(s) - 1) : t[k] = IF k < i THEN s[k] ELSE s[k + 1]
<1> DEFINE a == SubSeq(s, 1, i - 1)
<1> DEFINE b == SubSeq(s, i + 1, Len(s))
<1>1. Len(s) \in Nat /\ i \in Nat
  BY LenProperties
<1>2. /\ a \in Seq(S) /\ Len(a) = i - 1
      /\ \A k \in 1..(i - 1) : a[k] = s[k]
  BY <1>1, SubSeqProperties
<1>3. /\ b \in Seq(S) /\ Len(b) = Len(s) - i
      /\ \A k \in 1..(Len(s) - i) : b[k] = s[i + k]
  BY <1>1, SubSeqProperties
<1> HIDE DEF a, b
<1>4. /\ a \o b \in Seq(S) /\ Len(a \o b) = Len(a) + Len(b)
      /\ \A k \in 1..(Len(a) + Len(b)) :
           (a \o b)[k] = IF k <= Len(a) THEN a[k] ELSE b[k - Len(a)]
  BY <1>2, <1>3, ConcatProperties
<1>5. t = a \o b
  BY DEF a, b
<1>6. Len(a) + Len(b) = Len(s) - 1
  BY <1>1, <1>2, <1>3
<1>7. ASSUME NEW k \in 1..(Len(s) - 1)
      PROVE  t[k] = IF k < i THEN s[k] ELSE s[k + 1]
  <2>1. (a \o b)[k] = IF k <= Len(a) THEN a[k] ELSE b[k - Len(a)]
    BY <1>4, <1>6
  <2>2. CASE k < i
    <3>1. k <= Len(a) /\ k \in 1..(i - 1)
      BY <1>1, <1>2, <2>2
    <3>2. t[k] = a[k] /\ a[k] = s[k]
      BY <1>2, <1>5, <2>1, <3>1, Zenon
    <3> QED
      BY <2>2, <3>2
  <2>3. CASE ~(k < i)
    <3>1. ~(k <= Len(a)) /\ k - Len(a) \in 1..(Len(s) - i) /\ i + (k - Len(a)) = k + 1
      BY <1>1, <1>2, <2>3
    <3>2. t[k] = b[k - Len(a)]
      BY <1>5, <2>1, <3>1, Zenon
    <3>3. b[k - Len(a)] = s[k + 1]
      BY <1>3, <3>1
    <3> QED
      BY <2>3, <3>2, <3>3
  <2> QED
    BY <2>2, <2>3
<1> QED
  BY <1>4, <1>5, <1>6, <1>7

\* accept finds a number when one is free.
LEMMA LowestFd ==
  ASSUME FreeFds # {}
  PROVE  (CHOOSE n \in FreeFds : \A m \in FreeFds : n <= m) \in FreeFds
<1> DEFINE R == OpToRel(<, Nat)
<1>1. \A x, y \in Nat : x < y => <<x, y>> \in R
  BY DEF OpToRel
<1>2. IsWellFoundedOn(R, Nat)
  BY NatLessThanWellFounded, Zenon
<1> HIDE DEF R
<1>3. FreeFds \subseteq Nat
  BY StatusAssumption DEF FreeFds
<1>4. PICK x \in FreeFds : \A y \in FreeFds : ~ (<<y, x>> \in R)
  BY <1>2, <1>3, WFMin
<1>5. \A y \in FreeFds : ~(y < x)
  BY <1>1, <1>3, <1>4, Zenon
<1>6. \A y \in FreeFds : x <= y
  BY <1>3, <1>5
<1> QED
  BY <1>6

\* A number in the list is an open connection's.
LEMMA OwnerLive ==
  ASSUME TypeOK, SubscribersLive, NEW i \in DOMAIN subscribers
  PROVE  /\ Owner(subscribers[i]) \in Open
         /\ fd[Owner(subscribers[i])] = subscribers[i]
         /\ Owner(subscribers[i]) \in Clients
<1>1. subscribers[i] \in Subscribed
  BY DEF Subscribed
<1>2. \E c \in Open : fd[c] = subscribers[i]
  BY <1>1 DEF SubscribersLive
<1> QED
  BY <1>2 DEF Owner, Open

\* Erasing entry i takes its number out of the list and nothing else.
LEMMA ErasedList ==
  ASSUME TypeOK, SubscribersLive, NEW i \in 1..Len(subscribers),
         NEW list, list = Erased(i)
  PROVE  /\ list \in Seq(Fds) /\ Len(list) = Len(subscribers) - 1
         /\ \A k \in DOMAIN list :
              /\ list[k] = IF k < i THEN subscribers[k] ELSE subscribers[k + 1]
              /\ list[k] # subscribers[i]
         /\ {list[k] : k \in DOMAIN list} \subseteq Subscribed
         /\ \A k, m \in DOMAIN list : list[k] = list[m] => k = m
<1>1. /\ subscribers \in Seq(Fds) /\ Len(subscribers) \in Nat
      /\ DOMAIN subscribers = 1..Len(subscribers)
  BY DEF TypeOK
<1>2. /\ list \in Seq(Fds) /\ Len(list) = Len(subscribers) - 1
      /\ \A k \in 1..(Len(subscribers) - 1) :
           list[k] = IF k < i THEN subscribers[k] ELSE subscribers[k + 1]
  BY <1>1, EraseAt, ZenonT(60) DEF Erased
<1>3. DOMAIN list = 1..(Len(subscribers) - 1)
  BY <1>2
<1> DEFINE From(k) == IF k < i THEN k ELSE k + 1
<1>4. \A k \in DOMAIN list :
        From(k) \in DOMAIN subscribers /\ list[k] = subscribers[From(k)] /\ From(k) # i
  BY <1>1, <1>2, <1>3
<1>5. \A k, m \in DOMAIN list : From(k) = From(m) => k = m
  BY <1>1, <1>3
<1>6. \A k, m \in DOMAIN subscribers : subscribers[k] = subscribers[m] => k = m
  BY DEF SubscribersLive
<1>7. i \in DOMAIN subscribers
  BY <1>1
<1>8. \A k \in DOMAIN list : list[k] # subscribers[i] /\ list[k] \in Subscribed
  BY <1>4, <1>6, <1>7 DEF Subscribed
<1> HIDE DEF From
<1>9. \A k, m \in DOMAIN list : list[k] = list[m] => k = m
  <2> SUFFICES ASSUME NEW k \in DOMAIN list, NEW m \in DOMAIN list,
                      list[k] = list[m]
               PROVE  k = m
    OBVIOUS
  <2>1. subscribers[From(k)] = subscribers[From(m)]
    BY <1>4
  <2>2. From(k) = From(m)
    BY <1>4, <1>6, <2>1
  <2> QED
    BY <1>5, <2>2
<1> QED
  BY <1>2, <1>3, <1>8, <1>9, SMTT(30)

-----------------------------------------------------------------------------
(* Types.                                                                  *)

\* What close leaves of the connections.
LEMMA CloseTypes ==
  ASSUME TypeOK, NEW cs, Close(cs)
  PROVE  /\ conn' \in [Clients -> {"none", "backlog", "open", "closed"}]
         /\ fd' \in [Clients -> Fds \cup {0}]
         /\ hung' \in [Clients -> BOOLEAN] /\ data' \in [Clients -> BOOLEAN]
         /\ stalled' \in [Clients -> BOOLEAN]
         /\ received' \in [Clients -> Seq(Events)]
         /\ since' \in [Clients -> 0..MaxEvents]
<1>1. ASSUME NEW V, NEW v \in V, NEW f \in [Clients -> V]
      PROVE  Reset(f, cs, v) \in [Clients -> V]
  BY DEF Reset
<1>2. conn' \in [Clients -> {"none", "backlog", "open", "closed"}]
  BY <1>1 DEF TypeOK, Close
<1>3. fd' \in [Clients -> Fds \cup {0}]
  BY <1>1 DEF TypeOK, Close
<1>4. /\ hung' \in [Clients -> BOOLEAN] /\ data' \in [Clients -> BOOLEAN]
      /\ stalled' \in [Clients -> BOOLEAN]
  BY <1>1, Zenon DEF TypeOK, Close
<1>5. received' \in [Clients -> Seq(Events)]
  <2>1. <<>> \in Seq(Events)
    OBVIOUS
  <2> QED
    BY <1>1, <2>1 DEF TypeOK, Close
<1>6. since' \in [Clients -> 0..MaxEvents]
  <2>1. 0 \in 0..MaxEvents
    BY StatusAssumption
  <2> QED
    BY <1>1, <2>1 DEF TypeOK, Close
<1> QED
  BY <1>2, <1>3, <1>4, <1>5, <1>6

\* The replay is a sequence of events.
LEMMA ReplayType ==
  ASSUME TypeOK, RingInv
  PROVE  last_n(ring, Replayed) \in Seq(Events)
<1> DEFINE k == Smaller(Replayed, Smaller(pushed, Capacity))
<1>1. pushed \in 0..MaxEvents /\ MaxEvents \in Nat
  BY StatusAssumption DEF TypeOK
<1>2. k \in Nat /\ k <= pushed
  BY <1>1, StatusAssumption, CapacityAssumption DEF Smaller
<1>3. last_n(ring, Replayed) = [i \in 1..k |-> pushed - k + i]
  BY RingLatest, StatusAssumption
<1> HIDE DEF k
<1>4. \A i \in 1..k : pushed - k + i \in Events
  BY <1>1, <1>2 DEF Events
<1> QED
  BY <1>2, <1>3, <1>4, IsASeq

\* Every step keeps the types.
LEMMA TypeStep ==
  SocketInv /\ [~killed /\ Next]_vars => TypeOK'
<1> SUFFICES ASSUME SocketInv, [~killed /\ Next]_vars PROVE TypeOK'
  OBVIOUS
<1>0. TypeOK
  BY DEF SocketInv
<1>1. CASE BuildSet
  <2>1. Subscribed \subseteq Fds
    BY <1>0 DEF TypeOK, Subscribed
  <2> QED
    BY <1>0, <1>1, <2>1 DEF TypeOK, BuildSet, publisherVars, clientVars, sentVars
<1>2. CASE Select
  BY <1>0, <1>2 DEF TypeOK, Select, publisherVars, clientVars, sentVars
<1>3. CASE Accept
  <2>1. CASE FreeFds = {}
    BY <1>0, <1>3, <2>1 DEF TypeOK, Accept, publisherVars, clientVars, sentVars
  <2>2. CASE FreeFds # {}
    <3> DEFINE n == CHOOSE n \in FreeFds : \A m \in FreeFds : n <= m
    <3>1. n \in Fds
      BY <2>2, LowestFd DEF FreeFds
    <3>2. PICK c \in Backlog :
            serving' = c /\ conn' = [conn EXCEPT ![c] = "open"] /\ fd' = [fd EXCEPT ![c] = n]
      BY <1>3, <2>2 DEF Accept
    <3> HIDE DEF n
    <3> QED
      BY <1>0, <1>3, <2>2, <3>1, <3>2
         DEF TypeOK, Accept, Backlog, publisherVars, clientVars, sentVars
  <2> QED
    BY <2>1, <2>2
<1>4. CASE Sweep
  BY <1>0, <1>4 DEF TypeOK, Sweep, publisherVars, clientVars, sentVars
<1>5. CASE Poll
  <2>1. it \in 1..Len(subscribers)
    BY <1>0, <1>5 DEF SocketInv, PassInv, Poll, TypeOK
  <2> DEFINE c == Owner(subscribers[it])
  <2>2. CASE Close({c}) /\ subscribers' = Erased(it) /\ UNCHANGED it
    <3>1. subscribers' \in Seq(Fds)
      BY <1>0, <2>1, <2>2, ErasedList DEF SocketInv
    <3> QED
      BY <1>0, <1>5, <2>2, <3>1, CloseTypes DEF TypeOK, Poll, publisherVars
  <2>3. CASE /\ data' = [data EXCEPT ![c] = @ /\ subscribers[it] \notin ready]
             /\ it' = it + 1
             /\ UNCHANGED <<subscribers, conn, fd, hung, stalled, received, since>>
    <3> DEFINE b == data[c] /\ subscribers[it] \notin ready
    <3>1. b \in BOOLEAN /\ data' = [data EXCEPT ![c] = b]
      BY <2>3
    <3> HIDE DEF b, c
    <3>2. data' \in [Clients -> BOOLEAN]
      BY <1>0, <3>1 DEF TypeOK
    <3> QED
      BY <1>0, <1>5, <2>3, <3>2, SMTT(30) DEF TypeOK, Poll, publisherVars
  <2> QED
    BY <1>5, <2>2, <2>3 DEF Poll
<1>6. CASE SweepEnds
  BY <1>0, <1>6 DEF TypeOK, SweepEnds, publisherVars, clientVars, sentVars
<1>7. CASE HandleNothing
  BY <1>0, <1>7, CloseTypes DEF TypeOK, HandleNothing, publisherVars
<1>8. CASE HandleCommand
  BY <1>0, <1>8 DEF TypeOK, HandleCommand, publisherVars, clientVars
<1>9. CASE HandleSubscribe
  <2>1. serving \in Open /\ serving \in Clients /\ fd[serving] \in Fds
    BY <1>0, <1>9 DEF SocketInv, ServingInv, FdInv, HandleSubscribe, TypeOK, Open
  <2>2. Append(subscribers, fd[serving]) \in Seq(Fds)
    BY <1>0, <2>1 DEF TypeOK
  <2>3. last_n(ring, Replayed) \in Seq(Events)
    BY <1>0, ReplayType DEF SocketInv
  <2>4. pushed - Smaller(pushed, Smaller(Replayed, Capacity)) \in 0..MaxEvents
    BY <1>0, StatusAssumption, CapacityAssumption DEF TypeOK, Smaller
  <2> QED
    BY <1>0, <1>9, <2>1, <2>2, <2>3, <2>4
       DEF TypeOK, HandleSubscribe, publisherVars, clientVars
<1>10. CASE SendReplay
  <2>1. serving \in Clients
    BY <1>0, <1>10 DEF TypeOK, SendReplay
  <2>2. received[serving] \o replay \in Seq(Events)
    BY <1>0, <2>1 DEF TypeOK
  <2>3. received' \in [Clients -> Seq(Events)]
    BY <1>0, <1>10, <2>1, <2>2 DEF TypeOK, SendReplay
  <2>4. <<>> \in Seq(Events)
    OBVIOUS
  <2> QED
    BY <1>0, <1>10, <2>3, <2>4 DEF TypeOK, SendReplay, publisherVars, clientVars
<1>11. CASE set_stop
  BY <1>0, <1>11
     DEF TypeOK, set_stop, serverVars, publisherVars, clientVars, sentVars
<1>12. ASSUME NEW p \in Publishers, Push(p) PROVE TypeOK'
  <2>1. ring' \in Ring(0..MaxEvents)
    BY <1>0, <1>12, PushStep DEF SocketInv, Push, RingAfterPush
  <2>2. pushed + 1 \in 0..MaxEvents
    BY <1>0, <1>12, StatusAssumption DEF TypeOK, Push
  <2> QED
    BY <1>0, <1>12, <2>1, <2>2 DEF TypeOK, Push, serverVars, clientVars, sentVars
<1>13. ASSUME NEW p \in Publishers, LockList(p) PROVE TypeOK'
  BY <1>0, <1>13 DEF TypeOK, LockList, serverVars, clientVars, sentVars
<1>14. ASSUME NEW p \in Publishers, Send(p) PROVE TypeOK'
  <2>1. next[p] \in 1..Len(subscribers) /\ event[p] \in Events
    BY <1>0, <1>14, StatusAssumption DEF SocketInv, PassInv, Send, TypeOK, Events
  <2> DEFINE c == Owner(subscribers[next[p]])
  <2>2. CASE Close({c}) /\ subscribers' = Erased(next[p]) /\ UNCHANGED next
    <3>1. subscribers' \in Seq(Fds)
      BY <1>0, <2>1, <2>2, ErasedList DEF SocketInv
    <3> QED
      BY <1>0, <1>14, <2>2, <3>1, CloseTypes, ZenonT(60) DEF TypeOK, Send, serverVars
  <2>3. CASE /\ received' = [received EXCEPT ![c] = Append(@, event[p])]
             /\ next' = [next EXCEPT ![p] = @ + 1]
             /\ UNCHANGED <<conn, fd, subscribers, hung, data, stalled, since>>
    <3>1. c \in Clients
      BY <1>0, <2>1, OwnerLive, SMTT(30) DEF SocketInv, TypeOK
    <3> HIDE DEF c
    <3>2. Append(received[c], event[p]) \in Seq(Events)
      BY <1>0, <2>1, <3>1 DEF TypeOK
    <3>3. received' \in [Clients -> Seq(Events)]
      BY <1>0, <2>3, <3>1, <3>2 DEF TypeOK
    <3>4. next' \in [Publishers -> Nat]
      BY <1>0, <2>3 DEF TypeOK
    <3> QED
      BY <1>0, <1>14, <2>3, <3>3, <3>4, ZenonT(60) DEF TypeOK, Send, serverVars
  <2> QED
    BY <1>14, <2>2, <2>3 DEF Send
<1>15. ASSUME NEW p \in Publishers, Published(p) PROVE TypeOK'
  <2>1. 0 \in 0..MaxEvents
    BY StatusAssumption
  <2> QED
    BY <1>0, <1>15, <2>1 DEF TypeOK, Published, serverVars, clientVars, sentVars
<1>16. ASSUME NEW c \in Clients, Client(c) PROVE TypeOK'
  <2> USE <1>0 DEF TypeOK, clientUnchanged, serverVars, publisherVars, sentVars
  <2>1. CASE Connect(c)
    BY <2>1 DEF Connect
  <2>2. CASE HangUp(c)
    BY <2>2 DEF HangUp
  <2>3. CASE Chatter(c)
    BY <2>3, SMTT(30) DEF Chatter
  <2>4. CASE Stall(c)
    BY <2>4 DEF Stall
  <2>5. CASE Resume(c)
    BY <2>5, SMTT(30) DEF Resume
  <2> QED
    BY <1>16, <2>1, <2>2, <2>3, <2>4, <2>5 DEF Client
<1>17. CASE UNCHANGED vars
  BY <1>0, <1>17 DEF TypeOK, vars, serverVars, publisherVars, clientVars, sentVars
<1> QED
  BY <1>1, <1>2, <1>3, <1>4, <1>5, <1>6, <1>7, <1>8, <1>9, <1>10, <1>11,
     <1>12, <1>13, <1>14, <1>15, <1>16, <1>17 DEF Next, Server, Publish

-----------------------------------------------------------------------------
(* The ring buffer, the mutex and the iterators.                           *)

\* Only publish_event changes the ring buffer.
LEMMA RingStep ==
  SocketInv /\ [~killed /\ Next]_vars => RingInv'
<1> SUFFICES ASSUME SocketInv, [~killed /\ Next]_vars PROVE RingInv'
  OBVIOUS
<1>1. ASSUME NEW p \in Publishers, Push(p) PROVE RingInv'
  BY <1>1, PushStep DEF SocketInv, Push, RingAfterPush
<1>2. CASE UNCHANGED <<ring, pushed>>
  BY <1>2, SMTT(30) DEF SocketInv, RingInv
<1>3. \/ UNCHANGED <<ring, pushed>>
      \/ \E p \in Publishers : Push(p)
  BY DEF Next, Server, BuildSet, Select, Accept, Sweep, Poll, SweepEnds,
         HandleNothing, HandleCommand, HandleSubscribe, SendReplay, set_stop,
         Publish, LockList, Send, Published, Client, Connect, HangUp, Chatter,
         Stall, Resume, clientUnchanged, vars
<1> QED
  BY <1>1, <1>2, <1>3

\* Every step keeps the mutex and the iterators in order.
LEMMA ControlStep ==
  SocketInv /\ [~killed /\ Next]_vars => LockInv' /\ PassInv'
<1> SUFFICES ASSUME SocketInv, [~killed /\ Next]_vars PROVE LockInv' /\ PassInv'
  OBVIOUS
<1>0. TypeOK /\ LockInv /\ PassInv /\ \A p \in Publishers : p # "free" /\ p # "server"
  BY StatusAssumption DEF SocketInv
<1> USE <1>0 DEF LockInv, PassInv
<1>1. CASE BuildSet \/ Select \/ Accept \/ HandleNothing \/ HandleCommand
  BY <1>1 DEF BuildSet, Select, Accept, HandleNothing, HandleCommand, publisherVars
<1>2. CASE Sweep
  BY <1>2 DEF Sweep, publisherVars
<1>3. CASE Poll
  BY <1>3 DEF Poll, publisherVars, TypeOK
<1>4. CASE SweepEnds
  BY <1>4 DEF SweepEnds, publisherVars
<1>5. CASE HandleSubscribe
  BY <1>5 DEF HandleSubscribe, publisherVars
<1>6. CASE SendReplay
  BY <1>6 DEF SendReplay, publisherVars
<1>7. CASE set_stop
  BY <1>7 DEF set_stop, serverVars, publisherVars
<1>8. ASSUME NEW p \in Publishers, Push(p) PROVE LockInv' /\ PassInv'
  BY <1>8 DEF Push, serverVars, TypeOK
<1>9. ASSUME NEW p \in Publishers, LockList(p) PROVE LockInv' /\ PassInv'
  BY <1>9 DEF LockList, serverVars, TypeOK
<1>10. ASSUME NEW p \in Publishers, Send(p) PROVE LockInv' /\ PassInv'
  <2>1. UNCHANGED <<lock, ppc, event, spc, it>>
    BY <1>10 DEF Send, serverVars
  <2>2. next' = next \/ next' = [next EXCEPT ![p] = @ + 1]
    BY <1>10 DEF Send
  <2> QED
    BY <2>1, <2>2 DEF TypeOK
<1>11. ASSUME NEW p \in Publishers, Published(p) PROVE LockInv' /\ PassInv'
  BY <1>11 DEF Published, serverVars, TypeOK
<1>12. ASSUME NEW c \in Clients, Client(c) PROVE LockInv' /\ PassInv'
  BY <1>12 DEF Client, Connect, HangUp, Chatter, Stall, Resume,
               clientUnchanged, serverVars, publisherVars
<1>13. CASE UNCHANGED vars
  BY <1>13 DEF vars, serverVars, publisherVars
<1> QED
  BY <1>1, <1>2, <1>3, <1>4, <1>5, <1>6, <1>7, <1>8, <1>9, <1>10, <1>11,
     <1>12, <1>13 DEF Next, Server, Publish

-----------------------------------------------------------------------------
(* Connections.                                                            *)

ConnInv == FdInv /\ ServingInv /\ SubscribersLive

\* A subscriber is closed and erased, by the sweep or by a publisher: its
\* number leaves the list as it leaves the connection, and the others keep
\* theirs.
LEMMA DropStep ==
  ASSUME TypeOK, ConnInv, NEW i \in 1..Len(subscribers), NEW c,
         c = Owner(subscribers[i]), Close({c}), subscribers' = Erased(i),
         request' = request, spc' = spc, serving' = serving, spc # "replay"
  PROVE  /\ ConnInv'
         /\ \A d \in Open' : d \in Open /\ d # c /\ fd'[d] = fd[d]
         /\ Subscribed' \subseteq Subscribed
<1>1. c \in Open /\ fd[c] = subscribers[i] /\ c \in Clients
  BY OwnerLive DEF ConnInv, TypeOK
<1>2. /\ \A k \in DOMAIN subscribers' : subscribers'[k] # subscribers[i]
      /\ Subscribed' \subseteq Subscribed
      /\ \A k, m \in DOMAIN subscribers' : subscribers'[k] = subscribers'[m] => k = m
  BY ErasedList DEF ConnInv, Subscribed
<1>3. \A d \in Clients : /\ conn'[d] = IF d = c THEN "closed" ELSE conn[d]
                         /\ fd'[d] = IF d = c THEN 0 ELSE fd[d]
  BY DEF Close, Reset
<1>4. Open' = Open \ {c}
  BY <1>3 DEF Open
<1>5. FdInv'
  BY <1>3, <1>4 DEF ConnInv, FdInv, Open
<1>6. subscribers[i] \notin Subscribed'
  BY <1>2 DEF Subscribed
<1>7. SubscribersLive'
  <2>1. ASSUME NEW n \in Subscribed'
        PROVE  \E d \in Open' : fd'[d] = n /\ request'[d] = "SUBSCRIBE"
    <3>1. PICK d \in Open : fd[d] = n /\ request[d] = "SUBSCRIBE"
      BY <1>2, <2>1 DEF ConnInv, SubscribersLive
    <3>2. d # c /\ d \in Clients
      BY <1>1, <1>6, <2>1, <3>1 DEF Open
    <3> QED
      BY <1>3, <1>4, <3>1, <3>2
  <2> QED
    BY <1>2, <2>1 DEF SubscribersLive
<1>8. ServingInv'
  <2>1. subscribers[i] \in Subscribed
    BY DEF Subscribed, TypeOK
  <2>2. CASE spc = "handle"
    <3>1. serving \in Open /\ fd[serving] \notin Subscribed /\ serving # c
      BY <1>1, <2>1, <2>2 DEF ConnInv, ServingInv
    <3> QED
      BY <1>2, <1>3, <1>4, <2>2, <3>1 DEF ServingInv, Open
  <2>3. CASE spc # "handle"
    BY <2>3 DEF ServingInv
  <2> QED
    BY <2>2, <2>3
<1> QED
  BY <1>2, <1>3, <1>4, <1>5, <1>7, <1>8 DEF ConnInv, Open

\* Every step keeps the list and the connections together.
LEMMA ConnStep ==
  SocketInv /\ [~killed /\ Next]_vars => ConnInv'
<1> SUFFICES ASSUME SocketInv, [~killed /\ Next]_vars PROVE ConnInv'
  OBVIOUS
<1>0. TypeOK /\ ConnInv /\ LockInv /\ PassInv
  BY DEF SocketInv, ConnInv
<1>1. CASE /\ UNCHANGED <<conn, fd, request, subscribers, serving>>
           /\ spc' = spc \/ spc' \notin {"handle", "replay"}
  BY <1>0, <1>1 DEF ConnInv, FdInv, ServingInv, SubscribersLive, Open, Subscribed
<1>2. CASE BuildSet \/ Select \/ Sweep \/ SweepEnds \/ set_stop
  BY <1>1, <1>2 DEF BuildSet, Select, Sweep, SweepEnds, set_stop, serverVars, clientVars
<1>3. CASE Accept
  <2>1. CASE FreeFds = {}
    <3>1. UNCHANGED <<conn, fd, request, subscribers, serving>> /\ spc' = "sweep"
      BY <1>3, <2>1 DEF Accept, clientVars
    <3> QED
      BY <1>1, <3>1
  <2>2. CASE FreeFds # {}
    <3> DEFINE n == CHOOSE n \in FreeFds : \A m \in FreeFds : n <= m
    <3>1. n \in FreeFds /\ n # 0
      BY <2>2, LowestFd, StatusAssumption DEF FreeFds
    <3>2. PICK c \in Backlog :
            /\ serving' = c /\ conn' = [conn EXCEPT ![c] = "open"]
            /\ fd' = [fd EXCEPT ![c] = n] /\ request' = request
            /\ subscribers' = subscribers /\ spc' = "handle"
      BY <1>3, <2>2 DEF Accept, clientVars
    <3> HIDE DEF n
    <3>3. c \in Clients /\ c \notin Open /\ Open' = Open \cup {c}
      BY <1>0, <3>2 DEF Backlog, Open, TypeOK
    <3>4. \A d \in Open : fd[d] # n /\ fd'[d] = fd[d]
      BY <1>0, <3>1, <3>2, <3>3 DEF FreeFds, TypeOK, Open
    <3>5. fd'[c] = n
      BY <1>0, <3>2, <3>3 DEF TypeOK
    <3>6. FdInv'
      BY <1>0, <3>1, <3>2, <3>3, <3>4, <3>5 DEF ConnInv, FdInv, TypeOK, Open
    <3>7. n \notin Subscribed
      BY <1>0, <3>4 DEF ConnInv, SubscribersLive
    <3>8. ServingInv'
      BY <3>2, <3>3, <3>5, <3>7 DEF ServingInv, Subscribed
    <3>9. SubscribersLive'
      BY <1>0, <3>2, <3>3, <3>4 DEF ConnInv, SubscribersLive, Subscribed
    <3> QED
      BY <3>6, <3>8, <3>9 DEF ConnInv
  <2> QED
    BY <2>1, <2>2
<1>4. CASE Poll
  <2>1. it \in 1..Len(subscribers) /\ spc # "replay"
    BY <1>0, <1>4 DEF PassInv, Poll, TypeOK
  <2> DEFINE c == Owner(subscribers[it])
  <2>2. CASE Close({c}) /\ subscribers' = Erased(it)
    BY <1>0, <1>4, <2>1, <2>2, DropStep DEF Poll
  <2>3. CASE UNCHANGED <<subscribers, conn, fd>>
    BY <1>1, <1>4, <2>3 DEF Poll
  <2> QED
    BY <1>4, <2>2, <2>3 DEF Poll
<1>5. CASE HandleNothing
  <2>1. serving \in Open /\ fd[serving] \notin Subscribed /\ serving \in Clients
    BY <1>0, <1>5 DEF ConnInv, ServingInv, HandleNothing, Open
  <2>2. \A d \in Clients : /\ conn'[d] = IF d = serving THEN "closed" ELSE conn[d]
                           /\ fd'[d] = IF d = serving THEN 0 ELSE fd[d]
    BY <1>5 DEF HandleNothing, Close, Reset
  <2>3. Open' = Open \ {serving}
    BY <2>2 DEF Open
  <2>4. FdInv'
    BY <1>0, <2>2, <2>3 DEF ConnInv, FdInv, Open
  <2>5. SubscribersLive'
    <3>1. UNCHANGED <<subscribers, request>>
      BY <1>5 DEF HandleNothing
    <3>2. \A d \in Open : fd[d] \in Subscribed => d \in Open' /\ fd'[d] = fd[d]
      BY <2>1, <2>2, <2>3 DEF Open
    <3> QED
      BY <1>0, <3>1, <3>2 DEF ConnInv, SubscribersLive, Subscribed
  <2>6. ServingInv'
    BY <1>5 DEF HandleNothing, ServingInv
  <2> QED
    BY <2>4, <2>5, <2>6 DEF ConnInv
<1>6. CASE HandleCommand
  <2>1. UNCHANGED <<conn, fd, request, subscribers>> /\ spc' = "sweep"
    BY <1>6 DEF HandleCommand, clientVars
  <2> QED
    BY <1>0, <2>1 DEF ConnInv, FdInv, ServingInv, SubscribersLive, Open, Subscribed
<1>7. CASE HandleSubscribe
  <2>1. /\ serving \in Open /\ fd[serving] \notin Subscribed /\ serving \in Clients
        /\ request[serving] = "SUBSCRIBE" /\ fd[serving] \in Fds
    BY <1>0, <1>7 DEF ConnInv, ServingInv, HandleSubscribe, Open, FdInv, TypeOK
  <2>2. /\ subscribers' = Append(subscribers, fd[serving])
        /\ UNCHANGED <<conn, fd, request, serving>> /\ spc' = "replay"
    BY <1>7 DEF HandleSubscribe, clientVars
  <2>3. /\ subscribers \in Seq(Fds) /\ Len(subscribers) \in Nat
        /\ DOMAIN subscribers = 1..Len(subscribers)
        /\ DOMAIN subscribers' = 1..(Len(subscribers) + 1)
        /\ \A k \in 1..Len(subscribers) : subscribers'[k] = subscribers[k]
        /\ subscribers'[Len(subscribers) + 1] = fd[serving]
    BY <1>0, <2>1, <2>2 DEF TypeOK
  <2>4. \A k \in DOMAIN subscribers : subscribers[k] # fd[serving]
    BY <2>1 DEF Subscribed
  <2>5. Subscribed' = Subscribed \cup {fd[serving]}
    BY <2>3 DEF Subscribed
  <2>6. \A k, m \in DOMAIN subscribers' : subscribers'[k] = subscribers'[m] => k = m
    BY <1>0, <2>3, <2>4 DEF ConnInv, SubscribersLive
  <2>7. SubscribersLive'
    BY <1>0, <2>1, <2>2, <2>5, <2>6 DEF ConnInv, SubscribersLive, Open
  <2> QED
    BY <1>0, <2>1, <2>2, <2>7 DEF ConnInv, FdInv, ServingInv, Open
<1>8. CASE SendReplay
  <2>1. UNCHANGED <<conn, fd, request, subscribers>> /\ spc' = "sweep"
    BY <1>8 DEF SendReplay, clientVars
  <2> QED
    BY <1>0, <2>1 DEF ConnInv, FdInv, ServingInv, SubscribersLive, Open, Subscribed
<1>9. ASSUME NEW p \in Publishers, Push(p) \/ LockList(p) \/ Published(p)
      PROVE  ConnInv'
  BY <1>1, <1>9 DEF Push, LockList, Published, serverVars, clientVars
<1>10. ASSUME NEW p \in Publishers, Send(p) PROVE ConnInv'
  <2>1. next[p] \in 1..Len(subscribers)
    BY <1>0, <1>10 DEF PassInv, Send, TypeOK
  <2>2. spc # "replay"
    BY <1>0, <1>10, StatusAssumption DEF LockInv, Send
  <2> DEFINE c == Owner(subscribers[next[p]])
  <2>3. CASE Close({c}) /\ subscribers' = Erased(next[p])
    BY <1>0, <1>10, <2>1, <2>2, <2>3, DropStep DEF Send, serverVars
  <2>4. CASE UNCHANGED <<subscribers, conn, fd>>
    BY <1>1, <1>10, <2>4 DEF Send, serverVars
  <2> QED
    BY <1>10, <2>3, <2>4 DEF Send
<1>11. ASSUME NEW c \in Clients, Connect(c) PROVE ConnInv'
  <2>1. Open' = Open /\ \A d \in Open : request'[d] = request[d]
    BY <1>0, <1>11 DEF Connect, Open, TypeOK
  <2>2. UNCHANGED <<fd, subscribers, spc, serving>>
    BY <1>11 DEF Connect, clientUnchanged, serverVars
  <2>3. \A d \in Clients : conn'[d] = "open" <=> conn[d] = "open"
    BY <2>1 DEF Open
  <2> QED
    BY <1>0, <2>1, <2>2, <2>3
       DEF ConnInv, FdInv, ServingInv, SubscribersLive, Subscribed
<1>12. ASSUME NEW c \in Clients, HangUp(c) \/ Chatter(c) \/ Stall(c) \/ Resume(c)
       PROVE  ConnInv'
  BY <1>1, <1>12 DEF HangUp, Chatter, Stall, Resume, clientUnchanged, serverVars
<1>13. CASE UNCHANGED vars
  BY <1>1, <1>13 DEF vars, serverVars, clientVars
<1> QED
  BY <1>2, <1>3, <1>4, <1>5, <1>6, <1>7, <1>8, <1>9, <1>10, <1>11, <1>12, <1>13
     DEF Next, Server, Publish, Client

-----------------------------------------------------------------------------
(* The stream of events.                                                   *)

\* Steps that touch neither what was sent nor what is still to be sent.
LEMMA StreamFrame ==
  ASSUME StreamInv,
         UNCHANGED <<subscribers, pushed, publisherVars>>,
         spc # "replay" \/ UNCHANGED <<spc, serving, replay>>,
         \A c \in Open' :
           fd'[c] \in Subscribed' /\ ~hung'[c] =>
             /\ c \in Open /\ fd[c] = fd'[c] /\ ~hung[c]
             /\ received'[c] = received[c] /\ since'[c] = since[c]
  PROVE  StreamInv'
<1> SUFFICES ASSUME NEW c \in Open', fd'[c] \in Subscribed', ~hung'[c],
                    NEW e \in (since'[c] + 1)..pushed'
             PROVE  Reaches(c, e)'
  BY DEF StreamInv
<1>1. /\ c \in Open /\ fd[c] = fd'[c] /\ ~hung[c] /\ fd[c] \in Subscribed
      /\ received'[c] = received[c] /\ since'[c] = since[c] /\ pushed' = pushed
  BY DEF Subscribed
<1>2. Reaches(c, e)
  BY <1>1 DEF StreamInv
<1> QED
  BY <1>1, <1>2 DEF Reaches, Owes, publisherVars

\* A subscriber joins: its replay holds all events pushed since the replay
\* begins.
LEMMA StreamSubscribe ==
  ASSUME SocketInv, HandleSubscribe
  PROVE  StreamInv'
<1>0. TypeOK /\ StreamInv /\ LockInv /\ RingInv /\ ConnInv
  BY DEF SocketInv, ConnInv
<1>1. /\ lock = "free" /\ spc = "handle" /\ spc' = "replay" /\ serving' = serving
      /\ subscribers' = Append(subscribers, fd[serving])
      /\ replay' = last_n(ring, Replayed)
      /\ since' = [since EXCEPT ![serving] =
                     pushed - Smaller(pushed, Smaller(Replayed, Capacity))]
      /\ UNCHANGED <<conn, fd, hung, received, pushed, ppc, event, next>>
  BY DEF HandleSubscribe, publisherVars, clientVars
<1>2. serving \in Open /\ serving \in Clients /\ fd[serving] \in Fds
  BY <1>0, <1>1 DEF ConnInv, ServingInv, FdInv, Open, TypeOK
<1>3. Subscribed' = Subscribed \cup {fd[serving]}
  <2>1. /\ subscribers \in Seq(Fds) /\ Len(subscribers) \in Nat
        /\ DOMAIN subscribers = 1..Len(subscribers)
        /\ DOMAIN subscribers' = 1..(Len(subscribers) + 1)
        /\ \A k \in 1..Len(subscribers) : subscribers'[k] = subscribers[k]
        /\ subscribers'[Len(subscribers) + 1] = fd[serving]
    BY <1>0, <1>1, <1>2 DEF TypeOK
  <2> QED
    BY <2>1 DEF Subscribed
<1>4. \A p \in Publishers : ppc[p] # "send"
  BY <1>0, <1>1, StatusAssumption DEF LockInv
<1> SUFFICES ASSUME NEW c \in Open', fd'[c] \in Subscribed', ~hung'[c],
                    NEW e \in (since'[c] + 1)..pushed'
             PROVE  Reaches(c, e)'
  BY DEF StreamInv
<1>5. c \in Open /\ c \in Clients
  BY <1>1 DEF Open
<1>6. CASE c = serving
  <2> DEFINE k == Smaller(Replayed, Smaller(pushed, Capacity))
  <2>1. /\ pushed \in Nat /\ k \in Nat /\ k <= pushed
        /\ Smaller(pushed, Smaller(Replayed, Capacity)) = k
    BY <1>0, StatusAssumption, CapacityAssumption DEF Smaller, TypeOK
  <2>2. replay' = [i \in 1..k |-> pushed - k + i]
    BY <1>0, <1>1, RingLatest, StatusAssumption
  <2> HIDE DEF k
  <2>3. since'[c] = pushed - k
    BY <1>0, <1>1, <1>2, <1>6, <2>1 DEF TypeOK
  <2>4. e \in (pushed - k + 1)..pushed
    BY <1>1, <2>3
  <2> DEFINE j == e - (pushed - k)
  <2>5. j \in 1..k /\ pushed - k + j = e
    BY <2>1, <2>4
  <2>6. j \in DOMAIN replay' /\ replay'[j] = e
    BY <2>2, <2>5
  <2> QED
    BY <1>1, <1>6, <2>6 DEF Reaches
<1>7. CASE c # serving
  <2>1. fd[c] \in Subscribed
    BY <1>0, <1>1, <1>2, <1>3, <1>5, <1>7 DEF ConnInv, FdInv
  <2>2. since'[c] = since[c]
    BY <1>0, <1>1, <1>5, <1>7 DEF TypeOK
  <2>3. Reaches(c, e)
    BY <1>0, <1>1, <1>5, <2>1, <2>2 DEF StreamInv
  <2> QED
    BY <1>1, <1>4, <2>3 DEF Reaches, Owes
<1> QED
  BY <1>6, <1>7

\* The replay is sent.
LEMMA StreamReplay ==
  ASSUME SocketInv, SendReplay
  PROVE  StreamInv'
<1>0. TypeOK /\ StreamInv
  BY DEF SocketInv
<1>1. /\ spc = "replay" /\ spc' = "sweep" /\ serving \in Clients
      /\ received' = IF hung[serving] THEN received
                     ELSE [received EXCEPT ![serving] = @ \o replay]
      /\ UNCHANGED <<conn, fd, hung, since, subscribers, pushed, ppc, event, next>>
  BY <1>0 DEF SendReplay, publisherVars, clientVars, TypeOK
<1> SUFFICES ASSUME NEW c \in Open', fd'[c] \in Subscribed', ~hung'[c],
                    NEW e \in (since'[c] + 1)..pushed'
             PROVE  Reaches(c, e)'
  BY DEF StreamInv
<1>2. c \in Open /\ c \in Clients /\ fd[c] \in Subscribed /\ ~hung[c]
  BY <1>1 DEF Open, Subscribed
<1>3. Reaches(c, e)
  BY <1>0, <1>1, <1>2 DEF StreamInv
<1>4. CASE \E p \in Publishers : event[p] = e /\ Owes(p, c)
  BY <1>1, <1>4 DEF Reaches, Owes
<1>5. CASE c # serving
  <2>1. received'[c] = received[c]
    BY <1>0, <1>1, <1>2, <1>5 DEF TypeOK
  <2> QED
    BY <1>1, <1>3, <1>5, <2>1 DEF Reaches, Owes
<1>6. CASE /\ c = serving
           /\ \/ \E i \in DOMAIN replay : replay[i] = e
              \/ \E i \in DOMAIN received[c] : received[c][i] = e
  <2> DEFINE s == received[c]
  <2>1. s \in Seq(Events) /\ replay \in Seq(Events) /\ received'[c] = s \o replay
    BY <1>0, <1>1, <1>2, <1>6 DEF TypeOK
  <2>2. \/ \E i \in DOMAIN replay : replay[i] = e
        \/ \E i \in DOMAIN s : s[i] = e
    BY <1>6
  <2> HIDE DEF s
  <2>3. \E i \in DOMAIN (s \o replay) : (s \o replay)[i] = e
    <3>1. /\ Len(s) \in Nat /\ Len(replay) \in Nat
          /\ DOMAIN s = 1..Len(s) /\ DOMAIN replay = 1..Len(replay)
          /\ DOMAIN (s \o replay) = 1..(Len(s) + Len(replay))
          /\ \A i \in 1..(Len(s) + Len(replay)) :
               (s \o replay)[i] = IF i <= Len(s) THEN s[i] ELSE replay[i - Len(s)]
      BY <2>1, ConcatProperties, LenProperties
    <3>2. CASE \E i \in DOMAIN s : s[i] = e
      <4>1. PICK i \in 1..Len(s) : s[i] = e
        BY <3>1, <3>2
      <4>2. i \in 1..(Len(s) + Len(replay)) /\ i <= Len(s)
        BY <3>1
      <4> QED
        BY <3>1, <4>1, <4>2
    <3>3. CASE \E i \in DOMAIN replay : replay[i] = e
      <4>1. PICK i \in 1..Len(replay) : replay[i] = e
        BY <3>1, <3>3
      <4> DEFINE m == Len(s) + i
      <4>2. m \in 1..(Len(s) + Len(replay)) /\ ~(m <= Len(s)) /\ m - Len(s) = i
        BY <3>1
      <4> HIDE DEF m
      <4>3. (s \o replay)[m] = replay[i]
        BY <3>1, <4>2
      <4> QED
        BY <3>1, <4>1, <4>2, <4>3
    <3> QED
      BY <2>2, <3>2, <3>3
  <2> QED
    BY <2>1, <2>3 DEF Reaches
<1> QED
  BY <1>3, <1>4, <1>5, <1>6 DEF Reaches

\* A publisher pushes, and owes its event to everyone.
LEMMA StreamPush ==
  ASSUME SocketInv, NEW p \in Publishers, Push(p)
  PROVE  StreamInv'
<1>0. TypeOK /\ StreamInv
  BY DEF SocketInv
<1>1. /\ ppc[p] = "idle" /\ pushed' = pushed + 1 /\ pushed \in Nat
      /\ event' = [event EXCEPT ![p] = pushed + 1]
      /\ ppc' = [ppc EXCEPT ![p] = "lock"]
      /\ UNCHANGED <<conn, fd, hung, since, received, subscribers, next, spc,
                     serving, replay>>
  BY <1>0, StatusAssumption DEF Push, serverVars, clientVars, sentVars, TypeOK
<1>2. /\ event'[p] = pushed + 1 /\ ppc'[p] = "lock"
      /\ \A q \in Publishers : q # p => event'[q] = event[q] /\ ppc'[q] = ppc[q]
  BY <1>0, <1>1 DEF TypeOK
<1> SUFFICES ASSUME NEW c \in Open', fd'[c] \in Subscribed', ~hung'[c],
                    NEW e \in (since'[c] + 1)..pushed'
             PROVE  Reaches(c, e)'
  BY DEF StreamInv
<1>3. /\ c \in Open /\ c \in Clients /\ fd[c] \in Subscribed /\ ~hung[c]
      /\ since[c] \in Nat
  BY <1>0, <1>1, StatusAssumption DEF Open, Subscribed, TypeOK
<1>4. CASE e = pushed + 1
  BY <1>2, <1>4 DEF Reaches, Owes
<1>5. CASE e # pushed + 1
  <2>1. e \in (since[c] + 1)..pushed
    BY <1>1, <1>3, <1>5
  <2>2. Reaches(c, e)
    BY <1>0, <1>3, <2>1 DEF StreamInv
  <2>3. ~Owes(p, c)
    BY <1>1 DEF Owes
  <2>4. \A q \in Publishers : q # p /\ Owes(q, c) => Owes(q, c)'
    BY <1>1, <1>2 DEF Owes
  <2> QED
    BY <1>1, <1>2, <2>2, <2>3, <2>4 DEF Reaches
<1> QED
  BY <1>4, <1>5

\* A publisher takes the mutex: every subscriber is before it.
LEMMA StreamLock ==
  ASSUME SocketInv, NEW p \in Publishers, LockList(p)
  PROVE  StreamInv'
<1>0. TypeOK /\ StreamInv
  BY DEF SocketInv
<1>1. /\ ppc[p] = "lock" /\ next' = [next EXCEPT ![p] = 1]
      /\ ppc' = [ppc EXCEPT ![p] = "send"]
      /\ UNCHANGED <<conn, fd, hung, since, received, subscribers, event, pushed,
                     spc, serving, replay>>
  BY DEF LockList, serverVars, clientVars, sentVars
<1>2. /\ next'[p] = 1 /\ ppc'[p] = "send"
      /\ \A q \in Publishers : q # p => next'[q] = next[q] /\ ppc'[q] = ppc[q]
  BY <1>0, <1>1 DEF TypeOK
<1> SUFFICES ASSUME NEW c \in Open', fd'[c] \in Subscribed', ~hung'[c],
                    NEW e \in (since'[c] + 1)..pushed'
             PROVE  Reaches(c, e)'
  BY DEF StreamInv
<1>3. c \in Open /\ fd[c] \in Subscribed /\ ~hung[c]
  BY <1>1 DEF Open, Subscribed
<1>4. Reaches(c, e)
  BY <1>0, <1>1, <1>3 DEF StreamInv
<1>5. \A q \in Publishers : Owes(q, c) => Owes(q, c)'
  <2>1. \E i \in DOMAIN subscribers : i >= 1 /\ subscribers[i] = fd[c]
    BY <1>0, <1>3 DEF Subscribed, TypeOK
  <2>2. Owes(p, c)'
    BY <1>1, <1>2, <2>1 DEF Owes
  <2>3. \A q \in Publishers : q # p /\ Owes(q, c) => Owes(q, c)'
    BY <1>1, <1>2 DEF Owes
  <2> QED
    BY <2>2, <2>3
<1> QED
  BY <1>1, <1>4, <1>5 DEF Reaches

\* The subscribers behind the erased one move up by one place.
LEMMA MoveUp ==
  ASSUME TypeOK, SubscribersLive, NEW i \in 1..Len(subscribers),
         NEW list, list = Erased(i),
         NEW k \in DOMAIN subscribers, k >= i, subscribers[k] # subscribers[i]
  PROVE  \E m \in DOMAIN list : m >= i /\ list[m] = subscribers[k]
<1>1. Len(subscribers) \in Nat /\ DOMAIN subscribers = 1..Len(subscribers)
  BY DEF TypeOK
<1>2. /\ list \in Seq(Fds) /\ Len(list) = Len(subscribers) - 1
      /\ \A m \in DOMAIN list :
           list[m] = IF m < i THEN subscribers[m] ELSE subscribers[m + 1]
  BY ErasedList
<1>3. DOMAIN list = 1..(Len(subscribers) - 1)
  BY <1>2
<1> DEFINE m == k - 1
<1>4. m \in DOMAIN list /\ m >= i /\ ~(m < i) /\ m + 1 = k
  BY <1>1, <1>3
<1> HIDE DEF m
<1> QED
  BY <1>2, <1>4

\* A publisher sends to one subscriber, or drops it.
LEMMA StreamSend ==
  ASSUME SocketInv, NEW p \in Publishers, Send(p)
  PROVE  StreamInv'
<1>0. TypeOK /\ StreamInv /\ LockInv /\ PassInv /\ ConnInv /\ SubscribersLive
  BY DEF SocketInv, ConnInv
<1>1. /\ ppc[p] = "send" /\ lock = p /\ next[p] \in 1..Len(subscribers)
      /\ UNCHANGED <<pushed, ppc, event, spc, serving, replay, request>>
  BY <1>0 DEF Send, serverVars, LockInv, PassInv, TypeOK
<1>2. spc # "replay" /\ \A q \in Publishers : q # p => ppc[q] # "send"
  BY <1>0, <1>1, StatusAssumption DEF LockInv
<1> DEFINE n == next[p]
<1> DEFINE c == Owner(subscribers[n])
<1>3. c \in Open /\ c \in Clients /\ fd[c] = subscribers[n]
  BY <1>0, <1>1, OwnerLive DEF TypeOK
<1>4. CASE Close({c}) /\ subscribers' = Erased(n) /\ UNCHANGED next
  <2>1. /\ \A d \in Open' : d \in Open /\ d # c /\ fd'[d] = fd[d]
        /\ Subscribed' \subseteq Subscribed
    BY <1>0, <1>1, <1>2, <1>4, DropStep
  <2> SUFFICES ASSUME NEW d \in Open', fd'[d] \in Subscribed', ~hung'[d],
                      NEW e \in (since'[d] + 1)..pushed'
               PROVE  Reaches(d, e)'
    BY DEF StreamInv
  <2>2. /\ d \in Open /\ d \in Clients /\ d # c /\ fd'[d] = fd[d]
        /\ fd[d] \in Subscribed
    BY <2>1 DEF Open
  <2>3. hung'[d] = hung[d] /\ since'[d] = since[d] /\ received'[d] = received[d]
    BY <1>4, <2>2 DEF Close, Reset
  <2>4. Reaches(d, e)
    BY <1>0, <1>1, <2>2, <2>3 DEF StreamInv
  <2>5. fd[d] # subscribers[n]
    BY <1>0, <1>3, <2>2 DEF ConnInv, FdInv
  <2>6. ASSUME Owes(p, d) PROVE Owes(p, d)'
    <3>1. PICK k \in DOMAIN subscribers : k >= n /\ subscribers[k] = fd[d]
      BY <1>1, <2>6 DEF Owes
    <3>2. \E m \in DOMAIN subscribers' : m >= n /\ subscribers'[m] = subscribers[k]
      BY <1>0, <1>1, <1>4, <2>5, <3>1, MoveUp
    <3> QED
      BY <1>1, <1>4, <2>2, <3>1, <3>2 DEF Owes
  <2>7. \A q \in Publishers : q # p /\ Owes(q, d) => Owes(q, d)'
    BY <1>1, <1>2 DEF Owes
  <2> QED
    BY <1>1, <1>2, <2>3, <2>4, <2>6, <2>7 DEF Reaches
<1>5. CASE /\ received' = [received EXCEPT ![c] = Append(@, event[p])]
           /\ next' = [next EXCEPT ![p] = @ + 1]
           /\ UNCHANGED <<conn, fd, subscribers, hung, data, stalled, since>>
  <2> SUFFICES ASSUME NEW d \in Open', fd'[d] \in Subscribed', ~hung'[d],
                      NEW e \in (since'[d] + 1)..pushed'
               PROVE  Reaches(d, e)'
    BY DEF StreamInv
  <2>1. d \in Open /\ d \in Clients /\ fd[d] \in Subscribed /\ ~hung[d]
    BY <1>5 DEF Open, Subscribed
  <2>2. Reaches(d, e)
    BY <1>0, <1>1, <1>5, <2>1 DEF StreamInv
  <2>3. /\ next'[p] = n + 1 /\ n \in Nat
        /\ \A q \in Publishers : q # p => next'[q] = next[q]
    BY <1>0, <1>5 DEF TypeOK
  <2>4. \A q \in Publishers : q # p /\ Owes(q, d) => Owes(q, d)'
    BY <1>1, <1>2 DEF Owes
  <2> HIDE DEF c, n
  <2>5. CASE d = c
    <3> DEFINE s == received[d]
    <3>1. s \in Seq(Events) /\ event[p] \in Events /\ received'[d] = Append(s, event[p])
      BY <1>0, <1>1, <1>5, <2>1, <2>5, StatusAssumption, SMTT(30) DEF TypeOK, PassInv, Events
    <3> HIDE DEF s
    <3>2. /\ Len(s) \in Nat /\ DOMAIN s = 1..Len(s)
          /\ DOMAIN received'[d] = 1..(Len(s) + 1)
          /\ \A i \in 1..Len(s) : received'[d][i] = s[i]
          /\ received'[d][Len(s) + 1] = event[p]
      BY <3>1
    <3>3. CASE e = event[p]
      <4>1. Len(s) + 1 \in DOMAIN received'[d]
        BY <3>2
      <4> QED
        BY <3>2, <3>3, <4>1 DEF Reaches
    <3>4. CASE \E i \in DOMAIN s : s[i] = e
      <4>1. PICK i \in 1..Len(s) : s[i] = e
        BY <3>2, <3>4
      <4>2. i \in DOMAIN received'[d] /\ received'[d][i] = e
        BY <3>2, <4>1
      <4> QED
        BY <4>2 DEF Reaches
    <3>5. CASE \E q \in Publishers : q # p /\ event[q] = e /\ Owes(q, d)
      BY <1>1, <2>4, <3>5 DEF Reaches
    <3> QED
      BY <1>2, <2>2, <3>3, <3>4, <3>5 DEF Reaches, s
  <2>6. CASE d # c
    <3>1. received'[d] = received[d]
      BY <1>0, <1>5, <2>1, <2>6 DEF TypeOK
    <3>2. fd[d] # subscribers[n]
      BY <1>0, <1>3, <2>1, <2>6 DEF ConnInv, FdInv
    <3>3. ASSUME Owes(p, d) PROVE Owes(p, d)'
      <4>1. PICK k \in DOMAIN subscribers : k >= n /\ subscribers[k] = fd[d]
        BY <1>1, <3>3 DEF Owes, n
      <4>2. k \in Nat /\ k >= n + 1
        BY <1>0, <2>3, <3>2, <4>1, SMTT(30) DEF TypeOK
      <4> QED
        BY <1>1, <1>5, <2>3, <4>1, <4>2 DEF Owes
    <3> QED
      BY <1>1, <1>2, <2>2, <2>4, <3>1, <3>3 DEF Reaches
  <2> QED
    BY <2>5, <2>6
<1> QED
  BY <1>4, <1>5 DEF Send

\* Every step keeps what each subscriber has coming.
LEMMA StreamStep ==
  SocketInv /\ [~killed /\ Next]_vars => StreamInv'
<1> SUFFICES ASSUME SocketInv, [~killed /\ Next]_vars PROVE StreamInv'
  OBVIOUS
<1>0. TypeOK /\ StreamInv /\ LockInv /\ PassInv /\ ConnInv
  BY DEF SocketInv, ConnInv
<1>1. CASE /\ UNCHANGED <<subscribers, pushed, publisherVars, fd, received, since>>
           /\ spc # "replay" \/ UNCHANGED <<spc, serving, replay>>
           /\ Open' = Open /\ \A c \in Open : hung[c] => hung'[c]
  BY <1>0, <1>1, StreamFrame
<1>2. CASE BuildSet \/ Select \/ Sweep \/ SweepEnds \/ HandleCommand \/ set_stop
  <2>1. UNCHANGED <<subscribers, pushed, publisherVars, fd, received, since,
                    conn, hung>>
    BY <1>2 DEF BuildSet, Select, Sweep, SweepEnds, HandleCommand, set_stop,
                clientVars, sentVars
  <2>2. spc # "replay" \/ UNCHANGED <<spc, serving, replay>>
    BY <1>2 DEF BuildSet, Select, Sweep, SweepEnds, HandleCommand, set_stop,
                serverVars
  <2> QED
    BY <1>1, <2>1, <2>2 DEF Open
<1>3. CASE Accept
  <2>1. /\ spc = "accept" /\ \A c \in Open : conn'[c] = conn[c] /\ fd'[c] = fd[c]
        /\ UNCHANGED <<subscribers, pushed, publisherVars, hung, received, since>>
    BY <1>0, <1>3 DEF Accept, clientVars, sentVars, Backlog, Open, TypeOK
  <2>2. \A c \in Open' : fd'[c] \in Subscribed' => c \in Open
    <3> SUFFICES ASSUME NEW c \in Open', c \notin Open
                 PROVE  fd'[c] \notin Subscribed
      BY <2>1 DEF Subscribed
    <3>1. FreeFds # {} /\ fd'[c] \in FreeFds
      <4> DEFINE n == CHOOSE n \in FreeFds : \A m \in FreeFds : n <= m
      <4>1. FreeFds # {}
        BY <1>3 DEF Accept, Open
      <4>2. PICK d \in Backlog : conn' = [conn EXCEPT ![d] = "open"]
                                 /\ fd' = [fd EXCEPT ![d] = n]
        BY <1>3, <4>1 DEF Accept
      <4>3. n \in FreeFds
        BY <4>1, LowestFd
      <4> HIDE DEF n
      <4>4. c = d /\ c \in Clients
        BY <1>0, <4>2 DEF Open, TypeOK
      <4> QED
        BY <1>0, <4>1, <4>2, <4>3, <4>4 DEF TypeOK
    <3> QED
      BY <1>0, <3>1 DEF ConnInv, SubscribersLive, FreeFds
  <2> QED
    BY <1>0, <2>1, <2>2, StreamFrame
<1>4. CASE Poll
  <2>1. it \in 1..Len(subscribers) /\ spc = "poll" /\ lock = "server"
    BY <1>0, <1>4 DEF PassInv, LockInv, Poll, TypeOK
  <2> DEFINE c == Owner(subscribers[it])
  <2>2. CASE Close({c}) /\ subscribers' = Erased(it)
    <3>1. \A p \in Publishers : ppc[p] # "send"
      BY <1>0, <2>1, StatusAssumption DEF LockInv
    <3>2. /\ UNCHANGED <<pushed, ppc, event, next, spc, serving, replay, request>>
      BY <1>4 DEF Poll, publisherVars
    <3>3. /\ \A d \in Open' : d \in Open /\ d # c /\ fd'[d] = fd[d]
          /\ Subscribed' \subseteq Subscribed
      BY <1>0, <2>1, <2>2, <3>2, DropStep
    <3> SUFFICES ASSUME NEW d \in Open', fd'[d] \in Subscribed', ~hung'[d],
                        NEW e \in (since'[d] + 1)..pushed'
                 PROVE  Reaches(d, e)'
      BY DEF StreamInv
    <3>4. /\ d \in Open /\ d \in Clients /\ d # c /\ fd'[d] = fd[d]
          /\ fd[d] \in Subscribed
      BY <3>3 DEF Open
    <3>5. hung'[d] = hung[d] /\ since'[d] = since[d] /\ received'[d] = received[d]
      BY <2>2, <3>4 DEF Close, Reset
    <3>6. Reaches(d, e)
      BY <1>0, <3>2, <3>4, <3>5 DEF StreamInv
    <3> QED
      BY <2>1, <3>1, <3>2, <3>5, <3>6 DEF Reaches, Owes
  <2>3. CASE UNCHANGED <<subscribers, conn, fd, hung, stalled, received, since>>
    <3>1. UNCHANGED <<pushed, publisherVars>>
      BY <1>4 DEF Poll
    <3> QED
      BY <1>1, <2>1, <2>3, <3>1 DEF Open
  <2> QED
    BY <1>4, <2>2, <2>3 DEF Poll
<1>5. CASE HandleNothing
  <2>1. UNCHANGED <<subscribers, pushed, publisherVars>> /\ spc = "handle"
    BY <1>5 DEF HandleNothing
  <2>2. \A c \in Open' : /\ c \in Open /\ fd'[c] = fd[c] /\ hung'[c] = hung[c]
                         /\ received'[c] = received[c] /\ since'[c] = since[c]
    BY <1>5 DEF HandleNothing, Close, Reset, Open
  <2> QED
    BY <1>0, <2>1, <2>2, StreamFrame
<1>6. CASE HandleSubscribe
  BY <1>6, StreamSubscribe
<1>7. CASE SendReplay
  BY <1>7, StreamReplay
<1>8. ASSUME NEW p \in Publishers, Push(p) PROVE StreamInv'
  BY <1>8, StreamPush
<1>9. ASSUME NEW p \in Publishers, LockList(p) PROVE StreamInv'
  BY <1>9, StreamLock
<1>10. ASSUME NEW p \in Publishers, Send(p) PROVE StreamInv'
  BY <1>10, StreamSend
<1>11. ASSUME NEW p \in Publishers, Published(p) PROVE StreamInv'
  <2>1. /\ ppc[p] = "send" /\ next[p] > Len(subscribers)
        /\ ppc' = [ppc EXCEPT ![p] = "idle"]
        /\ event' = [event EXCEPT ![p] = 0] /\ next' = [next EXCEPT ![p] = 0]
        /\ UNCHANGED <<conn, fd, hung, since, received, subscribers, pushed,
                       spc, serving, replay>>
    BY <1>11 DEF Published, serverVars, clientVars, sentVars
  <2>2. \A q \in Publishers : q # p => event'[q] = event[q] /\ ppc'[q] = ppc[q]
                                       /\ next'[q] = next[q]
    BY <1>0, <2>1 DEF TypeOK
  <2>3. \A c : ~Owes(p, c)
    BY <1>0, <2>1 DEF Owes, TypeOK
  <2>4. \A c : \A q \in Publishers : q # p /\ Owes(q, c) => Owes(q, c)'
    BY <2>1, <2>2 DEF Owes
  <2> SUFFICES ASSUME NEW c \in Open', fd'[c] \in Subscribed', ~hung'[c],
                      NEW e \in (since'[c] + 1)..pushed'
               PROVE  Reaches(c, e)'
    BY DEF StreamInv
  <2>5. c \in Open /\ fd[c] \in Subscribed /\ ~hung[c]
    BY <2>1 DEF Open, Subscribed
  <2>6. Reaches(c, e)
    BY <1>0, <2>1, <2>5 DEF StreamInv
  <2> QED
    BY <2>1, <2>2, <2>3, <2>4, <2>6 DEF Reaches
<1>12. ASSUME NEW c \in Clients, Client(c) PROVE StreamInv'
  <2>1. /\ UNCHANGED <<subscribers, pushed, publisherVars, fd, received, since>>
        /\ UNCHANGED <<spc, serving, replay>>
    BY <1>12 DEF Client, Connect, HangUp, Chatter, Stall, Resume,
                 clientUnchanged, serverVars, sentVars
  <2>2. Open' = Open /\ \A d \in Open : hung[d] => hung'[d]
    BY <1>0, <1>12, ZenonT(60) DEF Client, Connect, HangUp, Chatter, Stall, Resume, Open, TypeOK
  <2> QED
    BY <1>1, <2>1, <2>2
<1>13. CASE UNCHANGED vars
  BY <1>1, <1>13 DEF vars, serverVars, clientVars, sentVars, Open
<1> QED
  BY <1>2, <1>3, <1>4, <1>5, <1>6, <1>7, <1>8, <1>9, <1>10, <1>11, <1>12, <1>13
     DEF Next, Server, Publish

\* The invariant at the start.
LEMMA SocketInit == Init => SocketInv
<1> SUFFICES ASSUME Init PROVE SocketInv
  OBVIOUS
<1>1. Subscribed = {} /\ Open = {} /\ subscribers = <<>>
  BY DEF Init, Subscribed, Open
<1>2. ring = EmptyRing(0) /\ pushed = 0
  BY DEF Init
<1>3. /\ ring.head = 0 /\ ring.tail = 0 /\ ring.full = FALSE
      /\ ring \in Ring(0..MaxEvents)
  <2>1. 0 \in 0..MaxEvents /\ 0 \in 0..(Capacity - 1)
    BY StatusAssumption, CapacityAssumption
  <2> QED
    BY <1>2, <2>1 DEF EmptyRing, Ring
<1>4. RingInv
  BY <1>2, <1>3, CapacityAssumption DEF RingInv
<1>5. TypeOK
  <2>1. 0 \in 0..MaxEvents /\ 0 \in Nat
    BY StatusAssumption
  <2>2. <<>> \in Seq(Fds) /\ <<>> \in Seq(Events)
    OBVIOUS
  <2>3. spc \in {"top", "ended"}
    BY DEF Init
  <2>4. /\ hung \in [Clients -> BOOLEAN] /\ data \in [Clients -> BOOLEAN]
        /\ stalled \in [Clients -> BOOLEAN] /\ answered \in [Clients -> BOOLEAN]
        /\ stop_requested \in BOOLEAN /\ bound \in BOOLEAN /\ killed \in BOOLEAN
    BY DEF Init
  <2>5. /\ pushed \in 0..MaxEvents /\ subscribers \in Seq(Fds)
        /\ event \in [Publishers -> 0..MaxEvents] /\ next \in [Publishers -> Nat]
        /\ since \in [Clients -> 0..MaxEvents] /\ it \in Nat
        /\ received \in [Clients -> Seq(Events)] /\ replay \in Seq(Events)
    BY <2>1, <2>2 DEF Init
  <2>6. /\ lock \in {"free", "server"} \cup Publishers
        /\ watch \subseteq Fds /\ ready \subseteq Fds
        /\ serving \in Clients \cup {NoClient}
        /\ ppc \in [Publishers -> {"idle", "lock", "send"}]
        /\ conn \in [Clients -> {"none", "backlog", "open", "closed"}]
        /\ fd \in [Clients -> Fds \cup {0}]
        /\ request \in [Clients -> Requests]
    BY DEF Init, Requests
  <2> QED
    BY <1>3, <2>3, <2>4, <2>5, <2>6 DEF TypeOK
<1>6. LockInv /\ PassInv
  BY StatusAssumption DEF Init, LockInv, PassInv
<1>7. FdInv /\ ServingInv /\ SubscribersLive /\ StreamInv
  BY <1>1 DEF Init, FdInv, ServingInv, SubscribersLive, StreamInv
<1> QED
  BY <1>4, <1>5, <1>6, <1>7 DEF SocketInv

\* SocketInv holds in every state of the status socket.
THEOREM SocketInductive == Spec => []SocketInv
<1>1. SocketInv /\ [~killed /\ Next]_vars => SocketInv'
  BY TypeStep, RingStep, ControlStep, ConnStep, StreamStep DEF SocketInv, ConnInv
<1> QED
  BY <1>1, SocketInit, PTL DEF Spec

\* The variables of the server thread, the publishers and the connections keep
\* their types, the indices of the ring buffer stay within it, and
\* handle_client always has a connection.
THEOREM SocketTypes == Spec => []TypeOK
<1>1. SocketInv => TypeOK
  BY DEF SocketInv
<1> QED
  BY <1>1, SocketInductive, PTL

\* last_n returns the latest events in order, whatever the capacity and
\* however often push has wrapped around.
THEOREM RingStaysInOrder == Spec => []RingHoldsLatest
<1>1. SocketInv => RingHoldsLatest
  <2> SUFFICES ASSUME SocketInv, NEW n \in 0..(Capacity + 1)
               PROVE  LET k == Smaller(n, Smaller(pushed, Capacity))
                      IN  last_n(ring, n) = [i \in 1..k |-> pushed - k + i]
    BY DEF RingHoldsLatest
  <2>1. n \in Nat
    BY CapacityAssumption
  <2> QED
    BY <2>1, RingLatest DEF SocketInv
<1> QED
  BY <1>1, SocketInductive, PTL

\* The subscriber list never holds a closed or a reused number, nor one number
\* twice: the server's sweep and the publishers close and erase together.
THEOREM SubscribersStayLive == Spec => []SubscribersLive
<1>1. SocketInv => SubscribersLive
  BY DEF SocketInv
<1> QED
  BY <1>1, SocketInductive, PTL

\* No subscriber misses an event between its replay and the live stream, for
\* any number of publishers and subscribers.
THEOREM StreamIsComplete == Spec => []NoEventMissed
<1>1. SocketInv => NoEventMissed
  BY DEF SocketInv, StreamInv, NoEventMissed, Reaches
<1> QED
  BY <1>1, SocketInductive, PTL

-----------------------------------------------------------------------------
(* The process.                                                            *)

\* The heidi-kernel process, whose main thread starts the event loop, waits
\* for a signal and calls set_stop, drives the socket only as StatusSocket
\* allows: its behaviours are behaviours of the socket, and what is proved of
\* the socket holds in the process.
THEOREM KernelIsSocket == KernelSpec => Spec
<1>1. KernelInit => Init
  BY DEF KernelInit
<1>2. [KernelNext]_kernelVars => [~killed /\ Next]_vars
  BY DEF KernelNext, kernelVars, Main, StartLoop, StopLoop, StopServer, Exit,
         Signal, Worker, Socket, Outside, Next
<1> QED
  BY <1>1, <1>2, PTL DEF KernelSpec, Spec

=============================================================================
