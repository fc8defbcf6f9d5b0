----------------------- MODULE GroupPolicyStoreProofs -----------------------
(***************************************************************************)
(* The two tables of GroupPolicyStore, for every number of slots, every    *)
(* set of names, limits and processes: the counts agree with the slots,    *)
(* and the groups implement LruTable.                                      *)
(***************************************************************************)
EXTENDS GroupPolicyStore, FiniteSetTheorems, WellFoundedInduction, TLAPS

\* The groups as get_group finds them in the slots gs.
SlotsOf(gs, g) == {i \in InUse(gs) : gs[i].group_id = g}
NamesIn(gs) == {gs[i].group_id : i \in InUse(gs)}
TableOf(gs) ==
  [g \in NamesIn(gs) |->
     LET e == gs[Min(SlotsOf(gs, g))]
     IN [at |-> e.last_update_ns, value |-> e.limits]]

UsedGroup(t) == [in_use : {TRUE}, group_id : Names, limits : PolicyLimits,
                 last_update_ns : 0..t]
UsedPid(t) == [in_use : {TRUE}, group_id : Names, last_seen_ns : 0..t]

\* No name has two slots.
Unique(gs) ==
  \A i, k \in InUse(gs) : gs[i].group_id = gs[k].group_id => i = k

GroupTables(t) == [Slots -> {FreeGroup} \cup UsedGroup(t)]
PidTables(t) == [PidSlots -> {FreePid} \cup UsedPid(t)]

\* No slot but i has the name g.
OnlySlot(gs, i, g) == \A k \in InUse(gs) : gs[k].group_id = g => k = i

\* The names, and the table by name, when slot i of gs is written for g.
NamesAfter(gs, i, g) == {gs[k].group_id : k \in InUse(gs) \ {i}} \cup {g}
TableAfter(gs, i, g, l, u) ==
  [q \in NamesAfter(gs, i, g) |->
     IF q = g THEN [at |-> u, value |-> l] ELSE TableOf(gs)[q]]
Written(gs, i, g, l, u) == [gs EXCEPT ![i] = GroupEntry(g, l, u)]
Mapped(tb, i, g, u) == [tb EXCEPT ![i] = PidEntry(g, u)]

GroupInv == TypeOK /\ CountsAgree /\ Unique(groups)

-----------------------------------------------------------------------------
(* Slots.                                                                  *)

\* A set of slots that is not empty has a first one.
LEMMA FirstSlot ==
  ASSUME NEW S, S \subseteq Nat, S # {}
  PROVE  Min(S) \in S
<1> DEFINE R == OpToRel(<, Nat)
<1>1. \A x, y \in Nat : x < y => <<x, y>> \in R
  BY DEF OpToRel
<1>2. IsWellFoundedOn(R, Nat)
  BY NatLessThanWellFounded, Zenon
<1> HIDE DEF R
<1>3. PICK x \in S : \A y \in S : ~ (<<y, x>> \in R)
  BY <1>2, WFMin
<1>4. \A y \in S : ~(y < x)
  BY <1>1, <1>3, Zenon
<1>5. \A y \in S : x <= y
  BY <1>4
<1> QED
  BY <1>5 DEF Min

\* The tables have as many slots as their sizes say.
LEMMA FiniteSlots ==
  /\ IsFiniteSet(Slots) /\ Cardinality(Slots) = kMaxGroups
  /\ IsFiniteSet(PidSlots) /\ Cardinality(PidSlots) = kMaxPidGroupMap
  /\ Slots \subseteq Nat /\ PidSlots \subseteq Nat
BY StoreAssumption, FS_Interval, SMTT(30) DEF Slots, PidSlots

\* Counting: a free slot that is filled adds one, a used one that is filled
\* again adds none, and the count never exceeds the number of slots.
LEMMA CountSlots ==
  ASSUME NEW D, IsFiniteSet(D), NEW U \in SUBSET D, NEW i \in D
  PROVE  /\ Cardinality(U) \in 0..Cardinality(D)
         /\ Cardinality(U \cup {i}) \in 0..Cardinality(D)
         /\ i \in U => U \cup {i} = U
         /\ i \notin U => Cardinality(U \cup {i}) = Cardinality(U) + 1
         /\ D \ U = {} => Cardinality(U) = Cardinality(D)
<1>1. IsFiniteSet(U) /\ U \cup {i} \in SUBSET D
  BY FS_Subset
<1>2. /\ Cardinality(U) <= Cardinality(D) /\ Cardinality(U \cup {i}) <= Cardinality(D)
      /\ IsFiniteSet(U \cup {i})
  BY <1>1, FS_Subset
<1>3. Cardinality(U) \in Nat /\ Cardinality(U \cup {i}) \in Nat /\ Cardinality(D) \in Nat
  BY <1>1, <1>2, FS_CardinalityType
<1>4. i \notin U => Cardinality(U \cup {i}) = Cardinality(U) + 1
  BY <1>1, FS_AddElement
<1>5. D \ U = {} => U = D
  OBVIOUS
<1> QED
  BY <1>2, <1>3, <1>4, <1>5

\* The limits of an upsert merged into a policy's limits make a policy's
\* limits.
LEMMA LimitTypes ==
  /\ NoLimits \in PolicyLimits
  /\ \A old \in PolicyLimits, new \in Limits : Merge(old, new) \in PolicyLimits
<1>1. NoLimits \in [{} -> FieldValues]
  BY DEF NoLimits
<1>2. ASSUME NEW old \in PolicyLimits, NEW new \in Limits
      PROVE  Merge(old, new) \in PolicyLimits
  <2>1. PICK F \in SUBSET FieldNames : old \in [F -> FieldValues]
    BY DEF PolicyLimits
  <2>2. DOMAIN new \subseteq FieldNames /\ \A f \in DOMAIN new : new[f] \in FieldValues
    BY DEF FieldNames, FieldValues
  <2>3. Merge(old, new) \in [F \cup DOMAIN new -> FieldValues]
    BY <2>1, <2>2 DEF Merge
  <2> QED
    BY <2>1, <2>2, <2>3 DEF PolicyLimits
<1> QED
  BY <1>1, <1>2 DEF PolicyLimits

\* A slot of pid_map is filled.
LEMMA PidChange ==
  ASSUME NEW t, NEW tb \in PidTables(t),
         NEW i \in PidSlots, NEW g \in Names, t \in Nat,
         NEW nt, nt = Mapped(tb, i, g, t)
  PROVE  /\ nt \in PidTables(t)
         /\ InUse(nt) = InUse(tb) \cup {i}
         /\ InUse(tb) \subseteq PidSlots
<1>1. PidEntry(g, t) \in UsedPid(t)
  BY DEF PidEntry, UsedPid
<1>2. FreePid.in_use = FALSE /\ \A x \in UsedPid(t) : x.in_use = TRUE
  BY DEF FreePid, UsedPid
<1> QED
  BY <1>1, <1>2 DEF InUse, PidTables, Mapped

-----------------------------------------------------------------------------
(* The groups as a table by name.                                          *)

\* A name in use has one slot.
LEMMA OneSlot ==
  ASSUME NEW gs, Unique(gs), NEW i \in InUse(gs), i \in Nat
  PROVE  SlotsOf(gs, gs[i].group_id) = {i} /\ Min({i}) = i
<1>1. SlotsOf(gs, gs[i].group_id) = {i}
  BY DEF SlotsOf, Unique
<1> QED
  BY <1>1 DEF Min

\* The entry get_group finds for a name is that of its slot.
LEMMA TableAt ==
  ASSUME NEW gs, Unique(gs), NEW i \in InUse(gs), i \in Nat
  PROVE  /\ gs[i].group_id \in NamesIn(gs)
         /\ TableOf(gs)[gs[i].group_id] =
              [at |-> gs[i].last_update_ns, value |-> gs[i].limits]
<1>1. gs[i].group_id \in NamesIn(gs)
  BY DEF NamesIn
<1> QED
  BY <1>1, OneSlot DEF TableOf

\* A slot is given a name that no other slot has.  The table gains that name
\* or updates it, loses the name the slot had before, and stays the same
\* everywhere else.
LEMMA TableChange ==
  ASSUME NEW t, NEW gs \in GroupTables(t), Unique(gs),
         NEW i \in Slots, NEW g \in Names, NEW l \in PolicyLimits, NEW u \in 0..t,
         OnlySlot(gs, i, g),
         NEW hs, hs = Written(gs, i, g, l, u)
  PROVE  /\ hs \in GroupTables(t)
         /\ Unique(hs)
         /\ InUse(hs) = InUse(gs) \cup {i}
         /\ NamesIn(hs) = NamesAfter(gs, i, g)
         /\ TableOf(hs) = TableAfter(gs, i, g, l, u)
<1> USE DEF GroupTables, OnlySlot, NamesAfter, TableAfter, Written
<1> DEFINE e == GroupEntry(g, l, u)
<1>1. /\ e \in UsedGroup(t) /\ e.group_id = g /\ e.limits = l
      /\ e.last_update_ns = u
  BY DEF GroupEntry, UsedGroup
<1>2. FreeGroup.in_use = FALSE /\ \A x \in UsedGroup(t) : x.in_use = TRUE
  BY DEF FreeGroup, UsedGroup
<1> HIDE DEF e
<1>3. /\ hs \in [Slots -> {FreeGroup} \cup UsedGroup(t)]
      /\ InUse(hs) = InUse(gs) \cup {i} /\ InUse(gs) \subseteq Slots
      /\ \A k \in InUse(gs) : gs[k] \in UsedGroup(t)
  <2>1. e \in UsedGroup(t)
    BY <1>1
  <2>2. hs = [gs EXCEPT ![i] = e]
    BY DEF e
  <2> DEFINE Used == UsedGroup(t)
  <2> DEFINE Free == FreeGroup
  <2>3. /\ Free.in_use = FALSE /\ \A x \in Used : x.in_use = TRUE
        /\ gs \in [Slots -> {Free} \cup Used] /\ e \in Used
    BY <1>2, <2>1
  <2> HIDE DEF Used, Free
  <2>4. /\ InUse(hs) = InUse(gs) \cup {i} /\ InUse(gs) \subseteq Slots
        /\ hs \in [Slots -> {Free} \cup Used]
        /\ \A k \in InUse(gs) : gs[k] \in Used
    BY <2>2, <2>3 DEF InUse
  <2> QED
    BY <2>4, Zenon DEF Used, Free
<1>4. hs[i] = e /\ \A k \in InUse(gs) \ {i} : hs[k] = gs[k]
  BY <1>3 DEF e
<1>5. Unique(hs)
  BY <1>1, <1>3, <1>4 DEF Unique
<1>6. NamesIn(hs) = {gs[k].group_id : k \in InUse(gs) \ {i}} \cup {g}
  <2> DEFINE rest == {gs[k].group_id : k \in InUse(gs) \ {i}}
  <2>1. \A k \in InUse(hs) : hs[k].group_id \in rest \cup {g}
    BY <1>1, <1>3, <1>4
  <2>2. \A k \in InUse(gs) \ {i} : gs[k].group_id \in NamesIn(hs)
    BY <1>3, <1>4 DEF NamesIn
  <2>3. g \in NamesIn(hs)
    BY <1>1, <1>3, <1>4 DEF NamesIn
  <2>4. NamesIn(hs) \subseteq rest \cup {g}
    BY <2>1 DEF NamesIn
  <2>5. rest \cup {g} \subseteq NamesIn(hs)
    BY <2>2, <2>3
  <2> QED
    BY <2>4, <2>5
<1>7. ASSUME NEW q \in NamesIn(hs)
      PROVE  TableOf(hs)[q] = IF q = g THEN [at |-> u, value |-> l]
                              ELSE TableOf(gs)[q]
  <2>1. PICK k \in InUse(hs) : q = hs[k].group_id
    BY DEF NamesIn
  <2>2. k \in Nat
    BY <1>3, FiniteSlots
  <2>3. TableOf(hs)[q] = [at |-> hs[k].last_update_ns, value |-> hs[k].limits]
    BY <1>5, <2>1, <2>2, TableAt, ZenonT(60)
  <2>4. CASE k = i
    BY <1>1, <1>4, <2>1, <2>3, <2>4
  <2>5. CASE k # i
    <3>1. k \in InUse(gs) /\ hs[k] = gs[k] /\ q # g
      BY <1>3, <1>4, <2>1, <2>5
    <3>2. TableOf(gs)[q] = [at |-> gs[k].last_update_ns, value |-> gs[k].limits]
      BY <2>1, <2>2, <3>1, TableAt
    <3> QED
      BY <2>3, <3>1, <3>2
  <2> QED
    BY <2>4, <2>5
<1>8. TableOf(hs) = [q \in NamesIn(hs) |-> TableOf(hs)[q]]
  BY DEF TableOf
<1> QED
  BY <1>3, <1>5, <1>6, <1>7, <1>8

\* As many names as slots in use.
LEMMA NamesCount ==
  ASSUME NEW gs, Unique(gs), IsFiniteSet(InUse(gs))
  PROVE  Cardinality(NamesIn(gs)) = Cardinality(InUse(gs))
<1> DEFINE f == [i \in InUse(gs) |-> gs[i].group_id]
<1>1. f \in Injection(InUse(gs), NamesIn(gs)) /\ f \in Surjection(InUse(gs), NamesIn(gs))
  BY DEF Injection, Surjection, IsInjective, NamesIn, Unique
<1>2. Cardinality(NamesIn(gs)) = Cardinality(InUse(gs))
  BY <1>1, FS_Surjection
<1> QED
  BY <1>2

\* The refinement mapping is that table.
LEMMA MappedTable ==
  GroupTable = TableOf(groups) /\ GroupTable' = TableOf(groups')
  /\ Known = NamesIn(groups) /\ DOMAIN TableOf(groups) = NamesIn(groups)
BY DEF GroupTable, TableOf, Known, NamesIn, Found, SlotsOf

-----------------------------------------------------------------------------
(* The invariant.                                                          *)

\* The slots and the counts at the start.
LEMMA GroupInit == Init => GroupInv
<1> SUFFICES ASSUME Init PROVE GroupInv
  OBVIOUS
<1>1. InUse(groups) = {} /\ InUse(pid_map) = {}
  BY DEF Init, InUse, FreeGroup, FreePid
<1>2. CountsAgree
  BY <1>1, FS_EmptySet DEF Init, CountsAgree
<1>3. Unique(groups)
  BY <1>1 DEF Unique
<1>4. TypeOK
  BY StoreAssumption DEF Init, TypeOK, NoEvictions
<1> QED
  BY <1>2, <1>3, <1>4 DEF GroupInv

\* What the invariant says of the slots.
LEMMA GroupSlots ==
  ASSUME GroupInv
  PROVE  /\ groups \in GroupTables(now)
         /\ pid_map \in PidTables(now)
         /\ InUse(groups) \subseteq Slots /\ InUse(pid_map) \subseteq PidSlots
         /\ FreeSlots(groups) = Slots \ InUse(groups)
         /\ FreeSlots(pid_map) = PidSlots \ InUse(pid_map)
         /\ \A k \in InUse(groups) : groups[k] \in UsedGroup(now)
         /\ Unique(groups) /\ now \in Nat /\ now \in 0..now
         /\ group_count = Cardinality(InUse(groups))
         /\ pid_map_count = Cardinality(InUse(pid_map))
<1>1. /\ groups \in [Slots -> {FreeGroup} \cup UsedGroup(now)]
      /\ pid_map \in [PidSlots -> {FreePid} \cup UsedPid(now)]
      /\ now \in Nat /\ now \in 0..now
  <2>1. /\ groups \in [Slots -> {FreeGroup} \cup UsedGroup(now)]
        /\ pid_map \in [PidSlots -> {FreePid} \cup UsedPid(now)]
    BY Zenon DEF GroupInv, TypeOK, UsedGroup, UsedPid
  <2>2. now \in 0..MaxTime
    BY DEF GroupInv, TypeOK
  <2> QED
    BY <2>1, <2>2, StoreAssumption
<1>2. FreeGroup.in_use = FALSE /\ FreePid.in_use = FALSE
  BY DEF FreeGroup, FreePid
<1>3. /\ InUse(groups) \subseteq Slots /\ InUse(pid_map) \subseteq PidSlots
      /\ FreeSlots(groups) = Slots \ InUse(groups)
      /\ FreeSlots(pid_map) = PidSlots \ InUse(pid_map)
      /\ \A k \in InUse(groups) : groups[k] \in UsedGroup(now)
  BY <1>1, <1>2 DEF InUse, FreeSlots
<1> QED
  BY <1>1, <1>3 DEF GroupInv, CountsAgree, GroupTables, PidTables

\* UpdateGroup fills the one slot that has the name.
LEMMA UpdateSlot ==
  ASSUME GroupInv, NEW g \in Names, NEW l \in Limits, UpdateGroup(g, l)
  PROVE  \E i \in Slots :
           \E m \in PolicyLimits :
             /\ i \in InUse(groups) /\ groups[i].group_id = g
             /\ OnlySlot(groups, i, g) /\ groups' = Written(groups, i, g, m, now)
<1> DEFINE i == Min(Found(g))
<1> DEFINE m == Merge(groups[i].limits, l)
<1>1. Found(g) \subseteq InUse(groups) /\ Found(g) # {}
  BY DEF UpdateGroup, Found
<1>2. Found(g) \subseteq Nat
  BY <1>1, GroupSlots, FiniteSlots
<1>3. i \in Found(g)
  BY <1>1, <1>2, FirstSlot
<1>4. i \in InUse(groups) /\ groups[i].group_id = g /\ i \in Slots
  BY <1>1, <1>3, GroupSlots DEF Found
<1>5. m \in PolicyLimits
  BY <1>4, GroupSlots, LimitTypes DEF UsedGroup
<1>6. groups' = Written(groups, i, g, m, now)
  BY DEF UpdateGroup, Written
<1> HIDE DEF i, m
<1>7. OnlySlot(groups, i, g)
  BY <1>4, GroupSlots DEF Unique, OnlySlot
<1> QED
  BY <1>4, <1>5, <1>6, <1>7

\* InsertGroup fills a free slot.
LEMMA InsertSlot ==
  ASSUME GroupInv, NEW g \in Names, InsertGroup(g)
  PROVE  \E i \in Slots :
           /\ i \notin InUse(groups)
           /\ OnlySlot(groups, i, g)
           /\ groups' = Written(groups, i, g, NoLimits, now)
<1>1. FreeSlots(groups) # {} /\ FreeSlots(groups) \subseteq Nat
  BY GroupSlots, FiniteSlots DEF InsertGroup
<1>2. Min(FreeSlots(groups)) \in FreeSlots(groups)
  BY <1>1, FirstSlot
<1>3. Min(FreeSlots(groups)) \in Slots \ InUse(groups)
  BY <1>2, GroupSlots
<1> QED
  BY <1>3 DEF InsertGroup, Written, OnlySlot, Found

\* EvictGroup writes a slot in use, one updated longest ago, of a full table.
LEMMA EvictSlot ==
  ASSUME GroupInv, NEW g \in Names, EvictGroup(g)
  PROVE  /\ InUse(groups) = Slots /\ group_count = kMaxGroups
         /\ group_count' = group_count
         /\ stats' \in [group_evictions : 0..MaxEvictions,
                        pidmap_evictions : 0..MaxEvictions]
         /\ \E i \in Slots :
              /\ OldestGroup(i) /\ OnlySlot(groups, i, g)
              /\ groups' = Written(groups, i, g, NoLimits, now)
<1>1. InUse(groups) = Slots
  BY GroupSlots DEF EvictGroup
<1>2. group_count = kMaxGroups /\ group_count \in Nat /\ group_count > 0
  BY <1>1, GroupSlots, FiniteSlots, StoreAssumption
<1>3. group_count' = group_count
  BY <1>2 DEF EvictGroup, CountAfterEviction
<1>4. stats' \in [group_evictions : 0..MaxEvictions,
                  pidmap_evictions : 0..MaxEvictions]
  BY StoreAssumption DEF EvictGroup, GroupInv, TypeOK
<1>5. PICK i \in Slots : OldestGroup(i) /\ groups' = Written(groups, i, g, NoLimits, now)
  BY DEF EvictGroup, Written
<1>6. OnlySlot(groups, i, g)
  BY DEF EvictGroup, Found, OnlySlot
<1> QED
  BY <1>1, <1>2, <1>3, <1>4, <1>5, <1>6

\* A step of upsert_group leaves one more name, or another one, in the table,
\* and the invariant is kept.
LEMMA UpsertStep ==
  ASSUME GroupInv, NEW g \in Names, NEW i \in Slots, NEW l \in PolicyLimits,
         OnlySlot(groups, i, g), groups' = Written(groups, i, g, l, now),
         now' = now, UNCHANGED pidVars,
         stats' \in [group_evictions : 0..MaxEvictions,
                     pidmap_evictions : 0..MaxEvictions],
         group_count' = IF i \in InUse(groups) THEN group_count
                        ELSE group_count + 1
  PROVE  /\ GroupInv'
         /\ NamesIn(groups') = NamesAfter(groups, i, g)
         /\ TableOf(groups') = TableAfter(groups, i, g, l, now)
<1>1. /\ groups' \in GroupTables(now)
      /\ Unique(groups') /\ InUse(groups') = InUse(groups) \cup {i}
      /\ NamesIn(groups') = NamesAfter(groups, i, g)
      /\ TableOf(groups') = TableAfter(groups, i, g, l, now)
  BY GroupSlots, TableChange
<1>2. group_count' = Cardinality(InUse(groups')) /\ group_count' \in 0..kMaxGroups
  <2> DEFINE U == InUse(groups)
  <2>1. /\ IsFiniteSet(Slots) /\ U \in SUBSET Slots /\ Cardinality(Slots) = kMaxGroups
        /\ group_count = Cardinality(U) /\ InUse(groups') = U \cup {i}
    BY <1>1, GroupSlots, FiniteSlots
  <2> HIDE DEF U
  <2>2. /\ Cardinality(U \cup {i}) \in 0..kMaxGroups
        /\ i \in U => U \cup {i} = U
        /\ i \notin U => Cardinality(U \cup {i}) = Cardinality(U) + 1
    BY <2>1, CountSlots
  <2>3. group_count' = IF i \in U THEN group_count ELSE group_count + 1
    BY DEF U
  <2> QED
    BY <2>1, <2>2, <2>3
<1>3. CountsAgree'
  BY <1>2 DEF GroupInv, CountsAgree, pidVars
<1>4. TypeOK'
  BY <1>1, <1>2 DEF GroupInv, TypeOK, pidVars, UsedGroup, GroupTables
<1> QED
  BY <1>1, <1>3, <1>4 DEF GroupInv, Unique, InUse

\* A step of map_pid_to_group that writes slot i of pid_map.
LEMMA MapStep ==
  ASSUME GroupInv, NEW g \in Names, NEW i \in PidSlots,
         pid_map' = Mapped(pid_map, i, g, now),
         now' = now, UNCHANGED groupVars,
         stats' \in [group_evictions : 0..MaxEvictions,
                     pidmap_evictions : 0..MaxEvictions],
         pid_map_count' = IF i \in InUse(pid_map) THEN pid_map_count
                          ELSE pid_map_count + 1
  PROVE  GroupInv'
<1>1. /\ pid_map' \in PidTables(now)
      /\ InUse(pid_map') = InUse(pid_map) \cup {i}
  BY GroupSlots, PidChange
<1>2. /\ pid_map_count' = Cardinality(InUse(pid_map'))
      /\ pid_map_count' \in 0..kMaxPidGroupMap
  <2> DEFINE U == InUse(pid_map)
  <2>1. /\ IsFiniteSet(PidSlots) /\ U \in SUBSET PidSlots
        /\ Cardinality(PidSlots) = kMaxPidGroupMap
        /\ pid_map_count = Cardinality(U) /\ InUse(pid_map') = U \cup {i}
    BY <1>1, GroupSlots, FiniteSlots
  <2> HIDE DEF U
  <2>2. /\ Cardinality(U \cup {i}) \in 0..kMaxPidGroupMap
        /\ i \in U => U \cup {i} = U
        /\ i \notin U => Cardinality(U \cup {i}) = Cardinality(U) + 1
    BY <2>1, CountSlots
  <2>3. pid_map_count' = IF i \in U THEN pid_map_count ELSE pid_map_count + 1
    BY DEF U
  <2> QED
    BY <2>1, <2>2, <2>3
<1>3. CountsAgree'
  BY <1>2 DEF GroupInv, CountsAgree, groupVars
<1>4. TypeOK'
  BY <1>1, <1>2 DEF GroupInv, TypeOK, groupVars, UsedPid, PidTables
<1>5. Unique(groups)'
  BY DEF GroupInv, Unique, InUse, groupVars
<1> QED
  BY <1>3, <1>4, <1>5 DEF GroupInv

\* Every step keeps the invariant.
LEMMA GroupStep == GroupInv /\ [Next]_vars => GroupInv'
<1> SUFFICES ASSUME GroupInv, [Next]_vars PROVE GroupInv'
  OBVIOUS
<1> DEFINE Counters == [group_evictions : 0..MaxEvictions,
                        pidmap_evictions : 0..MaxEvictions]
<1>1. stats \in Counters
  BY DEF GroupInv, TypeOK
<1>2. ASSUME NEW g \in Names, NEW l \in Limits, UpdateGroup(g, l)
      PROVE  GroupInv'
  <2>1. PICK i \in Slots : \E m \in PolicyLimits :
          /\ i \in InUse(groups)
          /\ OnlySlot(groups, i, g) /\ groups' = Written(groups, i, g, m, now)
    BY <1>2, UpdateSlot
  <2> QED
    BY <1>1, <1>2, <2>1, UpsertStep DEF UpdateGroup
<1>3. ASSUME NEW g \in Names, InsertGroup(g)
      PROVE  GroupInv'
  <2>1. PICK i \in Slots :
          /\ i \notin InUse(groups) /\ OnlySlot(groups, i, g)
          /\ groups' = Written(groups, i, g, NoLimits, now)
    BY <1>3, InsertSlot
  <2> QED
    BY <1>1, <1>3, <2>1, LimitTypes, UpsertStep DEF InsertGroup
<1>4. ASSUME NEW g \in Names, EvictGroup(g)
      PROVE  GroupInv'
  <2>1. PICK i \in Slots :
          /\ OnlySlot(groups, i, g)
          /\ groups' = Written(groups, i, g, NoLimits, now)
    BY <1>4, EvictSlot
  <2>2. i \in InUse(groups) /\ group_count' = group_count /\ stats' \in Counters
    BY <1>4, EvictSlot
  <2> QED
    BY <1>4, <2>1, <2>2, LimitTypes, UpsertStep DEF EvictGroup
<1>5. ASSUME NEW p \in Pids, NEW g \in Names, TouchPid(p, g)
      PROVE  GroupInv'
  <2>1. Cut[g] \in Names /\ p \in PidSlots
    BY <1>5, StoreAssumption, GroupSlots DEF TouchPid
  <2> QED
    BY <1>1, <1>5, <2>1, MapStep DEF TouchPid, Mapped
<1>6. ASSUME NEW p \in Pids, NEW g \in Names, InsertPid(p, g)
      PROVE  GroupInv'
  <2> DEFINE i == Min(FreeSlots(pid_map))
  <2>1. FreeSlots(pid_map) # {} /\ FreeSlots(pid_map) \subseteq Nat
    BY <1>6, GroupSlots, FiniteSlots DEF InsertPid
  <2>2. i \in PidSlots /\ i \notin InUse(pid_map) /\ Cut[g] \in Names
    BY <2>1, FirstSlot, GroupSlots, StoreAssumption
  <2>3. /\ pid_map' = Mapped(pid_map, i, Cut[g], now)
        /\ pid_map_count' = pid_map_count + 1
        /\ UNCHANGED <<groupVars, stats, now>>
    BY <1>6 DEF InsertPid, Mapped
  <2> HIDE DEF i
  <2> QED
    BY <1>1, <2>2, <2>3, MapStep
<1>7. ASSUME NEW p \in Pids, NEW g \in Names, EvictPid(p, g)
      PROVE  GroupInv'
  <2>1. PICK i \in PidSlots : pid_map' = Mapped(pid_map, i, Cut[g], now)
    BY <1>7 DEF EvictPid, Mapped
  <2>2. i \in InUse(pid_map) /\ Cut[g] \in Names
    BY <1>7, GroupSlots, StoreAssumption DEF EvictPid
  <2>3. pid_map_count = kMaxPidGroupMap
    BY <1>7, GroupSlots, FiniteSlots DEF EvictPid
  <2>4. pid_map_count' = pid_map_count
    BY <1>7, <2>3, StoreAssumption DEF EvictPid, CountAfterEviction
  <2>5. stats' \in Counters
    BY <1>1, <1>7, StoreAssumption DEF EvictPid
  <2> QED
    BY <1>7, <2>1, <2>2, <2>4, <2>5, MapStep DEF EvictPid
<1>8. CASE clear
  <2>1. InUse(groups') = {} /\ InUse(pid_map') = {}
    BY <1>8 DEF clear, InUse, FreeGroup, FreePid
  <2>2. CountsAgree'
    BY <1>8, <2>1, FS_EmptySet DEF clear, CountsAgree
  <2>3. Unique(groups)'
    BY <2>1 DEF Unique, InUse
  <2>4. TypeOK'
    BY <1>8, StoreAssumption DEF clear, GroupInv, TypeOK, NoEvictions
  <2> QED
    BY <2>2, <2>3, <2>4 DEF GroupInv
<1>9. CASE tick
  <2>1. now \in 0..MaxTime /\ now' \in 0..MaxTime /\ 0..now \subseteq 0..now'
    BY <1>9, StoreAssumption DEF tick, GroupInv, TypeOK
  <2>2. UsedGroup(now) \subseteq UsedGroup(now') /\ UsedPid(now) \subseteq UsedPid(now')
    BY <2>1 DEF UsedGroup, UsedPid
  <2>3. /\ groups' \in [Slots -> {FreeGroup} \cup UsedGroup(now')]
        /\ pid_map' \in [PidSlots -> {FreePid} \cup UsedPid(now')]
    BY <1>9, <2>2, GroupSlots DEF tick, groupVars, pidVars, GroupTables, PidTables
  <2>4. TypeOK'
    BY <1>9, <2>1, <2>3 DEF tick, groupVars, pidVars, GroupInv, TypeOK, UsedGroup, UsedPid
  <2> QED
    BY <1>9, <2>4 DEF tick, groupVars, pidVars, GroupInv, CountsAgree, Unique, InUse
<1>10. CASE UNCHANGED vars
  BY <1>10 DEF vars, groupVars, pidVars, GroupInv, TypeOK, CountsAgree, Unique, InUse
<1> QED
  BY <1>2, <1>3, <1>4, <1>5, <1>6, <1>7, <1>8, <1>9, <1>10
     DEF Next, upsert_group, map_pid_to_group

\* GroupInv holds in every state the store reaches.
THEOREM GroupInductive == Spec => []GroupInv
<1> QED
  BY GroupInit, GroupStep, PTL DEF Spec

\* Every slot of both tables is free or holds a complete entry whose time is
\* not in the future, and the counters stay within their tables: upsert_group,
\* map_pid_to_group and clear never leave a slot half written.
THEOREM GroupTypes == Spec => []TypeOK
<1>1. GroupInv => TypeOK
  BY DEF GroupInv
<1> QED
  BY <1>1, GroupInductive, PTL

\* get_stats reports as many groups and as many processes as there are slots
\* in use, through every insertion, eviction and clear.
THEOREM CountsStayRight == Spec => []CountsAgree
<1>1. GroupInv => CountsAgree
  BY DEF GroupInv
<1> QED
  BY <1>1, GroupInductive, PTL

-----------------------------------------------------------------------------
(* The refinement.  The table by name is empty at the start, and each step *)
(* is one of LruTable's or leaves the table and the clock alone.           *)

\* No slot is in use at the start.
LEMMA LruInit == Init => Lru!Init
<1> SUFFICES ASSUME Init PROVE Lru!Init
  OBVIOUS
<1>1. NamesIn(groups) = {} /\ now \in Nat
  BY DEF Init, NamesIn, InUse, FreeGroup
<1>2. GroupTable = [k \in {} |-> NoLimits]
  BY <1>1, MappedTable DEF TableOf
<1> QED
  BY <1>1, <1>2 DEF Lru!Init

\* The names in use are as many as group_count says.
LEMMA NamesKnown ==
  ASSUME GroupInv
  PROVE  /\ DOMAIN GroupTable = NamesIn(groups)
         /\ Cardinality(NamesIn(groups)) = group_count
         /\ NamesIn(groups) \subseteq Names
<1>1. IsFiniteSet(InUse(groups))
  BY GroupSlots, FiniteSlots, FS_Subset
<1>2. Cardinality(NamesIn(groups)) = group_count
  BY <1>1, GroupSlots, NamesCount
<1>3. NamesIn(groups) \subseteq Names
  BY GroupSlots DEF NamesIn, UsedGroup
<1> QED
  BY <1>2, <1>3, MappedTable

\* The number of entries LruTable speaks of.
LEMMA SameCardinality == \A S : Lru!Cardinality(S) = Cardinality(S)
BY DEF Lru!Cardinality, Lru!IsFiniteSet, Cardinality, IsFiniteSet

\* The names when the slot was free, and when it had the same name.
LEMMA NamesGrow ==
  ASSUME NEW gs, NEW i, NEW g,
         i \notin InUse(gs) \/ gs[i].group_id = g
  PROVE  NamesAfter(gs, i, g) = NamesIn(gs) \cup {g}
<1>1. NamesAfter(gs, i, g) \subseteq NamesIn(gs) \cup {g}
  BY DEF NamesAfter, NamesIn
<1>2. ASSUME NEW k \in InUse(gs)
      PROVE  gs[k].group_id \in NamesAfter(gs, i, g)
  BY DEF NamesAfter
<1> QED
  BY <1>1, <1>2 DEF NamesIn, NamesAfter

\* UpdateGroup is an update of the table.
LEMMA UpdateIsUpdate ==
  ASSUME GroupInv, NEW g \in Names, NEW l \in Limits, UpdateGroup(g, l)
  PROVE  \E m \in PolicyLimits : Lru!Update(g, m)
<1>1. PICK i \in Slots, m \in PolicyLimits :
        /\ i \in InUse(groups) /\ groups[i].group_id = g
        /\ OnlySlot(groups, i, g) /\ groups' = Written(groups, i, g, m, now)
  BY UpdateSlot
<1>2. TableOf(groups') = TableAfter(groups, i, g, m, now)
  BY <1>1, GroupSlots, TableChange
<1>3. TableOf(groups') =
        [q \in NamesIn(groups) \cup {g} |->
           IF q = g THEN [at |-> now, value |-> m] ELSE TableOf(groups)[q]]
  BY <1>1, <1>2, NamesGrow DEF TableAfter
<1>4. g \in NamesIn(groups)
  BY <1>1 DEF NamesIn
<1>5. Lru!Update(g, m)
  BY <1>3, <1>4, MappedTable DEF Lru!Update, Lru!With, UpdateGroup
<1> QED
  BY <1>5

\* InsertGroup is an insertion, and the table was not full.
LEMMA InsertIsInsert ==
  ASSUME GroupInv, NEW g \in Names, InsertGroup(g)
  PROVE  Lru!Insert(g)
<1>1. PICK i \in Slots :
        /\ i \notin InUse(groups) /\ OnlySlot(groups, i, g)
        /\ groups' = Written(groups, i, g, NoLimits, now)
  BY InsertSlot
<1>2. TableOf(groups') = TableAfter(groups, i, g, NoLimits, now)
  BY <1>1, GroupSlots, TableChange, LimitTypes
<1>3. TableOf(groups') =
        [q \in NamesIn(groups) \cup {g} |->
           IF q = g THEN [at |-> now, value |-> NoLimits] ELSE TableOf(groups)[q]]
  BY <1>1, <1>2, NamesGrow DEF TableAfter
<1>4. g \notin NamesIn(groups)
  BY DEF InsertGroup, Found, NamesIn
<1>5. group_count < kMaxGroups
  <2> DEFINE U == InUse(groups)
  <2>1. /\ IsFiniteSet(Slots) /\ U \in SUBSET Slots /\ i \notin U
        /\ Cardinality(Slots) = kMaxGroups /\ group_count = Cardinality(U)
    BY <1>1, GroupSlots, FiniteSlots
  <2> HIDE DEF U
  <2>2. /\ Cardinality(U) \in 0..kMaxGroups /\ Cardinality(U \cup {i}) \in 0..kMaxGroups
        /\ Cardinality(U \cup {i}) = Cardinality(U) + 1
    BY <2>1, CountSlots
  <2> QED
    BY <2>1, <2>2, StoreAssumption
<1>6. g \notin DOMAIN GroupTable /\ Cardinality(DOMAIN GroupTable) < kMaxGroups
  BY <1>4, <1>5, NamesKnown
<1>7. GroupTable' = Lru!With(GroupTable, g, [at |-> now, value |-> NoLimits])
  BY <1>3, MappedTable DEF Lru!With
<1> QED
  BY <1>6, <1>7, SameCardinality DEF Lru!Insert, InsertGroup

\* EvictGroup replaces an entry that was updated longest ago, and the table
\* was full.
LEMMA EvictIsReplace ==
  ASSUME GroupInv, NEW g \in Names, EvictGroup(g)
  PROVE  \E old \in Names : Lru!Replace(g, old)
<1>1. PICK i \in Slots :
        /\ OldestGroup(i) /\ OnlySlot(groups, i, g)
        /\ groups' = Written(groups, i, g, NoLimits, now)
  BY EvictSlot
<1>2. TableOf(groups') = TableAfter(groups, i, g, NoLimits, now)
  BY <1>1, GroupSlots, TableChange, LimitTypes
<1> DEFINE old == groups[i].group_id
<1>3. InUse(groups) = Slots /\ group_count = kMaxGroups
  BY EvictSlot
<1>4. old \in NamesIn(groups) /\ old \in Names
  BY <1>3, NamesKnown DEF NamesIn
<1>5. g \notin NamesIn(groups)
  BY DEF EvictGroup, Found, NamesIn
<1>6. NamesAfter(groups, i, g) = (NamesIn(groups) \ {old}) \cup {g}
  <2>1. \A k \in InUse(groups) : groups[k].group_id = old <=> k = i
    BY <1>3, GroupSlots DEF Unique
  <2>2. NamesAfter(groups, i, g) \subseteq (NamesIn(groups) \ {old}) \cup {g}
    BY <2>1 DEF NamesAfter, NamesIn
  <2>3. \A k \in InUse(groups) :
          groups[k].group_id # old => groups[k].group_id \in NamesAfter(groups, i, g)
    BY <2>1 DEF NamesAfter
  <2>4. (NamesIn(groups) \ {old}) \cup {g} \subseteq NamesAfter(groups, i, g)
    BY <2>3 DEF NamesIn, NamesAfter
  <2> QED
    BY <2>2, <2>4
<1>7. Lru!Oldest(old)
  <2> SUFFICES ASSUME NEW q \in NamesIn(groups)
               PROVE  TableOf(groups)[old].at <= TableOf(groups)[q].at
    BY MappedTable DEF Lru!Oldest
  <2>1. PICK k \in InUse(groups) : q = groups[k].group_id
    BY DEF NamesIn
  <2>2. k \in Slots /\ k \in Nat /\ i \in Nat /\ i \in InUse(groups)
    BY <1>3, FiniteSlots
  <2>3. /\ TableOf(groups)[old].at = groups[i].last_update_ns
        /\ TableOf(groups)[q].at = groups[k].last_update_ns
    <3>1. Unique(groups)
      BY GroupSlots
    <3>2. TableOf(groups)[old] =
            [at |-> groups[i].last_update_ns, value |-> groups[i].limits]
      BY <2>2, <3>1, TableAt
    <3>3. TableOf(groups)[q] =
            [at |-> groups[k].last_update_ns, value |-> groups[k].limits]
      BY <2>1, <2>2, <3>1, TableAt
    <3> QED
      BY <3>2, <3>3
  <2> QED
    BY <1>1, <2>2, <2>3 DEF OldestGroup
<1>8. GroupTable' =
        Lru!With([q \in DOMAIN GroupTable \ {old} |-> GroupTable[q]], g,
                 [at |-> now, value |-> NoLimits])
  <2>1. GroupTable' =
          [q \in (NamesIn(groups) \ {old}) \cup {g} |->
             IF q = g THEN [at |-> now, value |-> NoLimits] ELSE TableOf(groups)[q]]
    BY <1>2, <1>6, MappedTable DEF TableAfter
  <2> HIDE DEF old
  <2> QED
    BY <2>1, MappedTable DEF Lru!With
<1>9. /\ g \notin DOMAIN GroupTable /\ old \in DOMAIN GroupTable
      /\ Lru!Cardinality(DOMAIN GroupTable) = kMaxGroups
  BY <1>3, <1>4, <1>5, NamesKnown, SameCardinality
<1>10. Lru!Replace(g, old)
  BY <1>7, <1>8, <1>9 DEF Lru!Replace, EvictGroup
<1> QED
  BY <1>4, <1>10

\* Every step of the store is a step of the table by name, or changes neither
\* the table nor the clock.
LEMMA LruStep == GroupInv /\ [Next]_vars => [Lru!Next]_<<GroupTable, now>>
<1> SUFFICES ASSUME GroupInv, [Next]_vars
             PROVE  Lru!Next \/ UNCHANGED <<GroupTable, now>>
  OBVIOUS
<1>1. ASSUME NEW g \in Names, NEW l \in Limits, UpdateGroup(g, l) PROVE Lru!Next
  BY <1>1, UpdateIsUpdate DEF Lru!Next
<1>2. ASSUME NEW g \in Names, InsertGroup(g) PROVE Lru!Next
  BY <1>2, InsertIsInsert DEF Lru!Next
<1>3. ASSUME NEW g \in Names, EvictGroup(g) PROVE Lru!Next
  BY <1>3, EvictIsReplace DEF Lru!Next
<1>4. groups' = groups => GroupTable' = GroupTable
  BY MappedTable
<1>5. CASE map_pid_to_group
  BY <1>4, <1>5 DEF map_pid_to_group, TouchPid, InsertPid, EvictPid, groupVars
<1>6. CASE clear
  <2>1. NamesIn(groups') = {}
    BY <1>6 DEF clear, NamesIn, InUse, FreeGroup
  <2>2. GroupTable' = [k \in {} |-> NoLimits]
    BY <2>1, MappedTable DEF TableOf
  <2> QED
    BY <1>6, <2>2 DEF clear, Lru!Next, Lru!Clear
<1>7. CASE tick
  <2>1. now' > now
    BY <1>7, GroupSlots DEF tick
  <2> QED
    BY <1>4, <1>7, <2>1 DEF tick, groupVars, Lru!Next, Lru!Pass
<1>8. CASE UNCHANGED vars
  BY <1>4, <1>8 DEF vars, groupVars
<1> QED
  BY <1>1, <1>2, <1>3, <1>5, <1>6, <1>7, <1>8 DEF Next, upsert_group

\* Seen through get_group, the slots of GroupPolicyStore are a table by name
\* that gives up an entry only when it is full, and then one updated longest
\* ago: first-free-slot insertion, in-place update and the scan for the oldest
\* slot together implement LruTable, for every size of the table.
THEOREM StoreIsLru == Spec => ImplementsLru
<1> QED
  BY LruInit, LruStep, GroupInductive, PTL DEF Spec, ImplementsLru, Lru!Spec

=============================================================================
