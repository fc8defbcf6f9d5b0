-------------------------- MODULE GroupPolicyStore --------------------------
(***************************************************************************)
(* GroupPolicyStore (src/governor/group_policy_store.cpp): two tables of   *)
(* fixed size, policies by group name and group names by process, that     *)
(* make room by giving up the entry updated longest ago.                   *)
(*                                                                         *)
(* The class has no lock and its calls are atomic.  A slot given up is     *)
(* filled in the same call, so between calls a slot is free or in use.     *)
(***************************************************************************)
EXTENDS Integers, FiniteSets, FiniteSetsExt

CONSTANTS
  Names,           \* group names
  Cut,             \* Cut[g]: g, or its first kMaxGroupIdLen characters
  Limits,          \* the limits an upsert may carry: functions from fields
  Pids,            \* process numbers
  kMaxGroups,
  kMaxPidGroupMap,
  MaxTime,         \* bound on the clock
  MaxEvictions     \* bound on each eviction counter

ASSUME StoreAssumption ==
  /\ Cut \in [Names -> Names]
  /\ kMaxGroups \in Nat \ {0} /\ kMaxPidGroupMap \in Nat \ {0}
  /\ MaxTime \in Nat /\ MaxEvictions \in Nat /\ Pids \subseteq Int

VARIABLES
  groups,          \* groups_
  pid_map,         \* pid_map_
  group_count,     \* group_count_
  pid_map_count,   \* pid_map_count_
  stats,           \* stats_: the eviction counters
  now              \* get_time()

groupVars == <<groups, group_count>>
pidVars == <<pid_map, pid_map_count>>
vars == <<groupVars, pidVars, stats, now>>

Slots == 0..(kMaxGroups - 1)
PidSlots == 0..(kMaxPidGroupMap - 1)

Merge(old, new) ==
  [f \in DOMAIN old \cup DOMAIN new |->
     IF f \in DOMAIN new THEN new[f] ELSE old[f]]

NoLimits == [f \in {} |-> 0]
FreeGroup == [in_use |-> FALSE]
FreePid == [in_use |-> FALSE]

GroupEntry(g, limits, t) ==
  [in_use |-> TRUE, group_id |-> g, limits |-> limits, last_update_ns |-> t]
PidEntry(g, t) == [in_use |-> TRUE, group_id |-> g, last_seen_ns |-> t]

InUse(table) == {i \in DOMAIN table : table[i].in_use}
FreeSlots(table) == DOMAIN table \ InUse(table)

FieldNames == UNION {DOMAIN l : l \in Limits}
FieldValues == UNION {{l[f] : f \in DOMAIN l} : l \in Limits}
PolicyLimits == UNION {[F -> FieldValues] : F \in SUBSET FieldNames}

TypeOK ==
  /\ groups \in [Slots -> {FreeGroup} \cup
                   [in_use : {TRUE}, group_id : Names, limits : PolicyLimits,
                    last_update_ns : 0..now]]
  /\ pid_map \in [PidSlots -> {FreePid} \cup
                    [in_use : {TRUE}, group_id : Names, last_seen_ns : 0..now]]
  /\ stats \in [group_evictions : 0..MaxEvictions,
                pidmap_evictions : 0..MaxEvictions]
  /\ group_count \in 0..kMaxGroups /\ pid_map_count \in 0..kMaxPidGroupMap
  /\ now \in 0..MaxTime

NoEvictions == [group_evictions |-> 0, pidmap_evictions |-> 0]

Init ==
  /\ groups = [i \in Slots |-> FreeGroup]
  /\ pid_map = [i \in PidSlots |-> FreePid]
  /\ group_count = 0 /\ pid_map_count = 0
  /\ stats = NoEvictions
  /\ now = 0

-----------------------------------------------------------------------------
(* upsert_group.  Its first argument is not used: the name is msg.group.   *)
(* A message without one, or with one too long, is refused.                *)

Found(g) == {i \in InUse(groups) : groups[i].group_id = g}

\* The group is known: the limits the message carries replace the old ones.
UpdateGroup(g, limits) ==
  /\ Cut[g] = g
  /\ Found(g) # {}
  /\ LET i == Min(Found(g)) IN
       groups' = [groups EXCEPT ![i] =
                    GroupEntry(g, Merge(groups[i].limits, limits), now)]
  /\ UNCHANGED <<group_count, pidVars, stats, now>>

\* The group is new: the first free slot gets its name and the time, and
\* nothing of the message's limits.
InsertGroup(g) ==
  /\ Cut[g] = g
  /\ Found(g) = {} /\ FreeSlots(groups) # {}
  /\ groups' = [groups EXCEPT ![Min(FreeSlots(groups))] =
                  GroupEntry(g, NoLimits, now)]
  /\ group_count' = group_count + 1
  /\ UNCHANGED <<pidVars, stats, now>>

\* Mutant: the comparison finds the newest.
OldestGroupNot(i) ==
  /\ \A k \in Slots : groups[k].last_update_ns <= groups[i].last_update_ns
  /\ \A k \in Slots : k < i => groups[k].last_update_ns # groups[i].last_update_ns

\* evict_oldest_group keeps the first slot with the smallest time.
OldestGroup(i) ==
  /\ \A k \in Slots : groups[i].last_update_ns <= groups[k].last_update_ns
  /\ \A k \in Slots : k < i => groups[k].last_update_ns # groups[i].last_update_ns

\* Mutant: the count of an entry given up is not taken back.
CountAfterEvictionNot(count) == count + 1

\* An entry is given up and one is added.
CountAfterEviction(count) == (IF count > 0 THEN count - 1 ELSE 0) + 1

\* The group is new and no slot is free.
EvictGroup(g) ==
  /\ Cut[g] = g
  /\ Found(g) = {} /\ FreeSlots(groups) = {}
  /\ stats.group_evictions < MaxEvictions
  /\ \E i \in Slots :
       /\ OldestGroup(i)
       /\ groups' = [groups EXCEPT ![i] = GroupEntry(g, NoLimits, now)]
  /\ group_count' = CountAfterEviction(group_count)
  /\ stats' = [stats EXCEPT !.group_evictions = @ + 1]
  /\ UNCHANGED <<pidVars, now>>

-----------------------------------------------------------------------------
(* map_pid_to_group.  The slot's index is compared with the pid, and a new *)
(* entry goes to the first free slot, whatever the pid.  The name is cut.  *)

TouchPid(p, g) ==
  /\ p \in InUse(pid_map)
  /\ pid_map' = [pid_map EXCEPT ![p] = PidEntry(Cut[g], now)]
  /\ UNCHANGED <<groupVars, pid_map_count, stats, now>>

InsertPid(p, g) ==
  /\ p \notin InUse(pid_map) /\ FreeSlots(pid_map) # {}
  /\ pid_map' = [pid_map EXCEPT ![Min(FreeSlots(pid_map))] =
                   PidEntry(Cut[g], now)]
  /\ pid_map_count' = pid_map_count + 1
  /\ UNCHANGED <<groupVars, stats, now>>

OldestPid(i) ==
  /\ \A k \in PidSlots : pid_map[i].last_seen_ns <= pid_map[k].last_seen_ns
  /\ \A k \in PidSlots : k < i => pid_map[k].last_seen_ns # pid_map[i].last_seen_ns

EvictPid(p, g) ==
  /\ p \notin InUse(pid_map) /\ FreeSlots(pid_map) = {}
  /\ stats.pidmap_evictions < MaxEvictions
  /\ \E i \in PidSlots :
       /\ OldestPid(i)
       /\ pid_map' = [pid_map EXCEPT ![i] = PidEntry(Cut[g], now)]
  /\ pid_map_count' = CountAfterEviction(pid_map_count)
  /\ stats' = [stats EXCEPT !.pidmap_evictions = @ + 1]
  /\ UNCHANGED <<groupVars, now>>

-----------------------------------------------------------------------------
clear ==
  /\ groups' = [i \in Slots |-> FreeGroup]
  /\ pid_map' = [i \in PidSlots |-> FreePid]
  /\ group_count' = 0 /\ pid_map_count' = 0
  /\ stats' = NoEvictions
  /\ UNCHANGED now

\* The steady clock, or tick() in a test.  Two calls may see the same time.
tick ==
  /\ now < MaxTime
  /\ now' = now + 1
  /\ UNCHANGED <<groupVars, pidVars, stats>>

upsert_group == \E g \in Names : \/ \E l \in Limits : UpdateGroup(g, l)
                                 \/ InsertGroup(g)
                                 \/ EvictGroup(g)
map_pid_to_group == \E p \in Pids, g \in Names :
                      TouchPid(p, g) \/ InsertPid(p, g) \/ EvictPid(p, g)

Next == upsert_group \/ map_pid_to_group \/ clear \/ tick

Spec == Init /\ [][Next]_vars

-----------------------------------------------------------------------------
\* get_stats agrees with the tables: each count is the number of slots in
\* use, through insertions, evictions and clear.
CountsAgree ==
  /\ group_count = Cardinality(InUse(groups))
  /\ pid_map_count = Cardinality(InUse(pid_map))

Known == {groups[i].group_id : i \in InUse(groups)}

\* The table of groups that get_group can see.
GroupTable ==
  [g \in Known |->
     LET e == groups[Min(Found(g))]
     IN [at |-> e.last_update_ns, value |-> e.limits]]

Lru == INSTANCE LruTable WITH
         Keys <- Names,
         Values <- PolicyLimits,
         Fresh <- NoLimits, Capacity <- kMaxGroups,
         table <- GroupTable

\* Through get_group the slots behave as a table by name that never holds a
\* name twice, never gives up an entry while a slot is free, and then gives up
\* one updated longest ago; an update leaves all other entries alone.
ImplementsLru == Lru!Spec
=============================================================================
