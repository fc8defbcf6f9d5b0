---------------------------- MODULE PolicyStore ----------------------------
(***************************************************************************)
(* PolicyStore (src/config/policy_store.cpp): the governor's policy in a   *)
(* file.  save writes a temporary file, syncs it and renames it; load      *)
(* reads whatever the file holds by then.                                  *)
(*                                                                         *)
(* A file is the sequence of its members, key and value in the order of    *)
(* the text; text without a colon is left out, since load skips it.  The   *)
(* process may end between any two operations on files, and the machine    *)
(* may lose power, which costs whatever was not synced.                    *)
(***************************************************************************)
EXTENDS ResourceGovernor, Sequences, FiniteSetsExt

CONSTANTS
  Policies,        \* the policies save may be given
  Hand,            \* what somebody may have put into the file by hand
  OtherKeys,       \* keys in it that load does not know
  Decimals,        \* doubles of more than six digits, whole or not ...
  Nearest,         \* ... and what operator<< prints for them
  IntMax,          \* 2^31 - 1
  U64,             \* 2^64
  Absent,          \* in place of a file: there is none
  NoValue,         \* in place of a value: the text ends before a digit
  Throws,          \* in place of a policy: load throws
  Unknown,         \* in place of a policy: none
  MaxSaves         \* bound: calls of save

\* A member of a text, a text, and a policy as its C++ types allow it.
Member == [key : DOMAIN DefaultPolicy \cup OtherKeys, value : Pct \cup {NoValue}]
Texts == Seq(Member)
Ints == (-IntMax - 1)..IntMax
Durations == 0..(U64 - 1)
Storable ==
  [max_running_jobs : Ints, max_queue_depth : Ints,
   cpu_high_watermark_pct : Pct \cup Decimals,
   mem_high_watermark_pct : Pct \cup Decimals,
   cooldown_ms : Durations, min_start_gap_ms : Durations]

ASSUME PolicyStoreAssumption ==
  /\ Nearest \in [Decimals -> Int] /\ Decimals \cap Pct = {}
  /\ IntMax \in Nat /\ U64 \in Nat \ {0} /\ MaxSaves \in Nat
  /\ Policies \subseteq Storable /\ Unknown \notin Policies
  /\ Hand \subseteq Texts \cup {Absent} /\ Absent \notin Texts
  /\ NoValue \notin Pct /\ OtherKeys \cap DOMAIN DefaultPolicy = {}

\* A whole percentage of more than six digits is one of Decimals.
ASSUME DecimalsAssumption ==
  \A p \in Policies :
    {p.cpu_high_watermark_pct, p.mem_high_watermark_pct} \cap Int
      \subseteq -999999..999999

VARIABLES
  file,            \* path_
  temp,            \* path_.tmp
  undo,            \* what a power loss may bring back at path_
  pc,              \* where save is
  saving,          \* its argument
  saves,           \* calls of save so far
  last             \* history: the policy of the last save that returned,
                   \* or Unknown after a failure, a crash or a power loss

vars == <<file, temp, undo, pc, saving, saves, last>>

\* A file: its text, whether the disk has it, and, for the properties alone,
\* whether a write or a sync of it failed.
File(text, synced, fault) == [text |-> text, synced |-> synced, fault |-> fault]
Files == [text : Texts \cup {Absent}, synced : BOOLEAN, fault : BOOLEAN]
NoFile == File(Absent, TRUE, FALSE)

-----------------------------------------------------------------------------
(* save's text.                                                            *)

Keys == <<"max_running_jobs", "max_queue_depth", "cpu_high_watermark_pct",
          "mem_high_watermark_pct", "cooldown_ms", "min_start_gap_ms">>

\* operator<< prints a whole number as it is, and of a double six digits.
Digits6(x) == IF x \in Decimals THEN Nearest[x] ELSE x

\* Mutant: the last member is forgotten.
TextShort(policy) ==
  [i \in 1..(Len(Keys) - 1) |-> [key |-> Keys[i],
                                 value |-> Digits6(policy[Keys[i]])]]

TextOf(policy) ==
  [i \in 1..Len(Keys) |-> [key |-> Keys[i], value |-> Digits6(policy[Keys[i]])]]

\* What a text cut short can look like: some of its members, of the last one
\* perhaps the key alone or the number without its last digit.
Torn(text) ==
  LET Cut(n, v) == [SubSeq(text, 1, n) EXCEPT ![n].value = v]
      digits(n) == text[n].value \in Int /\ text[n].value > 9
  IN {SubSeq(text, 1, n) : n \in 0..Len(text)}
     \cup {Cut(n, NoValue) : n \in 1..Len(text)}
     \cup {Cut(n, text[n].value \div 10) : n \in {m \in 1..Len(text) : digits(m)}}

-----------------------------------------------------------------------------
(* load.                                                                   *)

\* std::stoi, std::stod and std::stoull throw on a missing number, stoi and
\* stoull on a large one too; stoull wraps a negative number around.
Converts(key, v) ==
  /\ v # NoValue
  /\ key \in {"max_running_jobs", "max_queue_depth"} => v \in Ints
  /\ key \in {"cooldown_ms", "min_start_gap_ms"} => v \in (1 - U64)..(U64 - 1)

Converted(key, v) ==
  IF key \in {"cooldown_ms", "min_start_gap_ms"} /\ v < 0 THEN v % U64 ELSE v

\* The members load looks at; it skips unknown keys.
Members(text, key) == {i \in DOMAIN text : text[i].key = key}

\* A later member overrides an earlier one.
LoadField(text, key) ==
  IF Members(text, key) = {} THEN DefaultPolicy[key]
  ELSE Converted(key, text[Max(Members(text, key))].value)

\* Two of the six values are checked.
InRange(policy) ==
  [policy EXCEPT
     !.max_running_jobs = IF @ \in 1..1000 THEN @ ELSE 10,
     !.max_queue_depth = IF @ \in 1..10000 THEN @ ELSE 100]

\* Any member that does not convert makes load throw, overridden or not.
load(text) ==
  IF text = Absent THEN DefaultPolicy
  ELSE IF \E k \in DOMAIN DefaultPolicy :
            \E i \in Members(text, k) : ~Converts(k, text[i].value)
    THEN Throws
  ELSE InRange([k \in DOMAIN DefaultPolicy |-> LoadField(text, k)])

-----------------------------------------------------------------------------
TypeOK ==
  /\ pc \in {"idle", "write", "sync", "rename"}
  /\ pc # "idle" => saving \in Policies
  /\ saves \in 0..MaxSaves
  /\ file \in Files /\ temp \in Files /\ undo \subseteq Files
  /\ pc # "idle" => temp.text # Absent
  /\ last \in Policies \cup {Unknown}

Init ==
  /\ \E text \in Hand : file = File(text, TRUE, FALSE)
  /\ temp = NoFile /\ undo = {}
  /\ pc = "idle" /\ saving = Unknown /\ saves = 0 /\ last = Unknown

\* Mutant: a stream that did not open is written to all the same.
SaveOpenUnchecked(policy) ==
  /\ pc = "idle" /\ saves < MaxSaves
  /\ saves' = saves + 1
  /\ \/ temp' = File(<<>>, FALSE, FALSE) /\ pc' = "write"
     \/ pc' = "sync" /\ UNCHANGED temp
  /\ saving' = policy
  /\ UNCHANGED <<file, undo, last>>

\* save opens the temporary file, which empties it, or throws.
SaveOpen(policy) ==
  /\ pc = "idle" /\ saves < MaxSaves
  /\ saves' = saves + 1
  /\ \/ /\ temp' = File(<<>>, FALSE, FALSE)
        /\ pc' = "write" /\ saving' = policy
        /\ UNCHANGED last
     \/ UNCHANGED <<temp, pc, saving, last>>
  /\ UNCHANGED <<file, undo>>

\* The text is short enough to stay in the stream's buffer until close.  Its
\* write may come short (the disk is full); nobody looks at the stream.
SaveWrite ==
  /\ pc = "write"
  /\ \/ temp' = File(TextOf(saving), FALSE, FALSE)
     \/ \E text \in Torn(TextOf(saving)) : temp' = File(text, FALSE, TRUE)
  /\ pc' = "sync"
  /\ UNCHANGED <<file, undo, saving, saves, last>>

\* Mutant: no fsync.
SyncedNot(f) == f

Synced(f) == [f EXCEPT !.synced = TRUE]

\* fsync through a second descriptor; when that cannot be opened, or the sync
\* fails, save goes on.
SaveSync ==
  /\ pc = "sync"
  /\ temp' \in {Synced(temp), [temp EXCEPT !.fault = TRUE]}
  /\ pc' = "rename"
  /\ UNCHANGED <<file, undo, saving, saves, last>>

\* rename, or throw.  The directory is not synced.
SaveRename ==
  /\ pc = "rename"
  /\ pc' = "idle" /\ saving' = Unknown
  /\ \/ /\ file' = temp /\ temp' = NoFile
        /\ undo' = undo \cup {file}
        /\ last' = IF temp.fault THEN Unknown ELSE saving
     \/ UNCHANGED <<file, temp, undo, last>>
  /\ UNCHANGED saves

\* The operating system writes the directory back.
DirectoryWritten ==
  /\ undo # {}
  /\ undo' = {}
  /\ UNCHANGED <<file, temp, pc, saving, saves, last>>

\* The process ends; files stay as they are.
ProcessEnds ==
  /\ pc # "idle"
  /\ pc' = "idle" /\ saving' = Unknown
  /\ UNCHANGED <<file, temp, undo, saves, last>>

\* The machine stops.  The file is one that the directory on disk may name,
\* and its text what the disk may have of it.
PowerLoss ==
  /\ \E f \in {file} \cup undo :
       \E text \in IF f.synced \/ f.text = Absent THEN {f.text}
                   ELSE Torn(f.text) \cup {f.text} :
         file' = File(text, TRUE, f.fault)
  /\ temp' = NoFile /\ undo' = {}
  /\ pc' = "idle" /\ saving' = Unknown /\ last' = Unknown
  /\ UNCHANGED saves

Next ==
  \/ \E p \in Policies : SaveOpen(p)
  \/ SaveWrite \/ SaveSync \/ SaveRename
  \/ DirectoryWritten \/ ProcessEnds \/ PowerLoss

Spec == Init /\ [][Next]_vars

-----------------------------------------------------------------------------
\* save is atomic: at any moment, whenever the process ends or the power goes,
\* path_ is a file that was there to begin with or the whole text of a policy
\* given to save, provided no write and no sync of it failed.
SaveAtomic ==
  ~file.fault => file.text \in Hand \cup {TextOf(p) : p \in Policies}

Printed(policy) == [k \in DOMAIN policy |-> Digits6(policy[k])]

\* load after a save that returned gives back the policy as printed, a job
\* limit or queue depth out of range replaced by its default, whatever saves
\* have begun and not finished since.  Nothing is said of percentages that are
\* none: see LoadsValid.
LoadsWhatWasSaved ==
  last # Unknown =>
    LET p == Printed(last)
    IN InPctRange(p.cpu_high_watermark_pct) /\ InPctRange(p.mem_high_watermark_pct)
         => load(file.text) = InRange(p)

-----------------------------------------------------------------------------
(* What a document or a comment says and the code does not do, each        *)
(* refuted by TLC with a configuration of its own (see README.md, Findings). *)

\* include/heidi-kernel/policy_store.h:16, "Save policy atomically".  A write
\* that came short or a failed fsync is not looked at before the rename.
SaveAlwaysAtomic == file.text \in Hand \cup {TextOf(p) : p \in Policies}

\* include/heidi-kernel/policy_store.h:13, "fallback to defaults on error".
\* A member without a number makes load throw.
LoadNeverThrows == load(file.text) # Throws

\* docs/RESOURCE_GOVERNOR.md:167, "invalid values fall back to defaults".  The
\* percentages are not checked, NaN included.
LoadsValid == load(file.text) # Throws => ValidPolicy(load(file.text))
=============================================================================
