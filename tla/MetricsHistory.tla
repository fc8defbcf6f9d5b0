--------------------------- MODULE MetricsHistory ---------------------------
(***************************************************************************)
(* MetricsHistory (src/metrics/sampler.cpp): samples appended to           *)
(* metrics.log, which is rotated to metrics.log.1 ... metrics.log.(n-1)    *)
(* when it has grown too large.  One thread appends; what can interrupt it *)
(* is the end of the process, between any two file operations.             *)
(*                                                                         *)
(* A sample is named by its number; a file is the sequence of its samples  *)
(* and its size the length of that sequence.  A missing file is empty.     *)
(***************************************************************************)
EXTENDS Integers, Sequences

CONSTANTS MaxFileSize, MaxFiles, MaxSamples     \* MaxSamples: a bound

ASSUME HistoryAssumption ==
  /\ MaxFileSize \in Nat /\ MaxSamples \in Nat
  /\ MaxFiles \in Nat /\ MaxFiles >= 2

VARIABLES
  files,       \* files[0] is metrics.log, files[i] is metrics.log.i
  hpc,         \* where append is: "idle", "remove", "shift" or "write"
  shift,       \* the loop variable i of rotate_files
  appended     \* samples appended so far

historyVars == <<files, hpc, shift, appended>>

FileIds == 0..(MaxFiles - 1)

HistoryTypeOK ==
  /\ files \in [FileIds -> Seq(1..MaxSamples)]
  /\ hpc \in {"idle", "remove", "shift", "write"}
  /\ shift \in -1..(MaxFiles - 2)
  /\ appended \in 0..MaxSamples

HistoryInit ==
  /\ files = [i \in FileIds |-> <<>>]
  /\ hpc = "idle" /\ shift = -1 /\ appended = 0

\* Mutant: no rotation once the last file exists.
RotationDueRoom == Len(files[0]) > MaxFileSize /\ files[MaxFiles - 1] = << >>

\* append: is a rotation due?
RotationDue == Len(files[0]) > MaxFileSize

AppendBegin ==
  /\ hpc = "idle" /\ appended < MaxSamples
  /\ hpc' = IF RotationDue THEN "remove" ELSE "write"
  /\ UNCHANGED <<files, shift, appended>>

\* Mutant: the loop starts at the file just removed.
FirstShiftRemoved == MaxFiles - 1

\* Where the loop of rotate_files starts.
FirstShift == MaxFiles - 2

\* rotate_files: the oldest file goes first ...
RemoveOldest ==
  /\ hpc = "remove"
  /\ files' = [files EXCEPT ![MaxFiles - 1] = <<>>]
  /\ hpc' = "shift" /\ shift' = FirstShift
  /\ UNCHANGED appended

\* Mutant: the files are shifted from the newest to the oldest.
ShiftSourceNewest == MaxFiles - 2 - shift

\* ... then the others move up by one, the oldest of them first.
ShiftSource == shift

Shift ==
  /\ hpc = "shift" /\ shift >= 0
  /\ files' = IF files[ShiftSource] = <<>> THEN files
              ELSE [files EXCEPT ![ShiftSource + 1] = files[ShiftSource],
                                 ![ShiftSource] = <<>>]
  /\ shift' = shift - 1
  /\ UNCHANGED <<hpc, appended>>

Shifted ==
  /\ hpc = "shift" /\ shift < 0
  /\ hpc' = "write"
  /\ UNCHANGED <<files, shift, appended>>

Write ==
  /\ hpc = "write"
  /\ appended' = appended + 1
  /\ files' = [files EXCEPT ![0] = Append(@, appended + 1)]
  /\ hpc' = "idle"
  /\ UNCHANGED shift

History == AppendBegin \/ RemoveOldest \/ Shift \/ Shifted \/ Write

\* The process ends, at any point; the files stay as they are.
HistoryCrash == hpc' = "idle" /\ shift' = -1 /\ UNCHANGED <<files, appended>>

-----------------------------------------------------------------------------
SamplesOf(i) == {files[i][k] : k \in DOMAIN files[i]}
Kept == UNION {SamplesOf(i) : i \in FileIds}

\* rename overwrites silently.  However a crash in the middle of an earlier
\* rotation left the files, a rotation loses the samples of the last file and
\* no others.
RotationKeeps ==
  [][Kept \ Kept' \subseteq SamplesOf(MaxFiles - 1)]_historyVars

\* No file outgrows the limit by more than the sample that crossed it.
FilesBounded == \A i \in FileIds : Len(files[i]) <= MaxFileSize + 1
=============================================================================
