------------------------- MODULE PolicyStoreProofs -------------------------
(***************************************************************************)
(* The policy file, for every set of policies, every text somebody may     *)
(* have put there and any number of saves, crashes and power losses.       *)
(***************************************************************************)
EXTENDS PolicyStore, SequenceTheorems, TLAPS

Good == Hand \cup {TextOf(p) : p \in Policies}

\* A file without a fault is whole and on the disk.
Sound(f) == ~f.fault => f.synced /\ f.text \in Good

\* The temporary file on its way to rename.
TempInv ==
  /\ pc \in {"sync", "rename"} /\ ~temp.fault => temp.text = TextOf(saving)
  /\ pc = "rename" /\ ~temp.fault => temp.synced

\* The file, and every file that a power loss may bring back, is sound; and
\* after a save that returned the file is that save's.
FileInv ==
  /\ Sound(file) /\ \A f \in undo : Sound(f)
  /\ last # Unknown => file.text = TextOf(last)

StoreInv == TypeOK /\ TempInv /\ FileInv

-----------------------------------------------------------------------------
(* The texts.                                                              *)

\* save writes six members, whatever the policy.
LEMMA TextType ==
  ASSUME NEW p \in Policies
  PROVE  TextOf(p) \in Texts
<1>1. p \in Storable
  BY PolicyStoreAssumption
<1>2. \A i \in 1..6 : Digits6(p[Keys[i]]) \in Pct
  <2>1. \A x \in Pct \cup Decimals : Digits6(x) \in Pct
    BY PolicyStoreAssumption DEF Digits6, Pct
  <2>2. \A i \in 1..6 : p[Keys[i]] \in Pct \cup Decimals
    <3>1. Ints \subseteq Pct /\ Durations \subseteq Pct
      BY PolicyStoreAssumption DEF Ints, Durations, Pct
    <3> QED
      BY <1>1, <3>1 DEF Storable, Keys
  <2> QED
    BY <2>1, <2>2
<1>3. \A i \in 1..6 : Keys[i] \in DOMAIN DefaultPolicy
  BY DEF Keys, DefaultPolicy
<1>4. Len(Keys) = 6
  BY DEF Keys
<1>5. TextOf(p) = [i \in 1..6 |-> [key |-> Keys[i], value |-> Digits6(p[Keys[i]])]]
  BY <1>4 DEF TextOf
<1>6. \A i \in 1..6 : [key |-> Keys[i], value |-> Digits6(p[Keys[i]])] \in Member
  BY <1>2, <1>3 DEF Member
<1>7. TextOf(p) \in Seq(Member)
  BY <1>5, <1>6, IsASeq
<1> QED
  BY <1>7 DEF Texts

\* What a torn text can look like is a text.
LEMMA TornType ==
  ASSUME NEW text \in Texts
  PROVE  Torn(text) \subseteq Texts
<1>1. text \in Seq(Member) /\ Len(text) \in Nat
  BY LenProperties DEF Texts
<1>2. \A n \in 1..Len(text) : text[n] \in Member
  BY <1>1, ElementOfSeq
<1>3. ASSUME NEW n \in 0..Len(text)
      PROVE  /\ SubSeq(text, 1, n) \in Seq(Member) /\ Len(SubSeq(text, 1, n)) = n
             /\ \A i \in 1..n : SubSeq(text, 1, n)[i] = text[i]
  BY <1>1, <1>2, SubSeqProperties
<1>4. ASSUME NEW n \in 1..Len(text), NEW v \in Pct \cup {NoValue}
      PROVE  [SubSeq(text, 1, n) EXCEPT ![n].value = v] \in Seq(Member)
  <2> DEFINE s == SubSeq(text, 1, n)
             e == [s[n] EXCEPT !.value = v]
  <2>1. s \in Seq(Member) /\ Len(s) = n /\ n \in 1..Len(s) /\ s[n] \in Member
    BY <1>1, <1>2, <1>3
  <2>2. e \in Member
    BY <2>1 DEF Member
  <2> HIDE DEF s, e
  <2>3. [s EXCEPT ![n] = e] \in Seq(Member)
    BY <2>1, <2>2, ExceptSeq
  <2> QED
    BY <2>3 DEF s, e
<1>5. \A n \in 1..Len(text) : text[n].value \in Int => text[n].value \div 10 \in Pct
  BY DEF Pct
<1>6. ASSUME NEW x \in Torn(text) PROVE x \in Seq(Member)
  <2>1. CASE \E n \in 0..Len(text) : x = SubSeq(text, 1, n)
    BY <1>3, <2>1
  <2>2. CASE \E n \in 1..Len(text) : x = [SubSeq(text, 1, n) EXCEPT ![n].value = NoValue]
    BY <1>4, <2>2
  <2>3. CASE \E n \in 1..Len(text) :
               /\ text[n].value \in Int
               /\ x = [SubSeq(text, 1, n) EXCEPT ![n].value = text[n].value \div 10]
    BY <1>4, <1>5, <2>3
  <2> QED
    BY <2>1, <2>2, <2>3 DEF Torn
<1> QED
  BY <1>6 DEF Texts

\* load gives back what save wrote: six members, each key once, every value
\* one that converts.
LEMMA LoadText ==
  ASSUME NEW p \in Policies
  PROVE  load(TextOf(p)) = InRange([k \in DOMAIN p |-> Digits6(p[k])])
<1> DEFINE text == TextOf(p)
           D == DOMAIN DefaultPolicy
<1>1. p \in Storable /\ text \in Texts /\ text # Absent
  BY TextType, PolicyStoreAssumption
<1>2. /\ Keys[1] = "max_running_jobs" /\ Keys[2] = "max_queue_depth"
      /\ Keys[3] = "cpu_high_watermark_pct" /\ Keys[4] = "mem_high_watermark_pct"
      /\ Keys[5] = "cooldown_ms" /\ Keys[6] = "min_start_gap_ms"
      /\ Len(Keys) = 6
  BY DEF Keys
<1>3. /\ D = {"max_running_jobs", "max_queue_depth", "cpu_high_watermark_pct",
              "mem_high_watermark_pct", "cooldown_ms", "min_start_gap_ms"}
      /\ DOMAIN p = D
  BY <1>1 DEF DefaultPolicy, Storable
<1>4. \A i \in 1..6 : i = 1 \/ i = 2 \/ i = 3 \/ i = 4 \/ i = 5 \/ i = 6
  OBVIOUS
<1>5. /\ \A k \in D : \E i \in 1..6 : Keys[i] = k
      /\ \A i, j \in 1..6 : Keys[i] = Keys[j] => i = j
  BY <1>2, <1>3, <1>4
<1>6. /\ DOMAIN text = 1..6
      /\ \A i \in 1..6 : /\ text[i].key = Keys[i]
                         /\ text[i].value = Digits6(p[Keys[i]])
  BY <1>2 DEF TextOf
<1>7. ASSUME NEW k \in D
      PROVE  \E i \in 1..6 : /\ Members(text, k) = {i}
                             /\ text[i].value = Digits6(p[k])
  <2>1. PICK i \in 1..6 : Keys[i] = k
    BY <1>5
  <2> HIDE DEF text
  <2>2. Members(text, k) = {i}
    BY <1>5, <1>6, <2>1 DEF Members
  <2> QED
    BY <1>6, <2>1, <2>2
<1>8. \A k \in D : Converts(k, Digits6(p[k])) /\ Converted(k, Digits6(p[k])) = Digits6(p[k])
  <2>1. \A x \in Pct : Digits6(x) = x
    BY PolicyStoreAssumption DEF Digits6
  <2>2. \A x \in Pct \cup Decimals : Digits6(x) \in Pct
    BY PolicyStoreAssumption DEF Digits6, Pct
  <2>3. /\ p.max_running_jobs \in Ints /\ p.max_queue_depth \in Ints
        /\ p.cpu_high_watermark_pct \in Pct \cup Decimals
        /\ p.mem_high_watermark_pct \in Pct \cup Decimals
        /\ p.cooldown_ms \in Durations /\ p.min_start_gap_ms \in Durations
    BY <1>1 DEF Storable
  <2>4. /\ Ints \subseteq Pct /\ Durations \subseteq Pct
        /\ \A d \in Durations : d \in (1 - U64)..(U64 - 1) /\ ~(d < 0)
    BY PolicyStoreAssumption DEF Ints, Durations, Pct
  <2>5. \A x \in Pct : x # NoValue
    BY PolicyStoreAssumption
  <2>6. /\ Digits6(p.max_running_jobs) \in Ints
        /\ Digits6(p.max_queue_depth) \in Ints
        /\ Digits6(p.cpu_high_watermark_pct) \in Pct
        /\ Digits6(p.mem_high_watermark_pct) \in Pct
        /\ Digits6(p.cooldown_ms) \in Durations
        /\ Digits6(p.min_start_gap_ms) \in Durations
    BY <2>1, <2>2, <2>3, <2>4
  <2> QED
    BY <1>3, <2>4, <2>5, <2>6 DEF Converts, Converted
<1> HIDE DEF text
<1>9. \A i \in 1..6 : Max({i}) = i
  BY DEF Max
<1>10. \A k \in D : LoadField(text, k) = Digits6(p[k])
  BY <1>7, <1>8, <1>9 DEF LoadField
<1>11. ~ \E k \in D : \E i \in Members(text, k) : ~Converts(k, text[i].value)
  BY <1>7, <1>8
<1>12. [k \in D |-> LoadField(text, k)] = [k \in DOMAIN p |-> Digits6(p[k])]
  BY <1>3, <1>10
<1> HIDE DEF D
<1>13. load(text) = InRange([k \in DOMAIN p |-> Digits6(p[k])])
  BY <1>1, <1>11, <1>12 DEF load, D
<1> QED
  BY <1>13 DEF text

-----------------------------------------------------------------------------
(* The steps.                                                              *)

\* A file that was there before the first save.
LEMMA StoreInit == Init => StoreInv
<1> SUFFICES ASSUME Init PROVE StoreInv
  OBVIOUS
<1>1. PICK text \in Hand : file = File(text, TRUE, FALSE)
  BY DEF Init
<1>2. file \in Files /\ NoFile \in Files
  BY <1>1, PolicyStoreAssumption DEF Files, File, NoFile
<1>3. Sound(file)
  BY <1>1 DEF Sound, File, Good
<1>4. /\ temp = NoFile /\ undo = {} /\ pc = "idle" /\ saves = 0 /\ last = Unknown
      /\ 0 \in 0..MaxSaves
  BY PolicyStoreAssumption DEF Init
<1>5. TypeOK
  BY <1>2, <1>4 DEF TypeOK
<1> QED
  BY <1>3, <1>4, <1>5 DEF StoreInv, TempInv, FileInv

\* Each operation of save, each failure, and each way the machine may stop.
LEMMA StoreStep == StoreInv /\ [Next]_vars => StoreInv'
<1> SUFFICES ASSUME StoreInv, [Next]_vars PROVE StoreInv'
  OBVIOUS
<1>0. /\ TypeOK /\ TempInv /\ FileInv
      /\ NoFile \in Files
      /\ \A text \in Texts : text # Absent
      /\ \A text \in Texts \cup {Absent}, s \in BOOLEAN, f \in BOOLEAN :
           /\ File(text, s, f) \in Files /\ File(text, s, f).text = text
           /\ File(text, s, f).synced = s /\ File(text, s, f).fault = f
  BY PolicyStoreAssumption DEF StoreInv, Files, File, NoFile
<1>1. ASSUME NEW p \in Policies, SaveOpen(p) PROVE StoreInv'
  <2>1. <<>> \in Texts /\ saves' \in 0..MaxSaves
    BY <1>0, <1>1, PolicyStoreAssumption, EmptySeq DEF SaveOpen, TypeOK, Texts
  <2>2. TypeOK'
    <3>1. CASE /\ temp' = File(<<>>, FALSE, FALSE) /\ pc' = "write" /\ saving' = p
               /\ UNCHANGED <<file, undo, last>>
      <4>1. temp' \in Files /\ temp'.text # Absent
        BY <1>0, <2>1, <3>1
      <4> QED
        BY <1>0, <2>1, <3>1, <4>1 DEF TypeOK
    <3>2. CASE UNCHANGED <<temp, pc, saving, file, undo, last>>
      BY <1>0, <2>1, <3>2 DEF TypeOK
    <3> QED
      BY <1>1, <3>1, <3>2 DEF SaveOpen
  <2>3. TempInv' /\ FileInv'
    BY <1>0, <1>1 DEF SaveOpen, TempInv, FileInv
  <2> QED
    BY <2>2, <2>3 DEF StoreInv
<1>2. CASE SaveWrite
  <2>1. saving \in Policies /\ TextOf(saving) \in Texts
        /\ Torn(TextOf(saving)) \subseteq Texts
    BY <1>0, <1>2, TextType, TornType DEF SaveWrite, TypeOK
  <2>2. /\ temp' \in Files /\ temp'.text # Absent
        /\ ~temp'.fault => temp'.text = TextOf(saving)
    BY <1>0, <1>2, <2>1, ZenonT(60) DEF SaveWrite
  <2>3. pc' = "sync" /\ UNCHANGED <<file, undo, saving, saves, last>>
    BY <1>2 DEF SaveWrite
  <2> QED
    BY <1>0, <2>1, <2>2, <2>3 DEF StoreInv, TypeOK, TempInv, FileInv
<1>3. CASE SaveSync
  <2>1. pc = "sync" /\ pc' = "rename" /\ UNCHANGED <<file, undo, saving, saves, last>>
    BY <1>3 DEF SaveSync
  <2>2. /\ temp' \in Files /\ temp'.text = temp.text
        /\ ~temp'.fault => temp'.synced /\ ~temp.fault
    <3>1. temp \in [text : Texts \cup {Absent}, synced : BOOLEAN, fault : BOOLEAN]
      BY <1>0 DEF TypeOK, Files
    <3>2. CASE temp' = [temp EXCEPT !.synced = TRUE]
      BY <3>1, <3>2 DEF Files
    <3>3. CASE temp' = [temp EXCEPT !.fault = TRUE]
      BY <3>1, <3>3 DEF Files
    <3> QED
      BY <1>3, <3>2, <3>3 DEF SaveSync, Synced
  <2> QED
    BY <1>0, <2>1, <2>2 DEF StoreInv, TypeOK, TempInv, FileInv
<1>4. CASE SaveRename
  <2>1. pc = "rename" /\ pc' = "idle" /\ saves' = saves /\ saving \in Policies
    BY <1>0, <1>4 DEF SaveRename, TypeOK
  <2>2. CASE UNCHANGED <<file, temp, undo, last>>
    BY <1>0, <2>1, <2>2 DEF StoreInv, TypeOK, TempInv, FileInv
  <2>3. CASE /\ file' = temp /\ temp' = NoFile /\ undo' = undo \cup {file}
             /\ last' = IF temp.fault THEN Unknown ELSE saving
    <3>1. Sound(temp)
      BY <1>0, <2>1 DEF Sound, TempInv, Good
    <3>2. FileInv'
      BY <1>0, <2>1, <2>3, <3>1 DEF FileInv, TempInv, Sound, Good
    <3> QED
      BY <1>0, <2>1, <2>3, <3>2 DEF StoreInv, TypeOK, TempInv
  <2> QED
    BY <1>4, <2>2, <2>3 DEF SaveRename
<1>5. CASE DirectoryWritten
  BY <1>0, <1>5 DEF DirectoryWritten, StoreInv, TypeOK, TempInv, FileInv
<1>6. CASE ProcessEnds
  BY <1>0, <1>6 DEF ProcessEnds, StoreInv, TypeOK, TempInv, FileInv
<1>7. CASE PowerLoss
  <2>1. PICK f \in {file} \cup undo :
          \E text \in IF f.synced \/ f.text = Absent THEN {f.text}
                      ELSE Torn(f.text) \cup {f.text} :
            file' = File(text, TRUE, f.fault)
    BY <1>7 DEF PowerLoss
  <2>2. PICK text \in IF f.synced \/ f.text = Absent THEN {f.text}
                      ELSE Torn(f.text) \cup {f.text} :
               file' = File(text, TRUE, f.fault)
    BY <2>1
  <2>3. /\ f \in Files /\ f.text \in Texts \cup {Absent}
        /\ f.synced \in BOOLEAN /\ f.fault \in BOOLEAN /\ Sound(f)
    BY <1>0 DEF TypeOK, FileInv, Files
  <2>4. text \in Texts \cup {Absent}
    BY <2>2, <2>3, TornType
  <2>5. file' \in Files /\ Sound(file')
    BY <1>0, <2>2, <2>3, <2>4 DEF Sound
  <2>6. /\ temp' = NoFile /\ undo' = {} /\ pc' = "idle" /\ last' = Unknown
        /\ saves' = saves
    BY <1>7 DEF PowerLoss
  <2> QED
    BY <1>0, <2>5, <2>6 DEF StoreInv, TypeOK, TempInv, FileInv, Sound, Good
<1>8. CASE UNCHANGED vars
  BY <1>0, <1>8 DEF vars, StoreInv, TypeOK, TempInv, FileInv, Sound, Good
<1> QED
  BY <1>1, <1>2, <1>3, <1>4, <1>5, <1>6, <1>7, <1>8 DEF Next

-----------------------------------------------------------------------------
\* The inductive invariant holds in every reachable state.
THEOREM StoreInductive == Spec => []StoreInv
BY StoreInit, StoreStep, PTL DEF Spec

\* Every variable keeps its type; save never goes on without its file.
THEOREM StoreTypes == Spec => []TypeOK
<1>1. StoreInv => TypeOK
  BY DEF StoreInv
<1> QED
  BY <1>1, StoreInductive, PTL

\* Whenever the process ends or the power goes, the policy file is one that was
\* there or the whole text of a policy, unless a write or a sync of it failed.
THEOREM SaveIsAtomic == Spec => []SaveAtomic
<1>1. StoreInv => SaveAtomic
  BY DEF StoreInv, FileInv, Sound, Good, SaveAtomic
<1> QED
  BY <1>1, StoreInductive, PTL

\* load after a save that returned gives back that save's policy, as printed,
\* if its percentages are percentages.
THEOREM LoadAfterSave == Spec => []LoadsWhatWasSaved
<1>1. StoreInv => LoadsWhatWasSaved
  <2> SUFFICES ASSUME StoreInv, last # Unknown
               PROVE  load(file.text) = InRange(Printed(last))
    BY DEF LoadsWhatWasSaved
  <2>1. last \in Policies /\ file.text = TextOf(last)
    BY DEF StoreInv, TypeOK, FileInv
  <2> QED
    BY <2>1, LoadText DEF Printed
<1> QED
  BY <1>1, StoreInductive, PTL
=============================================================================
