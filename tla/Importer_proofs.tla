--------------------------- MODULE Importer_proofs ---------------------------
(***************************************************************************)
(* Proofs about Importer, for any number of files, lines, tools, archives   *)
(* and runs: what a refused import leaves, what a successful one brings,    *)
(* and that it implements ImportBatch.  Faults, cancellations, writers and  *)
(* kills may come at every operation.                                       *)
(***************************************************************************)
EXTENDS Importer, WellFoundedInduction, TLAPS

\* Entry i brings file f, and is the last of the first k entries that does.
IsFile(i, f) == archive[i].kind = "file" /\ archive[i].file = f
LastOf(i, f, k) == i \in 1 .. k /\ IsFile(i, f) /\ \A j \in (i + 1) .. k : ~IsFile(j, f)

Wanted(f) == LastBody(f) # Absent
Listed(f) == \E i \in DOMAIN staged : staged[i] = f
AsFound(f) == final[f] = before.final[f]

\* Types, with the lengths that the positions are compared with.
Typed ==
  /\ archive \in Archives
  /\ final \in [Files -> Content]
  /\ temp \in [Files -> Content \cup {Torn}]
  /\ merged \in [Tools -> [Lines -> {0, 1}]]
  /\ torn \subseteq Appenders
  /\ pc \in Control
  /\ at \in Nat
  /\ staged \in Seq(Files) /\ Len(staged) <= Len(archive)
  /\ backups \in Seq(Content)
  /\ appends \in [Tools -> SUBSET Lines]
  /\ pending \subseteq Lines
  /\ trouble \in BOOLEAN /\ residue \in BOOLEAN
  /\ before.final \in [Files -> Content]
  /\ before.temp \in [Files -> Content \cup {Torn}]
  /\ before.merged \in [Tools -> [Lines -> {0, 1}]]
  /\ runs \in 0 .. MaxRuns

\* The first k entries are staged: bodies in the temps, lines in memory.
StagedUpTo(k) ==
  /\ \A f \in Files : \A i \in 1 .. k : LastOf(i, f, k) => Listed(f) /\ temp[f] = archive[i].body
  /\ \A i \in DOMAIN staged : \E j \in 1 .. k : IsFile(j, staged[i])
  /\ \A i \in 1 .. k : archive[i].kind = "line" => archive[i].line \in appends[archive[i].tool]

LinesCollected ==
  \A i \in DOMAIN archive : archive[i].kind = "line" => archive[i].line \in appends[archive[i].tool]

\* Until the merges nothing but temps and renamed files differs from what the
\* run found, and only the temps it has listed.
Contained ==
  pc \in {"stage", "cleanup", "recheck", "promote", "rollback"} =>
    /\ merged = before.merged
    /\ \A f \in Files : ~Listed(f) => temp[f] = before.temp[f]

Staging ==
  /\ pc = "stage" => final = before.final /\ backups = <<>> /\ at <= Len(archive)
                     /\ Len(staged) <= at /\ StagedUpTo(at)
  /\ pc = "recheck" => final = before.final /\ backups = <<>> /\ at = 0
                       /\ StagedUpTo(Len(archive))

Cleaning ==
  pc = "cleanup" =>
    /\ final = before.final
    /\ at <= Len(staged)
    /\ ~residue => \A i \in 1 .. at : temp[staged[i]] = Absent

\* What a rename displaced is what the run found, because each file is renamed
\* at most once: its temp is gone after that.
Displaced ==
  /\ Len(backups) <= Len(staged)
  /\ \A i \in 1 .. Len(backups) : temp[staged[i]] = Absent /\ backups[i] = before.final[staged[i]]
  /\ \A f \in Files : (\A i \in 1 .. Len(backups) : staged[i] # f) => AsFound(f)
  /\ \A f \in Files : AsFound(f) \/ (Wanted(f) /\ final[f] = LastBody(f))

Promoting ==
  pc = "promote" =>
    /\ Displaced
    /\ at = Len(backups)
    /\ LinesCollected
    /\ \A f \in Files : Wanted(f) <=> Listed(f)
    /\ \A i \in 1 .. at : final[staged[i]] = LastBody(staged[i])
    /\ \A i \in DOMAIN staged : temp[staged[i]] \in {Absent, LastBody(staged[i])}

RollingBack ==
  pc = "rollback" =>
    /\ Displaced
    /\ at <= Len(staged)
    /\ ~residue => \A i \in (at + 1) .. Len(staged) :
         /\ temp[staged[i]] = Absent
         /\ i <= Len(backups) => AsFound(staged[i])

\* Every file the archive has is in place; the lines of the tools that are
\* finalized stand in their merged files.
Landing ==
  /\ pc \in {"finalize", "merge", "done", "unmerged"} =>
       \A f \in Files : Wanted(f) => final[f] = LastBody(f) /\ temp[f] = Absent
  /\ pc \in {"finalize", "merge", "done"} => LinesCollected
  /\ pc \in {"finalize", "merge"} =>
       at <= N /\ \A t \in 1 .. at : \A l \in appends[t] : merged[t][l] = 1
  /\ pc = "merge" =>
       /\ at < N
       /\ \A l \in pending : merged[at + 1][l] = 0
       /\ \A l \in appends[at + 1] : l \in pending \/ merged[at + 1][l] = 1
  /\ pc = "done" => \A t \in Tools : \A l \in appends[t] : merged[t][l] = 1

Ended == pc \in Over => at = 0

ImportInv ==
  /\ Typed /\ Contained /\ Staging /\ Cleaning /\ Promoting /\ RollingBack /\ Landing
  /\ RefusedLeavesNoTrace /\ Ended

-----------------------------------------------------------------------------
(* Entries and the last body of a file *)

(* A nonempty set of positions has a last one. *)
LEMMA Greatest ==
  ASSUME NEW n \in Nat, NEW S \in SUBSET (1 .. n), S # {}
  PROVE  \E i \in S : \A j \in S : j <= i
  <1> DEFINE T == {k \in Nat : n - k \in S}
  <1>1. T # {}
    <2>1. PICK i \in S : TRUE
      OBVIOUS
    <2>2. n - i \in Nat /\ n - (n - i) = i
      BY <2>1
    <2> QED
      BY <2>1, <2>2
  <1>2. PICK k \in T : \A l \in T : ~ (<<l, k>> \in OpToRel(<, Nat))
    <2> HIDE DEF T
    <2>1. T \subseteq Nat
      BY DEF T
    <2> QED
      BY <1>1, <2>1, WFMin, NatLessThanWellFounded, Zenon
  <1>3. \A l \in T : ~(l < k)
    BY <1>2, Zenon DEF OpToRel
  <1>4. \A j \in S : j <= n - k
    <2> SUFFICES ASSUME NEW j \in S PROVE j <= n - k
      OBVIOUS
    <2>1. n - j \in Nat /\ n - (n - j) = j
      OBVIOUS
    <2>2. ~(n - j < k)
      BY <1>3, <2>1
    <2> QED
      BY <2>1, <2>2
  <1> QED
    BY <1>4

(* What an entry of an archive is made of. *)
LEMMA EntryFields ==
  ASSUME archive \in Archives
  PROVE  /\ archive \in Seq(Entry) /\ Len(archive) \in Nat /\ DOMAIN archive = 1 .. Len(archive)
         /\ \A i \in DOMAIN archive :
              /\ archive[i].kind \in {"file", "line"}
              /\ archive[i].kind = "file" => /\ archive[i].file \in Files
                                             /\ archive[i].body \in Bodies
                                             /\ archive[i].body \notin {Absent, Torn}
              /\ archive[i].kind = "line" => archive[i].tool \in Tools /\ archive[i].line \in Lines
  <1>1. archive \in Seq(Entry)
    BY ArchivesAssumption
  <1>2. \A i \in DOMAIN archive : archive[i] \in Entry
    BY <1>1
  <1>3. ASSUME NEW e \in Entry
        PROVE  /\ e.kind \in {"file", "line"}
               /\ e.kind = "file" => e.file \in Files /\ e.body \in Bodies
               /\ e.kind = "line" => e.tool \in Tools /\ e.line \in Lines
    BY DEF Entry, FileEntry, LineEntry
  <1>4. \A b \in Bodies : b \notin {Absent, Torn}
    BY ContentAssumption DEF Content
  <1> QED
    BY <1>1, <1>2, <1>3, <1>4

(* LastBody is the body of the last entry of the file, if there is one. *)
LEMMA LastBodies ==
  ASSUME archive \in Archives, NEW f \in Files
  PROVE  /\ \A i \in 1 .. Len(archive) : LastOf(i, f, Len(archive)) =>
              Wanted(f) /\ LastBody(f) = archive[i].body
         /\ Wanted(f) => \E i \in 1 .. Len(archive) : LastOf(i, f, Len(archive))
         /\ LastBody(f) \in Content
         /\ \A i \in 1 .. Len(archive) : IsFile(i, f) => Wanted(f)
  <1> DEFINE n == Len(archive)
             places == {i \in DOMAIN archive : archive[i].kind = "file" /\ archive[i].file = f}
  <1>1. n \in Nat /\ DOMAIN archive = 1 .. n /\ places \in SUBSET (1 .. n)
    BY EntryFields
  <1>2. places = {} => LastBody(f) = Absent
    BY DEF LastBody
  <1>3. ASSUME NEW i \in 1 .. n, LastOf(i, f, n)
        PROVE  LastBody(f) = archive[i].body /\ Wanted(f) /\ LastBody(f) \in Content
    <2>1. i \in places /\ \A j \in places : j <= i
      BY <1>1, <1>3 DEF LastOf, IsFile
    <2>2. \A k \in places : (\A j \in places : j <= k) => k = i
      BY <1>1, <2>1
    <2>3. (CHOOSE k \in places : \A j \in places : j <= k) = i
      BY <2>1, <2>2
    <2>4. LastBody(f) = archive[i].body
      BY <2>1, <2>3 DEF LastBody
    <2>5. archive[i].body \in Bodies /\ archive[i].body # Absent
      BY <1>1, <2>1, EntryFields
    <2> QED
      BY <2>4, <2>5 DEF Wanted, Content
  <1>4. places # {} => \E i \in 1 .. n : LastOf(i, f, n)
    <2> SUFFICES ASSUME places # {} PROVE \E i \in 1 .. n : LastOf(i, f, n)
      OBVIOUS
    <2>1. PICK i \in places : \A j \in places : j <= i
      <3> HIDE DEF places, n
      <3> QED
        BY <1>1, Greatest
    <2>2. i \in 1 .. n /\ IsFile(i, f)
      BY <1>1, <2>1 DEF IsFile
    <2>3. \A j \in (i + 1) .. n : ~IsFile(j, f)
      BY <1>1, <2>1, <2>2 DEF IsFile
    <2> QED
      BY <2>2, <2>3 DEF LastOf
  <1>5. \A i \in 1 .. n : IsFile(i, f) => i \in places
    BY <1>1 DEF IsFile
  <1>6. places = {} => ~Wanted(f) /\ LastBody(f) \in Content
    BY <1>2 DEF Wanted, Content
  <1> HIDE DEF places, n
  <1> QED
    BY <1>3, <1>4, <1>5, <1>6 DEF n

-----------------------------------------------------------------------------
(* Every operation preserves the invariant *)

(* Nothing is staged, collected or displaced at first. *)
LEMMA InitImport == Init => ImportInv
  <1> SUFFICES ASSUME Init PROVE ImportInv
    OBVIOUS
  <1>1. Typed
    <2>1. merged \in [Tools -> [Lines -> {0, 1}]]
      BY DEF Init
    <2>2. Len(staged) <= Len(archive)
      BY EntryFields DEF Init
    <2>3. final \in [Files -> Content] /\ temp \in [Files -> Content \cup {Torn}]
      BY DEF Init, Content
    <2>4. before.final = final /\ before.temp = temp /\ before.merged = merged
      BY DEF Init, Snapshot
    <2>5. staged \in Seq(Files) /\ backups \in Seq(Content) /\ runs \in 0 .. MaxRuns
      BY MaxRunsAssumption DEF Init
    <2>6. appends \in [Tools -> SUBSET Lines] /\ pending \subseteq Lines /\ torn \subseteq Appenders
      BY DEF Init
    <2> QED
      BY <2>1, <2>2, <2>3, <2>4, <2>5, <2>6 DEF Init, Typed, Control
  <1> QED
    BY <1>1 DEF Init, ImportInv, Contained, Staging, Cleaning, Promoting, RollingBack,
       Landing,
                RefusedLeavesNoTrace, Ended, Over

(* A new run finds what it will compare with. *)
LEMMA BeginStep == ImportInv /\ Begin => ImportInv'
  <1> SUFFICES ASSUME ImportInv, Begin PROVE ImportInv'
    OBVIOUS
  <1>1. /\ pc' = "stage" /\ at' = 0 /\ staged' = <<>> /\ backups' = <<>> /\ before' = Snapshot
        /\ archive' = archive /\ final' = final /\ temp' = temp /\ merged' = merged
    BY DEF Begin, Goto, disk
  <1>2. before'.final = final /\ before'.temp = temp /\ before'.merged = merged
    BY <1>1 DEF Snapshot
  <1>3. Len(archive) \in Nat
    BY EntryFields DEF ImportInv, Typed
  <1>4. Typed'
    <2>1. staged' \in Seq(Files) /\ backups' \in Seq(Content) /\ Len(staged') <= Len(archive')
      BY <1>1, <1>3
    <2>2. runs' \in 0 .. MaxRuns
      BY MaxRunsAssumption DEF ImportInv, Typed, Begin
    <2>3. /\ appends' \in [Tools -> SUBSET Lines] /\ pending' \subseteq Lines
          /\ torn' \subseteq Appenders /\ trouble' \in BOOLEAN /\ residue' \in BOOLEAN
      BY DEF ImportInv, Typed, Begin, disk
    <2> QED
      BY <1>1, <1>2, <2>1, <2>2, <2>3 DEF ImportInv, Typed, Control
  <1>5. Contained' /\ StagedUpTo(0)'
    BY <1>1, <1>2 DEF Contained, StagedUpTo, LastOf
  <1>6. Staging'
    BY <1>1, <1>2, <1>3, <1>5 DEF Staging
  <1> QED
    BY <1>1, <1>4, <1>5, <1>6 DEF ImportInv, Cleaning, Promoting, RollingBack, Landing,
                                  RefusedLeavesNoTrace, Ended, Over

(* A killed run answers for nothing but its types. *)
LEMMA KillStep == ImportInv /\ Kill => ImportInv'
  <1> SUFFICES ASSUME ImportInv, Kill PROVE ImportInv'
    OBVIOUS
  <1>1. pc' = "killed" /\ at' = 0
    BY DEF Kill, Goto
  <1>2. torn' \subseteq Appenders
    BY DEF Kill, MergeStops, ImportInv, Typed
  <1>3. Typed'
    BY <1>1, <1>2 DEF ImportInv, Typed, Kill, memory, Control
  <1> QED
    BY <1>1, <1>3 DEF ImportInv, Contained, Staging, Cleaning, Promoting, RollingBack,
       Landing,
                      RefusedLeavesNoTrace, Ended, Over

(* The next entry is staged whole, in its temp or in memory. *)
LEMMA StageWholeStep ==
  ASSUME ImportInv, pc = "stage", at < Len(archive), StageFile \/ StageLine,
         Goto("stage", at + 1), UNCHANGED trouble,
         UNCHANGED <<archive, final, merged, torn, backups, pending, residue, before, runs>>
  PROVE  ImportInv'
  <1>a. PICK k \in Nat : k = at + 1
    BY DEF ImportInv, Typed
  <1>0. /\ k = at + 1 /\ k \in 1 .. Len(archive) /\ k \in DOMAIN archive /\ at \in Nat
        /\ archive' = archive
        /\ Len(archive) \in Nat /\ pc' = "stage" /\ at' = k
        /\ before' = before /\ final' = final /\ backups' = backups /\ merged' = merged
    BY <1>a, EntryFields DEF ImportInv, Typed, Goto
  <1>1. /\ Typed /\ StagedUpTo(at) /\ final = before.final /\ backups = <<>>
        /\ Len(staged) <= at
        /\ merged = before.merged /\ \A f \in Files : ~Listed(f) => temp[f] = before.temp[f]
    BY DEF ImportInv, Staging, Contained
  <1>2. /\ archive[k].kind = "file" => /\ archive[k].file \in Files /\ archive[k].body \in Bodies
        /\ archive[k].kind = "line" => archive[k].tool \in Tools /\ archive[k].line \in Lines
    BY <1>0, <1>1, EntryFields DEF Typed
  <1>3. CASE StageFile
    <2>a. PICK g \in Files : g = archive[k].file
      BY <1>2, <1>3, <1>0 DEF StageFile, Current
    <2>1. /\ archive[k].kind = "file" /\ g = archive[k].file /\ archive[k].body \in Content
          /\ temp' = [temp EXCEPT ![g] = archive[k].body] /\ staged' = Append(staged, g)
          /\ appends' = appends
      BY <1>0, <1>2, <1>3, <2>a DEF StageFile, Current, Content
    <2>2. /\ staged' \in Seq(Files) /\ Len(staged') = Len(staged) + 1
          /\ staged'[Len(staged) + 1] = g
          /\ \A i \in DOMAIN staged : i \in DOMAIN staged' /\ staged'[i] = staged[i]
          /\ DOMAIN staged' = DOMAIN staged \cup {Len(staged) + 1}
      BY <1>1, <2>1 DEF Typed
    <2>3. Typed'
      BY <1>0, <1>1, <2>1, <2>2 DEF Typed
    <2>4. \A f \in Files : Listed(f)' <=> Listed(f) \/ f = g
      BY <2>2 DEF Listed
    <2>5. \A f \in Files : ~Listed(f)' => temp'[f] = before'.temp[f]
      BY <1>0, <1>1, <2>1, <2>4 DEF Typed
    <2>6. ASSUME NEW f \in Files, NEW i \in 1 .. k, LastOf(i, f, k)'
          PROVE  Listed(f)' /\ temp'[f] = archive'[i].body
      <3>1. CASE f = g
        <4>1. IsFile(k, f)
          BY <2>1, <3>1 DEF IsFile
        <4>2. i = k
          BY <1>0, <2>6, <4>1 DEF LastOf, IsFile
        <4> QED
          BY <1>0, <1>1, <2>1, <2>4, <3>1, <4>2 DEF Typed
      <3>2. CASE f # g
        <4>1. i # k
          BY <1>0, <2>1, <2>6, <3>2 DEF LastOf, IsFile
        <4>2. i \in 1 .. at /\ LastOf(i, f, at)
          BY <1>0, <2>6, <4>1 DEF LastOf, IsFile
        <4> QED
          BY <1>0, <1>1, <2>1, <2>4, <3>2, <4>2 DEF StagedUpTo, Typed
      <3> QED
        BY <3>1, <3>2
    <2>7. \A i \in DOMAIN staged' : \E j \in 1 .. k : IsFile(j, staged'[i])
      <3>1. IsFile(k, g)
        BY <1>0, <2>1 DEF IsFile
      <3>2. \A i \in DOMAIN staged : \E j \in 1 .. k : IsFile(j, staged[i])
        BY <1>0, <1>1 DEF StagedUpTo, IsFile
      <3> QED
        BY <1>0, <2>2, <3>1, <3>2
    <2>8. \A i \in 1 .. k : archive'[i].kind = "line" =>
            archive'[i].line \in appends'[archive'[i].tool]
      BY <1>0, <1>1, <2>1 DEF StagedUpTo
    <2>9. StagedUpTo(at)'
      BY <1>0, <2>6, <2>7, <2>8 DEF StagedUpTo, LastOf, IsFile
    <2> QED
      BY <1>0, <1>1, <2>2, <2>3, <2>5, <2>9
         DEF ImportInv, Contained, Staging, Cleaning, Promoting, RollingBack, Landing,
             RefusedLeavesNoTrace, Ended, Over
  <1>4. CASE StageLine
    <2>a. PICK t \in Tools : t = archive[k].tool
      BY <1>2, <1>4, <1>0 DEF StageLine, Current
    <2>1. /\ t = archive[k].tool /\ archive[k].kind = "line" /\ t \in Tools
          /\ archive[k].line \in Lines
          /\ appends' = [appends EXCEPT ![t] = @ \cup {archive[k].line}]
          /\ temp' = temp /\ staged' = staged
      BY <1>0, <1>2, <1>4, <2>a DEF StageLine, Current
    <2>2. Typed'
      BY <1>0, <1>1, <2>1 DEF Typed
    <2>3. ASSUME NEW f \in Files, NEW i \in 1 .. k, LastOf(i, f, k)'
          PROVE  Listed(f)' /\ temp'[f] = archive'[i].body
      <3>1. i # k
        BY <1>0, <2>1, <2>3 DEF LastOf, IsFile
      <3>2. i \in 1 .. at /\ LastOf(i, f, at)
        BY <1>0, <2>3, <3>1 DEF LastOf, IsFile
      <3> QED
        BY <1>0, <1>1, <2>1, <3>2 DEF StagedUpTo, Listed
    <2>4. \A i \in DOMAIN staged' : \E j \in 1 .. k : IsFile(j, staged'[i])
      BY <1>0, <1>1, <2>1 DEF StagedUpTo, IsFile
    <2>5. \A i \in 1 .. k : archive'[i].kind = "line" =>
            archive'[i].line \in appends'[archive'[i].tool]
      <3> SUFFICES ASSUME NEW i \in 1 .. k, archive[i].kind = "line"
                   PROVE  archive[i].line \in appends'[archive[i].tool]
        BY <1>0
      <3>1. archive[i].tool \in Tools
        BY <1>0, <1>1, EntryFields DEF Typed
      <3>2. CASE i = k
        BY <1>1, <2>1, <3>2 DEF Typed
      <3>3. CASE i # k
        <4>1. i \in 1 .. at
          BY <1>0, <3>3
        <4>2. archive[i].line \in appends[archive[i].tool]
          BY <1>1, <4>1 DEF StagedUpTo
        <4> QED
          BY <1>1, <2>1, <3>1, <4>2 DEF Typed
      <3> QED
        BY <3>2, <3>3
    <2>6. StagedUpTo(at)'
      BY <1>0, <2>3, <2>4, <2>5 DEF StagedUpTo, LastOf, IsFile
    <2> QED
      BY <1>0, <1>1, <2>1, <2>2, <2>6
         DEF ImportInv, Contained, Staging, Cleaning, Promoting, RollingBack, Landing,
             RefusedLeavesNoTrace, Ended, Over, Listed
  <1> QED
    BY <1>3, <1>4

(* A failed entry may leave its temp, which is then listed. *)
LEMMA StageFailsStep ==
  ASSUME ImportInv, pc = "stage", at < Len(archive), StageFails,
         Goto("cleanup", 0), trouble' = TRUE,
         UNCHANGED <<archive, final, merged, torn, backups, pending, residue, before, runs>>
  PROVE  ImportInv'
  <1> DEFINE k == at + 1
  <1>0. /\ k \in DOMAIN archive /\ at \in Nat /\ archive' = archive /\ Len(archive) \in Nat
        /\ pc' = "cleanup" /\ at' = 0
        /\ before' = before /\ final' = final /\ backups' = backups /\ merged' = merged
    BY EntryFields DEF ImportInv, Typed, Goto
  <1>1. /\ Typed /\ final = before.final /\ Len(staged) <= at
        /\ merged = before.merged /\ \A f \in Files : ~Listed(f) => temp[f] = before.temp[f]
    BY DEF ImportInv, Staging, Contained
  <1>2. Typed' /\ \A f \in Files : ~Listed(f)' => temp'[f] = before'.temp[f]
    <2>1. CASE UNCHANGED <<temp, staged, appends>>
      BY <1>0, <1>1, <2>1 DEF Typed, Control, Listed
    <2>2. CASE /\ Current.kind = "file"
               /\ temp' \in {temp, [temp EXCEPT ![Current.file] = Torn]}
               /\ staged' = Append(staged, Current.file)
               /\ UNCHANGED appends
      <3>1. Current.file \in Files
        BY <1>0, <1>1, <2>2, EntryFields DEF Typed, Current
      <3>2. /\ staged' \in Seq(Files) /\ Len(staged') = Len(staged) + 1
            /\ staged'[Len(staged) + 1] = Current.file
            /\ \A i \in DOMAIN staged : i \in DOMAIN staged' /\ staged'[i] = staged[i]
            /\ Len(staged) + 1 \in DOMAIN staged'
        BY <1>1, <2>2, <3>1 DEF Typed
      <3>3. temp' \in [Files -> Content \cup {Torn}]
        BY <1>1, <2>2, <3>1 DEF Typed
      <3>4. Typed'
        BY <1>0, <1>1, <2>2, <3>2, <3>3 DEF Typed, Control
      <3>5. \A f \in Files : ~Listed(f)' => ~Listed(f) /\ f # Current.file
        BY <3>2 DEF Listed
      <3> QED
        BY <1>0, <1>1, <2>2, <3>1, <3>4, <3>5 DEF Typed
    <2> QED
      BY <2>1, <2>2 DEF StageFails
  <1>3. 0 <= Len(staged')
    BY <1>2 DEF Typed
  <1> QED
    BY <1>0, <1>1, <1>2, <1>3
       DEF ImportInv, Contained, Staging, Cleaning, Promoting, RollingBack, Landing,
           RefusedLeavesNoTrace, Ended, Over

(* All entries are staged; the recheck follows. *)
LEMMA StageEndStep ==
  ASSUME ImportInv, pc = "stage", at = Len(archive), Goto("recheck", 0),
         UNCHANGED <<temp, staged, appends, trouble>>,
         UNCHANGED <<archive, final, merged, torn, backups, pending, residue, before, runs>>
  PROVE  ImportInv'
  <1>0. pc' = "recheck" /\ at' = 0
    BY DEF Goto
  <1>1. Typed'
    BY <1>0 DEF ImportInv, Typed, Control
  <1>2. StagedUpTo(Len(archive))'
    BY DEF ImportInv, Staging, StagedUpTo, LastOf, IsFile, Listed
  <1> QED
    BY <1>0, <1>1, <1>2
       DEF ImportInv, Contained, Staging, Cleaning, Promoting, RollingBack, Landing,
           RefusedLeavesNoTrace, Ended, Over, Listed

(* Stage, whichever way an entry goes. *)
LEMMA StageStep == ImportInv /\ Stage => ImportInv'
  <1> SUFFICES ASSUME ImportInv, Stage PROVE ImportInv'
    OBVIOUS
  <1> QED
    BY StageWholeStep, StageFailsStep, StageEndStep DEF Stage

(* One listed temp is removed, or reported. *)
LEMMA CleanupStep == ImportInv /\ Cleanup => ImportInv'
  <1> SUFFICES ASSUME ImportInv, Cleanup PROVE ImportInv'
    OBVIOUS
  <1>0. /\ pc = "cleanup" /\ Typed /\ final = before.final /\ merged = before.merged
        /\ at \in Nat /\ at <= Len(staged) /\ Len(staged) \in Nat /\ residue \in BOOLEAN
        /\ \A f \in Files : ~Listed(f) => temp[f] = before.temp[f]
        /\ ~residue => \A i \in 1 .. at : temp[staged[i]] = Absent
    BY DEF ImportInv, Typed, Contained, Cleaning, Cleanup
  <1>1. /\ archive' = archive /\ final' = final /\ merged' = merged /\ torn' = torn
        /\ staged' = staged /\ backups' = backups /\ appends' = appends /\ pending' = pending
        /\ trouble' = trouble /\ before' = before /\ runs' = runs
    BY DEF Cleanup, memory
  <1>2. CASE at < Len(staged)
    <2>1. PICK k \in 1 .. Len(staged) : k = at + 1
      BY <1>0, <1>2
    <2>2. staged[k] \in Files /\ k \in DOMAIN staged
      BY <1>0, <2>1 DEF Typed
    <2>3. /\ pc' = "cleanup" /\ at' = k
          /\ \/ temp' = [temp EXCEPT ![staged[k]] = Absent] /\ residue' = residue
             \/ residue' = TRUE /\ temp' = temp
      BY <1>0, <1>2, <2>1 DEF Cleanup, Goto
    <2>4. Typed'
      <3>1. temp' \in [Files -> Content \cup {Torn}] /\ residue' \in BOOLEAN
        BY <1>0, <2>2, <2>3 DEF Typed, Content
      <3>2. at' \in Nat /\ pc' \in Control
        BY <2>3 DEF Control
      <3> QED
        BY <1>0, <1>1, <3>1, <3>2 DEF Typed
    <2>5. \A f \in Files : ~Listed(f)' => temp'[f] = before'.temp[f]
      <3>1. Listed(staged[k])
        BY <2>2 DEF Listed
      <3> QED
        BY <1>0, <1>1, <2>2, <2>3, <3>1 DEF Typed, Listed
    <2>6. ~residue' => \A i \in 1 .. k : temp'[staged[i]] = Absent
      <3>1. \A i \in 1 .. k : staged[i] \in Files
        BY <1>0, <2>1 DEF Typed
      <3>2. \A i \in 1 .. k : i = k \/ i \in 1 .. at
        BY <1>0, <2>1
      <3> QED
        BY <1>0, <2>2, <2>3, <3>1, <3>2 DEF Typed
    <2>7. k <= Len(staged')
      BY <1>1, <2>1
    <2> QED
      BY <1>0, <1>1, <2>3, <2>4, <2>5, <2>6, <2>7
         DEF ImportInv, Contained, Staging, Cleaning, Promoting, RollingBack, Landing,
             RefusedLeavesNoTrace, Ended, Over
  <1>3. CASE at = Len(staged)
    <2>1. pc' = "refused" /\ at' = 0 /\ temp' = temp /\ residue' = residue
      BY <1>0, <1>3 DEF Cleanup, Goto
    <2>2. Typed'
      BY <1>0, <1>1, <2>1 DEF Typed, Control
    <2>3. ~residue => \A f \in Files : temp[f] \in {Absent, before.temp[f]}
      <3>1. \A f \in Files : Listed(f) => \E i \in 1 .. at : staged[i] = f
        BY <1>0, <1>3 DEF Listed, Typed
      <3> QED
        BY <1>0, <3>1
    <2> QED
      BY <1>0, <1>1, <2>1, <2>2, <2>3
         DEF ImportInv, Contained, Staging, Cleaning, Promoting, RollingBack, Landing,
             RefusedLeavesNoTrace, Ended, Over
  <1> QED
    BY <1>0, <1>2, <1>3 DEF Cleanup

(* The run goes on to the renames, each temp holding the last body of its
   file, or back out. *)
LEMMA RecheckStep == ImportInv /\ Recheck => ImportInv'
  <1> SUFFICES ASSUME ImportInv, Recheck PROVE ImportInv'
    OBVIOUS
  <1>0. /\ pc = "recheck" /\ Typed /\ final = before.final /\ merged = before.merged
        /\ backups = <<>> /\ Len(staged) \in Nat /\ StagedUpTo(Len(archive))
        /\ \A f \in Files : ~Listed(f) => temp[f] = before.temp[f]
    BY DEF ImportInv, Typed, Contained, Staging, Recheck
  <1>1. /\ archive' = archive /\ final' = final /\ temp' = temp /\ merged' = merged
        /\ torn' = torn
        /\ staged' = staged /\ backups' = backups /\ appends' = appends /\ pending' = pending
        /\ residue' = residue /\ before' = before /\ runs' = runs /\ at' = 0
        /\ pc' \in {"promote", "cleanup"}
    BY DEF Recheck, memory, disk, Goto
  <1>2. Typed'
    <2>1. trouble' \in BOOLEAN
      BY <1>0 DEF Recheck, Typed
    <2> QED
      BY <1>0, <1>1, <2>1 DEF Typed, Control
  <1>3. Contained'
    BY <1>0, <1>1 DEF Contained, Listed
  <1>4. Cleaning'
    BY <1>0, <1>1 DEF Cleaning
  <1>5. Promoting'
    <2>1. Displaced'
      BY <1>0, <1>1 DEF Displaced, AsFound
    <2>2. LinesCollected'
      BY <1>0, <1>1, EntryFields DEF LinesCollected, StagedUpTo, Typed
    <2>3. \A f \in Files : Wanted(f) <=> Listed(f)
      <3> SUFFICES ASSUME NEW f \in Files PROVE Wanted(f) <=> Listed(f)
        OBVIOUS
      <3>1. Wanted(f) => Listed(f)
        BY <1>0, LastBodies DEF StagedUpTo, Typed
      <3>2. Listed(f) => Wanted(f)
        BY <1>0, LastBodies DEF StagedUpTo, Typed, Listed
      <3> QED
        BY <3>1, <3>2
    <2>4. \A i \in DOMAIN staged : temp[staged[i]] = LastBody(staged[i])
      <3> SUFFICES ASSUME NEW i \in DOMAIN staged PROVE temp[staged[i]] = LastBody(staged[i])
        OBVIOUS
      <3>1. PICK f \in Files : f = staged[i]
        BY <1>0 DEF Typed
      <3>2. Wanted(f)
        BY <2>3, <3>1 DEF Listed
      <3>3. PICK j \in 1 .. Len(archive) : LastOf(j, f, Len(archive))
        BY <1>0, <3>2, LastBodies DEF Typed
      <3>4. LastBody(f) = archive[j].body
        BY <1>0, <3>3, LastBodies DEF Typed
      <3>5. temp[f] = archive[j].body
        BY <1>0, <3>3 DEF StagedUpTo
      <3> QED
        BY <3>1, <3>4, <3>5
    <2>5. \A f \in Files : Wanted(f)' <=> Listed(f)'
      BY <1>1, <2>3 DEF Wanted, Listed, LastBody
    <2>6. \A i \in DOMAIN staged' : temp'[staged'[i]] \in {Absent, LastBody(staged[i])'}
      BY <1>1, <2>4 DEF LastBody
    <2>7. at' = Len(backups') /\ \A i \in 1 .. at' : FALSE
      BY <1>0, <1>1
    <2> QED
      BY <2>1, <2>2, <2>5, <2>6, <2>7 DEF Promoting
  <1> QED
    BY <1>0, <1>1, <1>2, <1>3, <1>4, <1>5
       DEF ImportInv, Staging, RollingBack, Landing, RefusedLeavesNoTrace, Ended, Over

(* One rename: the file had its temp, so it was not renamed before. *)
LEMMA PromoteOneStep ==
  ASSUME ImportInv, pc = "promote", at < Len(staged), temp[staged[at + 1]] # Absent,
         PromoteOne(staged[at + 1]), Goto("promote", at + 1), UNCHANGED trouble,
         UNCHANGED <<archive, merged, torn, staged, appends, pending, residue, before, runs>>
  PROVE  ImportInv'
  <1>0. /\ Typed /\ merged = before.merged /\ Displaced /\ at = Len(backups) /\ LinesCollected
        /\ at \in Nat /\ Len(staged) \in Nat /\ backups \in Seq(Content)
        /\ \A f \in Files : ~Listed(f) => temp[f] = before.temp[f]
        /\ \A f \in Files : Wanted(f) <=> Listed(f)
        /\ \A i \in 1 .. at : final[staged[i]] = LastBody(staged[i])
        /\ \A i \in DOMAIN staged : temp[staged[i]] \in {Absent, LastBody(staged[i])}
    BY DEF ImportInv, Typed, Contained, Promoting
  <1>1. PICK k \in 1 .. Len(staged) : k = at + 1
    BY <1>0
  <1>2. PICK g \in Files : g = staged[k]
    BY <1>0, <1>1 DEF Typed
  <1>3. /\ pc' = "promote" /\ at' = k /\ final' = [final EXCEPT ![g] = temp[g]]
        /\ temp' = [temp EXCEPT ![g] = Absent] /\ backups' = Append(backups, final[g])
    BY <1>1, <1>2 DEF PromoteOne, Goto
  <1>4. /\ Listed(g) /\ Wanted(g) /\ temp[g] = LastBody(g) /\ LastBody(g) \in Content
        /\ k \in DOMAIN staged
    <2>1. k \in DOMAIN staged
      BY <1>0, <1>1 DEF Typed
    <2>2. Listed(g)
      BY <1>2, <2>1 DEF Listed
    <2>3. temp[g] = LastBody(g)
      BY <1>0, <1>1, <1>2, <2>1
    <2>4. LastBody(g) \in Content
      BY <1>0, LastBodies DEF Typed
    <2> QED
      BY <1>0, <2>1, <2>2, <2>3, <2>4
  <1>5. \A i \in 1 .. at : staged[i] \in Files /\ staged[i] # g
    BY <1>0, <1>1, <1>2 DEF Displaced, Typed
  <1>6. /\ backups' \in Seq(Content) /\ Len(backups') = k /\ backups'[k] = final[g]
        /\ \A i \in 1 .. at : backups'[i] = backups[i]
        /\ \A i \in 1 .. k : i = k \/ i \in 1 .. at
    BY <1>0, <1>1, <1>2, <1>3 DEF Typed
  <1>7. Typed'
    <2>1. final' \in [Files -> Content] /\ temp' \in [Files -> Content \cup {Torn}]
      BY <1>0, <1>2, <1>3, <1>4 DEF Typed, Content
    <2> QED
      BY <1>0, <1>3, <1>6, <2>1 DEF Typed, Control
  <1>8. Contained'
    <2>1. \A f \in Files : ~Listed(f) => temp'[f] = before.temp[f]
      BY <1>0, <1>2, <1>3, <1>4 DEF Typed
    <2> QED
      BY <1>0, <2>1 DEF Contained, Listed
  <1>9. Displaced'
    <2>1. Len(backups') <= Len(staged)
      BY <1>1, <1>6
    <2>2. \A i \in 1 .. k : temp'[staged[i]] = Absent /\ backups'[i] = before.final[staged[i]]
      <3>1. \A i \in 1 .. at : temp'[staged[i]] = Absent /\ backups'[i] = before.final[staged[i]]
        BY <1>0, <1>3, <1>5, <1>6 DEF Displaced, Typed
      <3>2. final[g] = before.final[g]
        BY <1>0, <1>5, <1>2 DEF Displaced, AsFound
      <3>3. temp'[g] = Absent
        BY <1>0, <1>2, <1>3 DEF Typed
      <3> QED
        BY <1>2, <1>6, <3>1, <3>2, <3>3
    <2>3. \A f \in Files : (\A i \in 1 .. k : staged[i] # f) => final'[f] = before.final[f]
      <3> SUFFICES ASSUME NEW f \in Files, \A i \in 1 .. k : staged[i] # f
                   PROVE  final'[f] = before.final[f]
        OBVIOUS
      <3>1. f # g
        BY <1>1, <1>2
      <3>2. final[f] = before.final[f]
        BY <1>0, <1>1 DEF Displaced, AsFound
      <3> QED
        BY <1>0, <1>2, <1>3, <3>1, <3>2 DEF Typed
    <2>4. \A f \in Files : final'[f] = before.final[f] \/ (Wanted(f) /\ final'[f] = LastBody(f))
      BY <1>0, <1>2, <1>3, <1>4 DEF Displaced, AsFound, Typed
    <2>5. \A f \in Files : (Wanted(f)' <=> Wanted(f)) /\ LastBody(f)' = LastBody(f)
      BY DEF Wanted, LastBody
    <2> QED
      BY <1>6, <2>1, <2>2, <2>3, <2>4, <2>5 DEF Displaced, AsFound
  <1>10. Promoting'
    <2>1. \A f \in Files : /\ Wanted(f)' <=> Wanted(f)
                           /\ LastBody(f)' = LastBody(f) /\ (Listed(f)' <=> Listed(f))
      BY DEF Wanted, LastBody, Listed
    <2>2. \A i \in 1 .. k : final'[staged[i]] = LastBody(staged[i])
      <3>1. \A i \in 1 .. at : final'[staged[i]] = LastBody(staged[i])
        BY <1>0, <1>2, <1>3, <1>5 DEF Typed
      <3>2. final'[g] = LastBody(g)
        BY <1>0, <1>2, <1>3, <1>4 DEF Typed
      <3> QED
        BY <1>2, <1>6, <3>1, <3>2
    <2>3. \A i \in DOMAIN staged : temp'[staged[i]] \in {Absent, LastBody(staged[i])}
      <3>1. \A i \in DOMAIN staged : staged[i] \in Files
        BY <1>0 DEF Typed
      <3> QED
        BY <1>0, <1>2, <1>3, <3>1 DEF Typed
    <2>4. LinesCollected'
      BY <1>0 DEF LinesCollected
    <2>5. \A i \in 1 .. k : staged[i] \in Files
      BY <1>0, <1>1 DEF Typed
    <2>6. \A i \in DOMAIN staged : staged[i] \in Files
      BY <1>0 DEF Typed
    <2>7. \A f \in Files : Wanted(f)' <=> Listed(f)'
      BY <1>0, <2>1
    <2>8. \A i \in 1 .. at' : final'[staged'[i]] = LastBody(staged[i])'
      BY <1>3, <2>1, <2>2, <2>5
    <2>9. \A i \in DOMAIN staged' : temp'[staged'[i]] \in {Absent, LastBody(staged[i])'}
      BY <2>1, <2>3, <2>6
    <2> QED
      BY <1>3, <1>6, <1>9, <2>4, <2>7, <2>8, <2>9 DEF Promoting
  <1> QED
    BY <1>3, <1>7, <1>8, <1>10
       DEF ImportInv, Staging, Cleaning, RollingBack, Landing, RefusedLeavesNoTrace, Ended, Over

(* A failure of the batch turns back from the last listed file. *)
LEMMA PromoteFailsStep ==
  ASSUME ImportInv, pc = "promote", Goto("rollback", Len(staged)), trouble' \in BOOLEAN,
         UNCHANGED <<final, temp, backups>>,
         UNCHANGED <<archive, merged, torn, staged, appends, pending, residue, before, runs>>
  PROVE  ImportInv'
  <1>0. Typed /\ Displaced /\ Len(staged) \in Nat
    BY DEF ImportInv, Typed, Promoting
  <1>1. pc' = "rollback" /\ at' = Len(staged)
    BY DEF Goto
  <1>2. Typed'
    BY <1>0, <1>1 DEF Typed, Control
  <1>3. Displaced'
    <2>1. \A f \in Files : (Wanted(f)' <=> Wanted(f)) /\ LastBody(f)' = LastBody(f)
      BY DEF Wanted, LastBody
    <2> QED
      BY <1>0, <2>1 DEF Displaced, AsFound
  <1>4. RollingBack'
    BY <1>0, <1>1, <1>3 DEF RollingBack
  <1>5. Contained'
    BY DEF ImportInv, Contained, Listed
  <1> QED
    BY <1>1, <1>2, <1>4, <1>5
       DEF ImportInv, Staging, Cleaning, Promoting, Landing, RefusedLeavesNoTrace, Ended, Over

(* Every listed file is renamed, so every file of the archive is in place. *)
LEMMA PromoteEndStep ==
  ASSUME ImportInv, pc = "promote", at = Len(staged), Goto("finalize", 0),
         UNCHANGED <<final, temp, backups, trouble>>,
         UNCHANGED <<archive, merged, torn, staged, appends, pending, residue, before, runs>>
  PROVE  ImportInv'
  <1>0. /\ Typed /\ Displaced /\ LinesCollected /\ at = Len(backups) /\ Len(staged) \in Nat
        /\ \A f \in Files : Wanted(f) <=> Listed(f)
        /\ \A i \in 1 .. at : final[staged[i]] = LastBody(staged[i])
    BY DEF ImportInv, Typed, Promoting
  <1>1. pc' = "finalize" /\ at' = 0
    BY DEF Goto
  <1>2. Typed'
    BY <1>0, <1>1 DEF Typed, Control
  <1>3. \A f \in Files : Wanted(f) => final[f] = LastBody(f) /\ temp[f] = Absent
    <2> SUFFICES ASSUME NEW f \in Files, Wanted(f) PROVE final[f] = LastBody(f) /\ temp[f] = Absent
      OBVIOUS
    <2>1. PICK i \in DOMAIN staged : staged[i] = f
      BY <1>0 DEF Listed
    <2>2. i \in 1 .. at
      <3>0. staged \in Seq(Files)
        BY <1>0 DEF Typed
      <3>1. DOMAIN staged = 1 .. Len(staged)
        BY <3>0
      <3> QED
        BY <2>1, <3>1
    <2> QED
      BY <1>0, <2>1, <2>2 DEF Displaced
  <1>4. Landing'
    <2>0. \A f \in Files : (Wanted(f)' <=> Wanted(f)) /\ LastBody(f)' = LastBody(f)
      BY DEF Wanted, LastBody
    <2>1. \A f \in Files : Wanted(f)' => final'[f] = LastBody(f)' /\ temp'[f] = Absent
      BY <1>3, <2>0
    <2>2. LinesCollected' /\ at' <= N
      BY <1>0, <1>1, NAssumption DEF LinesCollected
    <2> QED
      BY <1>1, <2>1, <2>2 DEF Landing
  <1> QED
    BY <1>1, <1>2, <1>4
       DEF ImportInv, Contained, Staging, Cleaning, Promoting, RollingBack,
             RefusedLeavesNoTrace, Ended, Over

(* Promote, whichever way a rename goes. *)
LEMMA PromoteStep == ImportInv /\ Promote => ImportInv'
  <1> SUFFICES ASSUME ImportInv, Promote PROVE ImportInv'
    OBVIOUS
  <1>1. trouble \in BOOLEAN
    BY DEF ImportInv, Typed
  <1>2. /\ pc = "promote"
        /\ UNCHANGED <<archive, merged, torn, staged, appends, pending, residue, before, runs>>
    BY DEF Promote
  <1>3. CASE /\ at < Len(staged) /\ temp[staged[at + 1]] # Absent /\ PromoteOne(staged[at + 1])
             /\ Goto("promote", at + 1) /\ UNCHANGED trouble
    BY <1>2, <1>3, PromoteOneStep
  <1>4. CASE Goto("rollback", Len(staged)) /\ trouble' \in {trouble, TRUE}
             /\ UNCHANGED <<final, temp, backups>>
    <2>1. trouble' \in BOOLEAN
      BY <1>1, <1>4
    <2> QED
      BY <1>2, <1>4, <2>1, PromoteFailsStep
  <1>5. CASE at = Len(staged) /\ Goto("finalize", 0) /\ UNCHANGED <<final, temp, backups, trouble>>
    BY <1>2, <1>5, PromoteEndStep
  <1> QED
    BY <1>3, <1>4, <1>5 DEF Promote

(* One entry is undone: the displaced content put back, or its temp removed. *)
LEMMA RollbackStep == ImportInv /\ Rollback => ImportInv'
  <1> SUFFICES ASSUME ImportInv, Rollback PROVE ImportInv'
    OBVIOUS
  <1>0. /\ pc = "rollback" /\ Typed /\ Displaced /\ merged = before.merged
        /\ at \in Nat /\ at <= Len(staged) /\ Len(staged) \in Nat /\ Len(backups) \in Nat
        /\ residue \in BOOLEAN
        /\ \A f \in Files : ~Listed(f) => temp[f] = before.temp[f]
        /\ ~residue => \A i \in (at + 1) .. Len(staged) :
             temp[staged[i]] = Absent /\ (i <= Len(backups) => AsFound(staged[i]))
    BY DEF ImportInv, Typed, Contained, RollingBack, Rollback
  <1>1. /\ archive' = archive /\ merged' = merged /\ torn' = torn /\ staged' = staged
        /\ backups' = backups /\ appends' = appends /\ pending' = pending
        /\ trouble' = trouble /\ before' = before /\ runs' = runs
    BY DEF Rollback, memory
  <1>2. CASE at > 0
    <2>1. PICK k \in 1 .. Len(staged) : k = at
      BY <1>0, <1>2
    <2>2. PICK g \in Files : g = staged[k] /\ k \in DOMAIN staged
      BY <1>0, <2>1 DEF Typed
    <2>3. /\ pc' = "rollback" /\ at' = k - 1 /\ k - 1 \in Nat /\ k - 1 <= Len(staged)
      BY <1>0, <1>2, <2>1 DEF Rollback, Goto
    <2>4. \/ /\ k <= Len(backups) /\ final' = [final EXCEPT ![g] = before.final[g]] /\ temp' = temp
             /\ residue' = residue
          \/ /\ k > Len(backups) /\ temp' = [temp EXCEPT ![g] = Absent] /\ final' = final
             /\ residue' = residue
          \/ residue' = TRUE /\ final' = final /\ temp' = temp
      <3>1. k <= Len(backups) => backups[k] = before.final[g]
        BY <1>0, <2>1, <2>2 DEF Displaced
      <3>2. \/ RollbackOne(k) /\ residue' = residue
            \/ residue' = TRUE /\ final' = final /\ temp' = temp
        BY <1>0, <1>2, <2>1 DEF Rollback
      <3> QED
        BY <2>2, <3>1, <3>2 DEF RollbackOne
    <2>5. Typed'
      <3>1. /\ final' \in [Files -> Content] /\ temp' \in [Files -> Content \cup {Torn}]
            /\ residue' \in BOOLEAN
        BY <1>0, <2>2, <2>4 DEF Typed, Content
      <3> QED
        BY <1>0, <1>1, <2>3, <3>1 DEF Typed, Control
    <2>6. Contained'
      <3>1. Listed(g)
        BY <2>2 DEF Listed
      <3>2. \A f \in Files : ~Listed(f) => temp'[f] = before.temp[f]
        BY <1>0, <2>2, <2>4, <3>1 DEF Typed
      <3> QED
        BY <1>0, <1>1, <3>2 DEF Contained, Listed
    <2>7. \A f \in Files : /\ final'[f] = final[f] \/ final'[f] = before.final[f]
                           /\ temp[f] = Absent => temp'[f] = Absent
      BY <1>0, <2>2, <2>4 DEF Typed
    <2>8. \A i \in DOMAIN staged : staged[i] \in Files
      BY <1>0 DEF Typed
    <2>9. Displaced'
      <3>1. \A i \in 1 .. Len(backups) : temp'[staged[i]] = Absent
        <4>1. \A i \in 1 .. Len(backups) : i \in DOMAIN staged
          BY <1>0 DEF Displaced, Typed
        <4> QED
          BY <1>0, <2>7, <2>8, <4>1 DEF Displaced
      <3>2. \A f \in Files : AsFound(f) => final'[f] = before.final[f]
        BY <2>7 DEF AsFound
      <3>3. \A f \in Files : (Wanted(f)' <=> Wanted(f)) /\ LastBody(f)' = LastBody(f)
        BY <1>1 DEF Wanted, LastBody
      <3>4. \A f \in Files : final'[f] = before.final[f] \/ (Wanted(f) /\ final'[f] = LastBody(f))
        BY <1>0, <2>7 DEF Displaced, AsFound
      <3> QED
        BY <1>0, <1>1, <3>1, <3>2, <3>3, <3>4 DEF Displaced, AsFound
    <2>10. ~residue' => \A i \in k .. Len(staged) :
             temp'[staged[i]] = Absent /\ (i <= Len(backups) => final'[staged[i]] = before.final[staged[i]])
      <3> SUFFICES ASSUME ~residue', NEW i \in k .. Len(staged)
                   PROVE  /\ temp'[staged[i]] = Absent
                          /\ i <= Len(backups) => final'[staged[i]] = before.final[staged[i]]
        OBVIOUS
      <3>1. ~residue /\ staged[i] \in Files
        <4>1. i \in DOMAIN staged
          BY <1>0, <2>1 DEF Typed
        <4> QED
          BY <2>4, <2>8, <4>1
      <3>2. CASE i = k
        <4>1. CASE k <= Len(backups)
          <5>1. temp[g] = Absent
            BY <1>0, <2>1, <2>2, <4>1 DEF Displaced
          <5>2. final'[g] = before.final[g]
            BY <1>0, <2>2, <2>4, <4>1 DEF Typed
          <5> QED
            BY <2>2, <2>7, <3>2, <5>1, <5>2
        <4>2. CASE k > Len(backups)
          <5>1. temp'[g] = Absent
            BY <1>0, <2>2, <2>4, <4>2 DEF Typed
          <5> QED
            BY <1>0, <2>2, <3>2, <4>2, <5>1
        <4> QED
          BY <1>0, <4>1, <4>2
      <3>3. CASE i # k
        <4>1. i \in (at + 1) .. Len(staged)
          BY <1>0, <2>1, <3>3
        <4>2. temp[staged[i]] = Absent /\ (i <= Len(backups) => AsFound(staged[i]))
          BY <1>0, <3>1, <4>1
        <4> QED
          BY <2>7, <3>1, <4>2 DEF AsFound
      <3> QED
        BY <3>2, <3>3
    <2>11. RollingBack'
      <3>1. (k - 1) + 1 = k
        BY <2>1
      <3> QED
        BY <1>1, <2>3, <2>9, <2>10, <3>1 DEF RollingBack, AsFound
    <2> QED
      BY <2>3, <2>5, <2>6, <2>11
         DEF ImportInv, Staging, Cleaning, Promoting, Landing, RefusedLeavesNoTrace, Ended, Over
  <1>3. CASE at = 0
    <2>1. pc' = "refused" /\ at' = 0 /\ final' = final /\ temp' = temp /\ residue' = residue
      BY <1>0, <1>3 DEF Rollback, Goto
    <2>2. Typed'
      BY <1>0, <1>1, <2>1 DEF Typed, Control
    <2>3. ~residue => RefusedLeavesNoTrace'
      <3> SUFFICES ASSUME ~residue PROVE RefusedLeavesNoTrace'
        OBVIOUS
      <3>1. \A i \in 1 .. Len(staged) :
              temp[staged[i]] = Absent /\ (i <= Len(backups) => AsFound(staged[i]))
        BY <1>0, <1>3
      <3>2. \A f \in Files : temp[f] \in {Absent, before.temp[f]}
        <4>1. \A f \in Files : Listed(f) => \E i \in 1 .. Len(staged) : staged[i] = f
          BY <1>0 DEF Listed, Typed
        <4> QED
          BY <1>0, <3>1, <4>1
      <3>3. \A f \in Files : final[f] = before.final[f]
        <4>1. \A i \in 1 .. Len(backups) : i \in 1 .. Len(staged) /\ i <= Len(backups)
          BY <1>0 DEF Displaced
        <4> QED
          BY <1>0, <3>1, <4>1 DEF Displaced, AsFound
      <3>4. final = before.final
        BY <1>0, <3>3 DEF Typed
      <3> QED
        BY <1>0, <1>1, <2>1, <3>2, <3>4 DEF RefusedLeavesNoTrace
    <2>4. RefusedLeavesNoTrace'
      BY <2>1, <2>3 DEF RefusedLeavesNoTrace
    <2> QED
      BY <2>1, <2>2, <2>4
         DEF ImportInv, Contained, Staging, Cleaning, Promoting, RollingBack, Landing, Ended, Over
  <1> QED
    BY <1>0, <1>2, <1>3

(* A finalizer is entered, cannot parse its file, or was the last. *)
LEMMA FinalizeStep == ImportInv /\ Finalize => ImportInv'
  <1> SUFFICES ASSUME ImportInv, Finalize PROVE ImportInv'
    OBVIOUS
  <1>0. /\ pc = "finalize" /\ Typed /\ LinesCollected /\ at \in Nat /\ at <= N
        /\ \A f \in Files : Wanted(f) => final[f] = LastBody(f) /\ temp[f] = Absent
        /\ \A t \in 1 .. at : \A l \in appends[t] : merged[t][l] = 1
    BY DEF ImportInv, Typed, Landing, Finalize
  <1>1. /\ archive' = archive /\ final' = final /\ temp' = temp /\ merged' = merged
        /\ torn' = torn
        /\ staged' = staged /\ backups' = backups /\ appends' = appends
        /\ trouble' = trouble /\ residue' = residue /\ before' = before /\ runs' = runs
    BY DEF Finalize, disk, history
  <1>2. \A f \in Files : Wanted(f)' => final'[f] = LastBody(f)' /\ temp'[f] = Absent
    <2>1. \A f \in Files : (Wanted(f)' <=> Wanted(f)) /\ LastBody(f)' = LastBody(f)
      BY <1>1 DEF Wanted, LastBody
    <2> QED
      BY <1>0, <1>1, <2>1
  <1>3. LinesCollected'
    BY <1>0, <1>1 DEF LinesCollected
  <1>4. CASE at < N /\ pc' = "merge" /\ at' = at /\ pending' = Missing(at + 1)
    <2>1. PICK t \in Tools : t = at + 1
      BY <1>0, <1>4, NAssumption DEF Tools
    <2>2. appends[t] \subseteq Lines /\ merged[t] \in [Lines -> {0, 1}]
      BY <1>0 DEF Typed
    <2>3. /\ pending' \subseteq Lines /\ \A l \in pending' : merged[t][l] = 0
          /\ \A l \in appends[t] : l \in pending' \/ merged[t][l] = 1
      BY <1>4, <2>1, <2>2 DEF Missing
    <2>4. Typed'
      BY <1>0, <1>1, <1>4, <2>3 DEF Typed, Control
    <2>5. Landing'
      BY <1>0, <1>1, <1>2, <1>3, <1>4, <2>1, <2>3 DEF Landing
    <2> QED
      BY <1>4, <2>4, <2>5
         DEF ImportInv, Contained, Staging, Cleaning, Promoting, RollingBack,
             RefusedLeavesNoTrace, Ended, Over
  <1>5. CASE pc' \in {"unmerged", "done"} /\ at' = 0 /\ pending' = pending /\ (pc' = "done" => at = N)
    <2>1. Typed'
      BY <1>0, <1>1, <1>5 DEF Typed, Control
    <2>2. pc' = "done" => \A t \in Tools : \A l \in appends[t] : merged[t][l] = 1
      BY <1>0, <1>5 DEF Tools
    <2>3. Landing'
      BY <1>1, <1>2, <1>3, <1>5, <2>2 DEF Landing
    <2> QED
      BY <1>5, <2>1, <2>3
         DEF ImportInv, Contained, Staging, Cleaning, Promoting, RollingBack,
             RefusedLeavesNoTrace, Ended, Over
  <1> QED
    BY <1>4, <1>5 DEF Finalize, Goto

(* Only lines that were missing are written, each once. *)
LEMMA MergeStep == ImportInv /\ Merge => ImportInv'
  <1> SUFFICES ASSUME ImportInv, Merge PROVE ImportInv'
    OBVIOUS
  <1>0. /\ pc = "merge" /\ Typed /\ LinesCollected /\ at \in Nat /\ at < N
        /\ \A f \in Files : Wanted(f) => final[f] = LastBody(f) /\ temp[f] = Absent
        /\ \A s \in 1 .. at : \A l \in appends[s] : merged[s][l] = 1
        /\ \A l \in pending : merged[at + 1][l] = 0
        /\ \A l \in appends[at + 1] : l \in pending \/ merged[at + 1][l] = 1
    BY DEF ImportInv, Typed, Landing, Merge
  <1>1. /\ archive' = archive /\ final' = final /\ temp' = temp
        /\ staged' = staged /\ backups' = backups /\ appends' = appends
        /\ residue' = residue /\ before' = before /\ runs' = runs
    BY DEF Merge
  <1>2. \A f \in Files : Wanted(f)' => final'[f] = LastBody(f)' /\ temp'[f] = Absent
    <2>1. \A f \in Files : (Wanted(f)' <=> Wanted(f)) /\ LastBody(f)' = LastBody(f)
      BY <1>1 DEF Wanted, LastBody
    <2> QED
      BY <1>0, <1>1, <2>1
  <1>3. LinesCollected'
    BY <1>0, <1>1 DEF LinesCollected
  <1>4. PICK t \in Tools : t = at + 1
    BY <1>0, NAssumption DEF Tools
  <1>5. /\ merged[t] \in [Lines -> {0, 1}] /\ appends[t] \subseteq Lines
        /\ pending \subseteq Lines
        /\ torn \subseteq Appenders /\ merged \in [Tools -> [Lines -> {0, 1}]]
    BY <1>0 DEF Typed
  <1>6. ASSUME NEW new \in SUBSET pending, merged' = Plus(t, new), pending' = pending \ new,
               UNCHANGED <<torn, pc, at, trouble>>
        PROVE  ImportInv'
    <2>1. /\ merged'[t] = [l \in Lines |-> IF l \in new THEN merged[t][l] + 1 ELSE merged[t][l]]
          /\ \A s \in Tools \ {t} : merged'[s] = merged[s]
          /\ merged' = [merged EXCEPT ![t] = merged'[t]]
      BY <1>5, <1>6 DEF Plus
    <2>2. \A l \in Lines : merged'[t][l] = IF l \in new THEN 1 ELSE merged[t][l]
      BY <1>0, <1>4, <1>5, <2>1
    <2>3. merged'[t] \in [Lines -> {0, 1}]
      <3>1. \A l \in Lines : merged'[t][l] \in {0, 1}
        BY <1>5, <2>2
      <3> QED
        BY <2>1, <3>1
    <2>4. merged' \in [Tools -> [Lines -> {0, 1}]]
      BY <1>5, <2>1, <2>3
    <2>5. pending' \subseteq Lines
      BY <1>5, <1>6
    <2>6. Typed'
      BY <1>0, <1>1, <1>6, <2>4, <2>5 DEF Typed
    <2>7. \A s \in 1 .. at : \A l \in appends[s] : merged'[s][l] = 1
      <3>1. \A s \in 1 .. at : s \in Tools \ {t}
        BY <1>0, <1>4, NAssumption DEF Tools
      <3> QED
        BY <1>0, <2>1, <3>1
    <2>8. \A l \in pending' : merged'[t][l] = 0
      BY <1>0, <1>4, <1>5, <1>6, <2>2
    <2>9. \A l \in appends[t] : l \in pending' \/ merged'[t][l] = 1
      BY <1>0, <1>4, <1>5, <1>6, <2>2
    <2>10. Landing'
      <3>1. pc' = "merge" /\ at' = at /\ at' + 1 = t /\ appends' = appends
        BY <1>0, <1>1, <1>4, <1>6
      <3>2. \A l \in pending' : merged'[at' + 1][l] = 0
        BY <2>8, <3>1
      <3>3. \A l \in appends'[at' + 1] : l \in pending' \/ merged'[at' + 1][l] = 1
        BY <2>9, <3>1
      <3>4. at' < N /\ at' <= N
        BY <1>0, <3>1, NAssumption
      <3> QED
        BY <1>2, <1>3, <2>7, <3>1, <3>2, <3>3, <3>4 DEF Landing
    <2> QED
      BY <1>0, <1>6, <2>6, <2>10
         DEF ImportInv, Contained, Staging, Cleaning, Promoting, RollingBack,
             RefusedLeavesNoTrace, Ended, Over
  <1>7. CASE pending = {} /\ Goto("finalize", at + 1) /\ UNCHANGED <<merged, torn, pending, trouble>>
    <2>1. pc' = "finalize" /\ at' = t /\ t \in Nat /\ t <= N
      BY <1>0, <1>4, <1>7, NAssumption DEF Goto
    <2>2. Typed'
      BY <1>0, <1>1, <1>7, <2>1 DEF Typed, Control
    <2>3. \A s \in 1 .. t : \A l \in appends[s] : merged[s][l] = 1
      <3>1. \A s \in 1 .. t : s = t \/ s \in 1 .. at
        BY <1>0, <1>4
      <3>2. \A l \in appends[t] : merged[t][l] = 1
        BY <1>0, <1>4, <1>7
      <3> QED
        BY <1>0, <3>1, <3>2
    <2>4. Landing'
      BY <1>1, <1>2, <1>3, <1>7, <2>1, <2>3 DEF Landing
    <2> QED
      BY <2>1, <2>2, <2>4
         DEF ImportInv, Contained, Staging, Cleaning, Promoting, RollingBack,
             RefusedLeavesNoTrace, Ended, Over
  <1>8. CASE MergeStops /\ Goto("unmerged", 0) /\ trouble' = TRUE /\ UNCHANGED <<merged, pending>>
    <2>1. pc' = "unmerged" /\ at' = 0
      BY <1>8 DEF Goto
    <2>2. torn' \subseteq Appenders
      BY <1>5, <1>8 DEF MergeStops
    <2>3. Typed'
      BY <1>0, <1>1, <1>8, <2>1, <2>2 DEF Typed, Control
    <2>4. Landing'
      BY <1>2, <2>1 DEF Landing
    <2> QED
      BY <2>1, <2>3, <2>4
         DEF ImportInv, Contained, Staging, Cleaning, Promoting, RollingBack,
             RefusedLeavesNoTrace, Ended, Over
  <1> QED
    <2>1. CASE /\ pending # {}
               /\ \E new \in IF at + 1 \in Appenders THEN {{l} : l \in pending} ELSE {pending} :
                    merged' = Plus(at + 1, new) /\ pending' = pending \ new
               /\ UNCHANGED <<torn, pc, at, trouble>>
      <3>1. PICK new \in IF at + 1 \in Appenders THEN {{l} : l \in pending} ELSE {pending} :
              merged' = Plus(at + 1, new) /\ pending' = pending \ new
        BY <2>1
      <3>2. new \in SUBSET pending
        BY <3>1
      <3> QED
        BY <1>4, <1>6, <2>1, <3>1, <3>2
    <2> QED
      BY <1>7, <1>8, <2>1 DEF Merge

-----------------------------------------------------------------------------
(* The theorems *)

(* The inductive invariant: types, where files and temps stand in each phase
   of a run, and which lines are merged (importer.Run). *)
THEOREM Imports == Spec => []ImportInv
  <1>1. Init => ImportInv
    BY InitImport
  <1>2. ImportInv /\ [Next]_vars => ImportInv'
    <2> SUFFICES ASSUME ImportInv, [Next]_vars PROVE ImportInv'
      OBVIOUS
    <2>1. CASE UNCHANGED vars
      <3>1. /\ UNCHANGED <<archive, final, temp, merged, torn, pc, at>>
            /\ UNCHANGED <<staged, backups, appends, pending, trouble, residue, before, runs>>
        BY <2>1 DEF vars, disk, memory, history
      <3>3. \A f \in Files : /\ (Wanted(f)' <=> Wanted(f)) /\ LastBody(f)' = LastBody(f)
                             /\ (Listed(f)' <=> Listed(f)) /\ (AsFound(f)' <=> AsFound(f))
        BY <3>1 DEF Wanted, LastBody, Listed, AsFound
      <3>4. Typed'
        BY <3>1 DEF ImportInv, Typed
      <3>5. Contained' /\ Staging' /\ Cleaning'
        BY <3>1 DEF ImportInv, Contained, Staging, Cleaning, StagedUpTo, Listed, LastOf,
           IsFile
      <3>6. Displaced => Displaced'
        BY <3>1, <3>3 DEF Displaced, AsFound
      <3>7. LinesCollected => LinesCollected'
        BY <3>1 DEF LinesCollected
      <3>8. Promoting'
        <4>1. \A i \in DOMAIN staged : staged[i] \in Files
          BY DEF ImportInv, Typed
        <4>2. \A i \in DOMAIN staged : LastBody(staged[i])' = LastBody(staged[i])
          BY <3>1, <3>3, <4>1
        <4>3. pc = "promote" /\ at \in Nat => \A i \in 1 .. at : i \in DOMAIN staged
          BY DEF ImportInv, Typed, Promoting, Displaced
        <4>4. at \in Nat
          BY DEF ImportInv, Typed
        <4> QED
          BY <3>1, <3>3, <3>6, <3>7, <4>2, <4>3, <4>4 DEF ImportInv, Promoting
      <3>9. RollingBack'
        BY <3>1, <3>6 DEF ImportInv, RollingBack, AsFound
      <3>10. Landing' /\ RefusedLeavesNoTrace' /\ Ended'
        <4>1. Landing'
          BY <3>1, <3>3, <3>7 DEF ImportInv, Landing
        <4>2. RefusedLeavesNoTrace' /\ Ended'
          BY <3>1 DEF ImportInv, RefusedLeavesNoTrace, Ended, Over
        <4> QED
          BY <4>1, <4>2
      <3> QED
        BY <3>4, <3>5, <3>8, <3>9, <3>10 DEF ImportInv
    <2> QED
      BY <2>1, BeginStep, KillStep, StageStep, CleanupStep, RecheckStep, PromoteStep,
         RollbackStep, FinalizeStep, MergeStep DEF Next
  <1> QED
    BY <1>1, <1>2, PTL DEF Spec

(* A refused import that reports no fault of its cleanup leaves destinations,
   merged files and temps as it found them (cleanupStaged,
   SafeRenamePromoter.Rollback). *)
THEOREM Refusals == Spec => []RefusedLeavesNoTrace
  <1>1. ImportInv => RefusedLeavesNoTrace
    BY DEF ImportInv
  <1> QED
    BY <1>1, Imports, PTL

(* A successful import leaves the archive's last body in every file it names,
   and each of its lines once, whatever earlier runs died in (Run). *)
THEOREM Successes == Spec => []SuccessConverges
  <1>1. ImportInv => SuccessConverges
    <2> SUFFICES ASSUME ImportInv, pc = "done"
                 PROVE  /\ \A f \in Files : LastBody(f) # Absent =>
                             final[f] = LastBody(f) /\ temp[f] = Absent
                        /\ \A i \in DOMAIN archive : archive[i].kind = "line" =>
                             merged[archive[i].tool][archive[i].line] = 1
      BY DEF SuccessConverges
    <2>1. /\ Typed /\ LinesCollected /\ \A t \in Tools : \A l \in appends[t] : merged[t][l] = 1
          /\ \A f \in Files : Wanted(f) => final[f] = LastBody(f) /\ temp[f] = Absent
      BY DEF ImportInv, Landing
    <2>2. \A i \in DOMAIN archive : archive[i].kind = "line" => archive[i].tool \in Tools
      BY <2>1, EntryFields DEF Typed
    <2> QED
      BY <2>1, <2>2 DEF Wanted, LinesCollected
  <1> QED
    BY <1>1, Imports, PTL

(* What the import tells its caller is true of the destinations, and a
   destination is never torn (Run, SafeRenamePromoter). *)
THEOREM ImportImplements == Spec => ImplementsImportBatch
  <1> DEFINE files == IF pc \in {"promote", "rollback"} THEN before.final ELSE final
             batch == [f \in Files |-> LastBody(f)]
  <1>1. Init => Promise!Init
    <2> SUFFICES ASSUME Init PROVE Promise!Init
      OBVIOUS
    <2>1. final \in [Files -> Content] /\ pc = "idle" /\ archive \in Archives
      BY DEF Init
    <2>2. batch \in [Files -> Content]
      BY <2>1, LastBodies
    <2>3. files = final /\ Told = "untouched"
      BY <2>1 DEF Told
    <2> QED
      BY <2>1, <2>2, <2>3 DEF Promise!Init, Promise!Content, Content
  <1>2. ImportInv /\ ImportInv' /\ [Next]_vars => [Promise!Next]_(Promise!vars)
    <2> SUFFICES ASSUME ImportInv, ImportInv', [Next]_vars PROVE [Promise!Next]_(Promise!vars)
      OBVIOUS
    <2> DEFINE overlay == [f \in Files |-> IF batch[f] = Absent THEN files[f] ELSE batch[f]]
    <2>1. batch' = batch
      <3>1. archive' = archive
        BY DEF Next, vars, Begin, Kill, Stage, Cleanup, Recheck, Promote, Rollback,
           Finalize, Merge
      <3> QED
        BY <3>1 DEF LastBody
    <2>2. Typed /\ Typed' /\ final \in [Files -> Content] /\ final' \in [Files -> Content]
          /\ before.final \in [Files -> Content]
      BY DEF ImportInv, Typed
    <2>3. Promise!Overlay = overlay
      BY DEF Promise!Overlay
    <2>4. ASSUME files' = files, Told' = Told
          PROVE  UNCHANGED Promise!vars
      BY <2>1, <2>4 DEF Promise!vars
    <2>5. ASSUME Told \in {"running", "landed"}, Told' = "unknown",
                 \A f \in Files : \/ files'[f] = files[f]
                                  \/ Wanted(f) /\ files'[f] = LastBody(f),
                 files' \in [Files -> Content]
          PROVE  Promise!Confuse
      <3> DEFINE mixed == {f \in Files : files'[f] # files[f]}
      <3> HIDE DEF files
      <3>1. files' = [f \in Files |-> IF f \in mixed THEN overlay[f] ELSE files[f]]
        <4>1. \A f \in Files : files'[f] = IF f \in mixed THEN overlay[f] ELSE files[f]
          BY <2>5 DEF Wanted
        <4> QED
          BY <2>5, <4>1
      <3>2. mixed \in SUBSET Files
        OBVIOUS
      <3> HIDE DEF mixed, overlay
      <3> QED
        BY <2>1, <2>3, <2>5, <3>1, <3>2 DEF Promise!Confuse, files
    <2>6. CASE UNCHANGED vars
      <3>1. files' = files /\ Told' = Told
        BY <2>6 DEF vars, disk, history, Told
      <3> QED
        BY <2>4, <3>1
    <2>7. CASE Begin
      <3>1. pc \in Over /\ pc' = "stage" /\ final' = final
        BY <2>7 DEF Begin, Goto, disk
      <3>2. files' = files /\ Told # "running" /\ Told' = "running"
        BY <3>1 DEF Told, Over
      <3> QED
        BY <2>1, <3>2 DEF Promise!Begin, Promise!Next
    <2>8. CASE Kill
      <3>1. pc \in Control \ Over /\ pc' = "killed" /\ final' = final
        BY <2>2, <2>8 DEF Kill, Goto, Typed
      <3>2. Told \in {"running", "landed"} /\ Told' = "unknown" /\ files' = final
        BY <3>1 DEF Told, Over, Control
      <3>3. \A f \in Files : files'[f] = files[f] \/ (Wanted(f) /\ files'[f] = LastBody(f))
        <4>1. pc \in {"promote", "rollback"} => Displaced
          BY DEF ImportInv, Promoting, RollingBack
        <4> QED
          BY <3>2, <4>1 DEF Displaced, AsFound
      <3>4. Promise!Confuse
        BY <2>2, <2>5, <3>2, <3>3
      <3> QED
        BY <3>4 DEF Promise!Next
    <2>9. CASE Stage
      <3>1. pc = "stage" /\ pc' \in {"stage", "cleanup", "recheck"} /\ final' = final
        BY <2>9 DEF Stage, Goto
      <3>2. files' = files /\ Told' = Told
        BY <3>1 DEF Told
      <3> QED
        BY <2>4, <3>2
    <2>10. CASE Cleanup
      <3>1. pc = "cleanup" /\ pc' \in {"cleanup", "refused"} /\ final' = final
        BY <2>10 DEF Cleanup, Goto
      <3>2. files' = files /\ Told = "running"
        BY <3>1 DEF Told
      <3>3. CASE pc' = "cleanup"
        <4>1. Told' = Told
          BY <3>1, <3>3 DEF Told
        <4> QED
          BY <2>4, <3>2, <4>1
      <3>4. CASE pc' = "refused" /\ residue'
        <4>1. Told' = "unknown"
          BY <3>4 DEF Told
        <4>2. files' \in [Files -> Content]
          BY <2>2, <3>1
        <4>3. Promise!Confuse
          BY <2>5, <3>2, <4>1, <4>2
        <4> QED
          BY <4>3 DEF Promise!Next
      <3>5. CASE pc' = "refused" /\ ~residue'
        <4>1. Told' = "untouched"
          BY <3>5 DEF Told
        <4> QED
          BY <2>1, <3>2, <4>1 DEF Promise!Refuse, Promise!Next
      <3> QED
        BY <3>1, <3>3, <3>4, <3>5
    <2>11. CASE Recheck
      <3>1. pc = "recheck" /\ pc' \in {"promote", "cleanup"} /\ final' = final /\ before' = before
        BY <2>11 DEF Recheck, Goto, disk
      <3>2. final = before.final
        BY <3>1 DEF ImportInv, Staging
      <3>3. files' = files /\ Told' = Told
        BY <3>1, <3>2 DEF Told
      <3> QED
        BY <2>4, <3>3
    <2>12. CASE Promote
      <3>1. pc = "promote" /\ pc' \in {"promote", "rollback", "finalize"} /\ before' = before
        BY <2>12 DEF Promote, Goto
      <3>2. CASE pc' # "finalize"
        <4>1. files' = files /\ Told' = Told
          BY <3>1, <3>2 DEF Told
        <4> QED
          BY <2>4, <4>1
      <3>3. CASE pc' = "finalize"
        <4>1. final' = final
          BY <2>12, <3>3 DEF Promote, Goto
        <4>2. Told = "running" /\ Told' = "landed"
          BY <3>1, <3>3 DEF Told
        <4>3. files = before.final /\ files' = final
          BY <3>1, <3>3, <4>1
        <4>4. \A f \in Files : final[f] = IF LastBody(f) = Absent THEN before.final[f] ELSE LastBody(f)
          <5>1. \A f \in Files : (Wanted(f)' <=> Wanted(f)) /\ LastBody(f)' = LastBody(f)
            <6>1. archive' = archive
              BY <2>12 DEF Promote
            <6> QED
              BY <6>1 DEF Wanted, LastBody
          <5>2. \A f \in Files : Wanted(f) => final[f] = LastBody(f)
            BY <3>3, <4>1, <5>1 DEF ImportInv, Landing
          <5>3. \A f \in Files : ~Wanted(f) => final[f] = before.final[f]
            BY <3>1 DEF ImportInv, Promoting, Displaced, AsFound
          <5> QED
            BY <5>2, <5>3 DEF Wanted
        <4>5. final = overlay
          <5>1. \A f \in Files : overlay[f] = final[f]
            BY <4>3, <4>4
          <5> QED
            BY <2>2, <5>1
        <4> QED
          BY <2>1, <2>3, <4>2, <4>3, <4>5 DEF Promise!Land, Promise!Next
      <3> QED
        BY <3>2, <3>3
    <2>13. CASE Rollback
      <3>1. pc = "rollback" /\ pc' \in {"rollback", "refused"} /\ before' = before
        BY <2>13 DEF Rollback, Goto
      <3>2. Told = "running" /\ files = before.final
        BY <3>1 DEF Told
      <3>3. CASE pc' = "rollback"
        <4>1. files' = files /\ Told' = Told
          BY <3>1, <3>3 DEF Told
        <4> QED
          BY <2>4, <4>1
      <3>4. CASE pc' = "refused"
        <4>1. final' = final /\ files' = final
          BY <2>13, <3>4 DEF Rollback, Goto
        <4>2. CASE residue'
          <5>1. Told' = "unknown"
            BY <3>4, <4>2 DEF Told
          <5>2. \A f \in Files : files'[f] = files[f] \/ (Wanted(f) /\ files'[f] = LastBody(f))
            BY <3>1, <3>2, <4>1 DEF ImportInv, RollingBack, Displaced, AsFound
          <5>3. Promise!Confuse
            BY <2>2, <2>5, <3>2, <4>1, <5>1, <5>2
          <5> QED
            BY <5>3 DEF Promise!Next
        <4>3. CASE ~residue'
          <5>1. Told' = "untouched"
            BY <3>4, <4>3 DEF Told
          <5>2. final' = before'.final
            BY <3>4, <4>3 DEF ImportInv, RefusedLeavesNoTrace
          <5>3. files' = files
            BY <3>1, <3>2, <4>1, <5>2
          <5> QED
            BY <2>1, <3>2, <5>1, <5>3 DEF Promise!Refuse, Promise!Next
        <4> QED
          BY <4>2, <4>3
      <3> QED
        BY <3>1, <3>3, <3>4
    <2>14. CASE Finalize \/ Merge
      <3>1. /\ pc \in {"finalize", "merge"}
            /\ pc' \in {"finalize", "merge", "done", "unmerged"}
            /\ final' = final
        BY <2>14 DEF Finalize, Merge, Goto, disk
      <3>2. files' = files /\ Told' = Told
        BY <3>1 DEF Told
      <3> QED
        BY <2>4, <3>2
    <2> QED
      BY <2>6, <2>7, <2>8, <2>9, <2>10, <2>11, <2>12, <2>13, <2>14 DEF Next
  <1> QED
    BY <1>1, <1>2, Imports, PTL DEF Spec, ImplementsImportBatch, Promise!Spec

(* The variables keep their types, and positions their bounds. *)
THEOREM Typing == Spec => []TypeOK
  <1>1. ImportInv => TypeOK
    <2> SUFFICES ASSUME ImportInv PROVE TypeOK
      OBVIOUS
    <2>1. Typed /\ Len(archive) \in Nat /\ Len(staged) \in Nat /\ N \in Nat
      BY EntryFields, NAssumption DEF ImportInv, Typed
    <2>2. at <= Len(archive) + N
      <3>1. pc \in {"stage", "recheck", "cleanup"} => at <= Len(archive)
        BY <2>1 DEF ImportInv, Typed, Staging, Cleaning
      <3>2. pc \in {"promote", "rollback"} => at <= Len(archive)
        <4>1. Len(backups) \in Nat
          BY <2>1 DEF Typed
        <4> QED
          BY <2>1, <4>1 DEF ImportInv, Typed, Promoting, RollingBack, Displaced
      <3>3. pc \in {"finalize", "merge"} => at <= N
        BY DEF ImportInv, Landing
      <3>4. pc \in Over => at = 0
        BY DEF ImportInv, Ended
      <3> QED
        BY <2>1, <3>1, <3>2, <3>3, <3>4 DEF Typed, Control, Over
    <2>3. merged \in [Tools -> [Lines -> Nat]] /\ before.merged \in [Tools -> [Lines -> Nat]]
      <3>1. [Lines -> {0, 1}] \subseteq [Lines -> Nat]
        OBVIOUS
      <3>2. [Tools -> [Lines -> {0, 1}]] \subseteq [Tools -> [Lines -> Nat]]
        BY <3>1
      <3> QED
        BY <2>1, <3>2 DEF Typed
    <2> QED
      BY <2>1, <2>2, <2>3 DEF Typed, TypeOK
  <1> QED
    BY <1>1, Imports, PTL

\* No archive names a file twice.
NamesDiffer ==
  \A a \in Archives : \A i, j \in DOMAIN a :
    a[i].kind = "file" /\ a[j].kind = "file" /\ a[i].file = a[j].file => i = j

\* Every file is staged once, so that its temp is still there at its rename.
CauseInv ==
  /\ NamesDiffer
  /\ pc \in {"stage", "recheck", "promote"} =>
       \A i, j \in DOMAIN staged : staged[i] = staged[j] => i = j
  /\ pc = "promote" => \A i \in (at + 1) .. Len(staged) : temp[staged[i]] # Absent
  /\ pc \in {"cleanup", "rollback"} => trouble
  /\ RefusalHasCause

(* Only staging and renaming bear on whether a file is staged twice. *)
LEMMA CauseStep == CauseInv /\ ImportInv /\ ImportInv' /\ [Next]_vars => CauseInv'
  <1> SUFFICES ASSUME CauseInv, ImportInv, ImportInv', [Next]_vars PROVE CauseInv'
    OBVIOUS
  <1>0. Typed /\ NamesDiffer /\ NamesDiffer' /\ at \in Nat /\ Len(staged) \in Nat
    BY DEF CauseInv, NamesDiffer, ImportInv, Typed
  <1>1. CASE UNCHANGED vars
    BY <1>0, <1>1 DEF vars, disk, memory, history, CauseInv, RefusalHasCause
  <1>2. CASE Begin
    <2>1. pc' = "stage" /\ staged' = <<>>
      BY <1>2 DEF Begin, Goto
    <2> QED
      BY <1>0, <2>1 DEF CauseInv, RefusalHasCause
  <1>3. CASE Kill
    BY <1>0, <1>3 DEF Kill, Goto, CauseInv, RefusalHasCause
  <1>4. CASE Stage
    <2>1. pc = "stage" /\ trouble \in BOOLEAN /\ \A i, j \in DOMAIN staged : staged[i] = staged[j] => i = j
      BY <1>0, <1>4 DEF Stage, CauseInv, Typed
    <2>2. CASE pc' = "cleanup"
      BY <1>0, <1>4, <2>2 DEF Stage, Goto, CauseInv, RefusalHasCause
    <2>3. CASE pc' \in {"stage", "recheck"} /\ staged' = staged
      BY <1>0, <2>1, <2>3 DEF CauseInv, RefusalHasCause
    <2>4. CASE pc' = "stage" /\ at < Len(archive) /\ StageFile
      <3>1. PICK k \in 1 .. Len(archive) : k = at + 1
        BY <1>0, <2>4, EntryFields DEF Typed
      <3>2. PICK g \in Files : g = archive[k].file /\ IsFile(k, g) /\ staged' = Append(staged, g)
        BY <1>0, <2>4, <3>1, EntryFields DEF Typed, StageFile, Current, IsFile
      <3>3. \A i \in DOMAIN staged : staged[i] # g
        <4> SUFFICES ASSUME NEW i \in DOMAIN staged, staged[i] = g PROVE FALSE
          OBVIOUS
        <4>1. PICK j \in 1 .. at : IsFile(j, g)
          BY <2>1 DEF ImportInv, Staging, StagedUpTo
        <4>2. j \in DOMAIN archive /\ k \in DOMAIN archive /\ j # k
          BY <1>0, <2>4, <3>1, EntryFields DEF Typed
        <4> QED
          BY <1>0, <3>2, <4>1, <4>2 DEF NamesDiffer, IsFile, Typed
      <3>4. /\ DOMAIN staged' = DOMAIN staged \cup {Len(staged) + 1}
            /\ staged'[Len(staged) + 1] = g
            /\ \A i \in DOMAIN staged : staged'[i] = staged[i]
        BY <1>0, <3>2 DEF Typed
      <3>5. \A i, j \in DOMAIN staged' : staged'[i] = staged'[j] => i = j
        BY <2>1, <3>3, <3>4
      <3> QED
        BY <1>0, <2>4, <3>5 DEF CauseInv, RefusalHasCause
    <2> QED
      BY <1>4, <2>2, <2>3, <2>4 DEF Stage, Goto, StageLine
  <1>5. CASE Cleanup
    BY <1>0, <1>5 DEF Cleanup, Goto, CauseInv, RefusalHasCause
  <1>6. CASE Recheck
    <2>1. /\ pc = "recheck" /\ staged' = staged /\ temp' = temp /\ archive' = archive
          /\ \/ pc' = "promote" /\ at' = 0
             \/ pc' = "cleanup" /\ trouble'
      BY <1>6 DEF Recheck, Goto, memory, disk
    <2>2. \A i \in 1 .. Len(staged) : temp[staged[i]] # Absent
      <3> SUFFICES ASSUME NEW i \in 1 .. Len(staged) PROVE temp[staged[i]] # Absent
        OBVIOUS
      <3>1. i \in DOMAIN staged
        BY <1>0 DEF Typed
      <3>2. PICK f \in Files : f = staged[i]
        BY <1>0, <3>1 DEF Typed
      <3>3. StagedUpTo(Len(archive))
        BY <2>1 DEF ImportInv, Staging
      <3>4. PICK h \in 1 .. Len(archive) : IsFile(h, f)
        BY <3>1, <3>2, <3>3 DEF StagedUpTo
      <3>5. PICK j \in 1 .. Len(archive) : LastOf(j, f, Len(archive))
        BY <1>0, <3>4, LastBodies DEF Typed
      <3>6. temp[f] = archive[j].body
        BY <3>3, <3>5 DEF StagedUpTo
      <3>7. archive[j].body # Absent
        BY <1>0, <3>5, EntryFields DEF Typed, LastOf, IsFile
      <3> QED
        BY <3>2, <3>6, <3>7
    <2> QED
      BY <1>0, <2>1, <2>2 DEF CauseInv, RefusalHasCause
  <1>7. CASE Promote
    <2>1. /\ pc = "promote" /\ staged' = staged
          /\ \A i, j \in DOMAIN staged : staged[i] = staged[j] => i = j
          /\ \A i \in (at + 1) .. Len(staged) : temp[staged[i]] # Absent
      BY <1>7 DEF Promote, CauseInv
    <2>2. CASE pc' = "finalize"
      BY <1>0, <2>2 DEF CauseInv, RefusalHasCause
    <2>3. CASE pc' = "rollback" /\ trouble' = TRUE
      BY <1>0, <2>3 DEF CauseInv, RefusalHasCause
    <2>4. CASE at < Len(staged) /\ temp[staged[at + 1]] = Absent
      <3>1. at + 1 \in (at + 1) .. Len(staged)
        BY <1>0, <2>4
      <3> QED
        BY <2>1, <2>4, <3>1
    <2>5. CASE at < Len(staged) /\ PromoteOne(staged[at + 1]) /\ Goto("promote", at + 1)
      <3>1. /\ pc' = "promote" /\ at' = at + 1
            /\ temp' = [temp EXCEPT ![staged[at + 1]] = Absent]
        BY <2>5 DEF Goto, PromoteOne
      <3>2. \A i \in (at + 2) .. Len(staged) : temp'[staged[i]] # Absent
        <4> SUFFICES ASSUME NEW i \in (at + 2) .. Len(staged) PROVE temp'[staged[i]] # Absent
          OBVIOUS
        <4>1. i \in DOMAIN staged /\ at + 1 \in DOMAIN staged /\ i # at + 1 /\ i \in (at + 1) .. Len(staged)
          BY <1>0, <2>5 DEF Typed
        <4>2. staged[i] # staged[at + 1] /\ staged[i] \in Files
          BY <1>0, <2>1, <4>1 DEF Typed
        <4> QED
          BY <1>0, <2>1, <3>1, <4>1, <4>2 DEF Typed
      <3>3. (at + 1) + 1 = at + 2
        BY <1>0
      <3> QED
        BY <1>0, <2>1, <3>1, <3>2, <3>3 DEF CauseInv, RefusalHasCause
    <2> QED
      BY <1>7, <2>2, <2>3, <2>4, <2>5 DEF Promote, Goto
  <1>8. CASE Rollback
    BY <1>0, <1>8 DEF Rollback, Goto, CauseInv, RefusalHasCause
  <1>9. CASE Finalize
    <2>1. pc' \in {"merge", "done"} \/ (pc' = "unmerged" /\ torn' # {})
      BY <1>9 DEF Finalize, Goto, disk
    <2> QED
      BY <1>0, <2>1 DEF CauseInv, RefusalHasCause
  <1>10. CASE Merge
    <2>1. pc' \in {"merge", "finalize"} \/ (pc' = "unmerged" /\ trouble')
      BY <1>10 DEF Merge, Goto
    <2> QED
      BY <1>0, <2>1 DEF CauseInv, RefusalHasCause
  <1> QED
    BY <1>1, <1>2, <1>3, <1>4, <1>5, <1>6, <1>7, <1>8, <1>9, <1>10 DEF Next

(* Of archives that name no file twice, as the exporter writes them, an import
   without a fault, a cancellation or a live writer is not refused, and not left
   unmerged unless an earlier run left half a line (Run). *)
THEOREM Causes == NamesDiffer /\ Spec => []RefusalHasCause
  <1>1. NamesDiffer /\ Init => CauseInv
    BY DEF Init, CauseInv, RefusalHasCause
  <1>2. CauseInv => RefusalHasCause
    BY DEF CauseInv
  <1> QED
    BY <1>1, <1>2, CauseStep, Imports, PTL DEF Spec
=============================================================================
