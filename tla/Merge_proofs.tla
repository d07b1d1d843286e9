----------------------------- MODULE Merge_proofs -----------------------------
(***************************************************************************)
(* Theorems about Merge, for any number of files and contents. Nothing in  *)
(* them depends on a command coming to its end: each invariant says what   *)
(* holds at every statement in between, which is what makes the others     *)
(* survive a command that dies there.                                      *)
(***************************************************************************)
EXTENDS Merge, SequenceTheorems, FiniteSetTheorems, WellFoundedInduction, TLAPS

\* A set of files has a first one.
LEMMA LeastFile ==
  ASSUME NEW S, S \subseteq Files, S # {}
  PROVE  Least(S) \in S
<1>. DEFINE R == OpToRel(<, Nat)
<1>1. IsWellFoundedOn(R, Nat)
  BY NatLessThanWellFounded
<1>2. S \subseteq Nat
  BY MergeAssumption DEF Files
<1>3. \A x, y \in Nat : <<y, x>> \in R <=> y < x
  BY DEF OpToRel
<1>. HIDE DEF R
<1>4. PICK x \in S : \A y \in S : ~(<<y, x>> \in R)
  BY <1>1, <1>2, WFMin
<1>5. \A y \in S : x \in Nat /\ y \in Nat /\ ~(y < x)
  BY <1>2, <1>3, <1>4
<1>6. \A y \in S : x <= y
  BY <1>5
<1>. QED
  BY <1>6 DEF Least

LEMMA AppliesType ==
  ASSUME TypeOK
  PROVE  Applies \in Nat
<1>. DEFINE A == {i \in 1..Len(log) : log[i] = "merge_apply"}
<1>1. Len(log) \in Nat
  BY DEF TypeOK
<1>2. IsFiniteSet(1..Len(log))
  BY <1>1, FS_Interval
<1>3. IsFiniteSet(A)
  BY <1>2, FS_Subset
<1>. QED
  BY <1>3, FS_CardinalityType DEF Applies

States == {"none", "pending", "applied", "folded"}

LEMMA RowUpdates ==
  ASSUME NEW r \in Rows, NEW c \in Contents
  PROVE  \A s \in States : [r EXCEPT !.sha = c, !.state = s] \in Rows
BY DEF Rows, States

\* What the steps make of the row of a file.
LEMMA RowTypes ==
  ASSUME TypeOK, NEW f \in Files
  PROVE  /\ ledger[f] \in Rows /\ tree[f] \in Contents
         /\ ledger[f].state \in States /\ ledger[f].sha \in Contents
         /\ Scanned(f) \in Rows /\ Committed(f) \in Rows /\ Orphaned(f) \in Rows
         /\ Rehashed(f) \in Rows /\ Left(f) \in Rows /\ Unfolded(f) \in Rows
         /\ Registered(f) \in Rows /\ NoRow \in Rows
<1>1. ledger[f] \in Rows /\ tree[f] \in Contents /\ Applies \in Nat
  BY AppliesType DEF TypeOK
<1>2. \A r \in Rows : r.state \in States /\ r.sha \in Contents
  BY DEF Rows, States
<1>3. \A r \in Rows, c \in Contents, s \in States, n \in Nat :
        /\ [r EXCEPT !.sha = c, !.state = s] \in Rows
        /\ [r EXCEPT !.state = s, !.stamped = TRUE] \in Rows
        /\ [r EXCEPT !.state = s, !.epoch = n] \in Rows
        /\ [r EXCEPT !.sha = c] \in Rows
        /\ [r EXCEPT !.removed = TRUE] \in Rows
        /\ [r EXCEPT !.state = s, !.sha = c] \in Rows
  BY DEF Rows, States
<1>4. NoRow \in Rows
  BY DEF NoRow, Rows, Contents
<1>5. Scanned(f) \in Rows
  <2>1. Scanned(f) = [ledger[f] EXCEPT !.sha = tree[f],
          !.state = IF ledger[f].state = "folded" THEN "folded" ELSE "pending"]
    BY <1>1 DEF Scanned, Rows
  <2>2. (IF ledger[f].state = "folded" THEN "folded" ELSE "pending") \in States
    BY DEF States
  <2>3. \A s \in States : [ledger[f] EXCEPT !.sha = tree[f], !.state = s] \in Rows
    BY <1>1, RowUpdates
  <2>. QED
    BY <2>1, <2>2, <2>3
<1>6. Committed(f) \in Rows /\ Orphaned(f) \in Rows /\ Rehashed(f) \in Rows /\ Unfolded(f) \in Rows
  BY <1>1, <1>3 DEF Committed, Orphaned, Rehashed, Unfolded, States
<1>7. Left(f) \in Rows
  <2>1. [ledger[f] EXCEPT !.removed = TRUE] \in Rows
    BY <1>1 DEF Rows
  <2>. QED
    BY <1>6, <2>1 DEF Left
<1>8. Registered(f) \in Rows
  BY <1>1, <1>3, <1>4 DEF Registered, States
<1>. QED
  BY <1>1, <1>2, <1>4, <1>5, <1>6, <1>7, <1>8

\* The row of a file that rekey could not read.
Unread(f) == [ledger[f] EXCEPT !.sha = None]

\* The fields of those rows.
LEMMA RowFields ==
  ASSUME TypeOK, NEW f \in Files
  PROVE  /\ Scanned(f).state = (IF ledger[f].state = "folded" THEN "folded" ELSE "pending")
         /\ Scanned(f).sha = tree[f]
         /\ Scanned(f).stamped = ledger[f].stamped /\ Scanned(f).removed = ledger[f].removed
         /\ Committed(f).state = "applied" /\ Committed(f).sha = ledger[f].sha
         /\ Committed(f).stamped /\ Committed(f).removed = ledger[f].removed
         /\ Orphaned(f).state = "folded" /\ Orphaned(f).stamped = ledger[f].stamped
         /\ Orphaned(f).sha = ledger[f].sha
         /\ Rehashed(f).state = ledger[f].state /\ Rehashed(f).sha = tree[f]
         /\ Rehashed(f).stamped = ledger[f].stamped /\ Rehashed(f).removed = ledger[f].removed
         /\ Unfolded(f).state = "applied" /\ Unfolded(f).sha = ledger[f].sha
         /\ Unfolded(f).stamped = ledger[f].stamped
         /\ Registered(f).state = "applied" /\ ~Registered(f).stamped
         /\ Left(f).stamped = ledger[f].stamped /\ Left(f).sha = ledger[f].sha
         /\ f \in Migrations => Left(f).state = "folded"
         /\ f \notin Migrations => Left(f).state = ledger[f].state /\ Left(f).removed
         /\ Unread(f).state = ledger[f].state /\ Unread(f).sha = None
         /\ Unread(f).stamped = ledger[f].stamped
<1>1. ledger[f] \in Rows
  BY DEF TypeOK
<1>. QED
  BY <1>1 DEF Rows, Scanned, Committed, Orphaned, Rehashed, Unfolded, Registered, NoRow, Left,
     Unread

\* The locals, and the assignments to them.
LEMMA JobTypes ==
  ASSUME NEW j \in Jobs
  PROVE  /\ j.todo \in SUBSET Files /\ j.disk \in SUBSET Files
         /\ \A S \in SUBSET Files :
              /\ [j EXCEPT !.todo = S] \in Jobs /\ [j EXCEPT !.todo = S].kind = j.kind
              /\ [j EXCEPT !.todo = S].from = j.from /\ [j EXCEPT !.todo = S].todo = S
              /\ [j EXCEPT !.todo = S].disk = j.disk
              /\ [j EXCEPT !.disk = S] \in Jobs /\ [j EXCEPT !.disk = S].kind = j.kind
              /\ [j EXCEPT !.disk = S].from = j.from /\ [j EXCEPT !.disk = S].disk = S
              /\ [j EXCEPT !.disk = S].todo = j.todo
BY DEF Jobs

LEMMA NewJobs ==
  /\ NoJob \in Jobs /\ NoJob.kind = "none"
  /\ \A S \in SUBSET Files :
       /\ [NoJob EXCEPT !.kind = "plan", !.todo = S] \in Jobs
       /\ [NoJob EXCEPT !.kind = "plan", !.todo = S].kind = "plan"
       /\ [NoJob EXCEPT !.kind = "apply", !.todo = S] \in Jobs
       /\ [NoJob EXCEPT !.kind = "apply", !.todo = S].kind = "apply"
       /\ [NoJob EXCEPT !.kind = "apply", !.todo = S].todo = S
BY DEF NoJob, Jobs

LEMMA RevertJob ==
  ASSUME NEW S \in SUBSET Files, NEW i \in Nat,
         NEW j, j = [kind |-> "revert", todo |-> S, disk |-> {}, from |-> i]
  PROVE  j \in Jobs /\ j.kind = "revert" /\ j.todo = S /\ j.from = i
BY DEF Jobs

\* Which mode a statement belongs to.
Kinds ==
  /\ pc = "plan" => job.kind = "plan"
  /\ pc \in {"move", "list", "rows", "fold", "rekey"} => job.kind = "apply"
  /\ pc = "restore" => job.kind = "revert"
  /\ pc \in {"copy", "record"} => job.kind \in {"apply", "revert"}
Types == TypeOK /\ Kinds

Pcs == {"idle", "plan", "copy", "move", "list", "rows", "fold", "rekey", "record", "restore"}
JobOK == /\ pc \in Pcs /\ job \in Jobs /\ Kinds
         /\ pc = "copy" => snaps # <<>>
         /\ job.kind = "revert" => job.from \in 1..Len(snaps)
\* The conjuncts of TypeOK about everything but the command.
FilesOK == /\ tree \in [Files -> Contents] /\ upgraded \in [Files -> Contents \cup {Empty}]
           /\ planned \in BOOLEAN /\ snaps \in Seq([Files -> Contents])
TablesOK == ledger \in [Files -> Rows] /\ log \in Seq({"merge_apply", "merge_revert"})
UsedOK == starts \in Nat /\ ups \in Nat /\ edits \in Nat /\ aborts \in Nat
GhostsOK == /\ ran \subseteq Files /\ touched \subseteq Files /\ skipped \subseteq Files
            /\ vouched \subseteq Pairs /\ slipped \subseteq Pairs

LEMMA TypesParts == Types <=> JobOK /\ FilesOK /\ TablesOK /\ UsedOK /\ GhostsOK
BY DEF Types, TypeOK, JobOK, FilesOK, TablesOK, UsedOK, GhostsOK, Pcs

LEMMA TypesPartsNext == (JobOK /\ FilesOK /\ TablesOK /\ UsedOK /\ GhostsOK)' => Types'
BY DEF Types, TypeOK, JobOK, FilesOK, TablesOK, UsedOK, GhostsOK, Pcs

LEMMA TypesInit == Init => Types
<1>. SUFFICES ASSUME Init PROVE Types
  OBVIOUS
<1>0. /\ tree \in [Files -> Contents] /\ upgraded = Nothing /\ planned = FALSE /\ snaps = <<>>
      /\ log = <<>> /\ pc = "idle" /\ job = NoJob
      /\ starts = 0 /\ ups = 0 /\ edits = 0 /\ aborts = 0
      /\ touched = {} /\ slipped = {} /\ skipped = {}
  BY DEF Init, Contents
<1>1. FilesOK
  <2>1. Nothing \in [Files -> Contents] /\ Nothing \in [Files -> Contents \cup {Empty}]
    BY DEF Nothing, Contents
  <2>2. <<>> \in Seq([Files -> Contents])
    OBVIOUS
  <2>. QED
    BY <1>0, <2>1, <2>2 DEF FilesOK
<1>2. PICK S \in SUBSET OnDisk :
        /\ ledger = [f \in Files |-> IF f \in S
             THEN [NoRow EXCEPT !.state = "applied", !.sha = tree[f], !.stamped = TRUE] ELSE NoRow]
        /\ ran = S /\ vouched = {<<f, tree[f]>> : f \in S}
  BY DEF Init
<1>3. S \subseteq Files
  BY DEF OnDisk
<1>4. \A f \in Files : tree[f] \in Contents
  BY <1>0
<1>5. TablesOK
  <2>1. NoRow \in Rows
    BY DEF NoRow, Rows, Contents
  <2>2. \A f \in Files :
          [NoRow EXCEPT !.state = "applied", !.sha = tree[f], !.stamped = TRUE] \in Rows
    BY <1>4 DEF NoRow, Rows
  <2>3. ledger \in [Files -> Rows]
    BY <1>2, <2>1, <2>2
  <2>. QED
    BY <1>0, <2>3 DEF TablesOK
<1>6. GhostsOK
  <2>1. vouched \subseteq Pairs
    <3>1. \A f \in S : <<f, tree[f]>> \in Pairs
      BY <1>3, <1>4 DEF Pairs
    <3>. QED
      BY <1>2, <3>1
  <2>. QED
    BY <1>0, <1>2, <1>3, <2>1 DEF GhostsOK
<1>7. UsedOK
  BY <1>0 DEF UsedOK
<1>8. JobOK
  BY <1>0, NewJobs DEF JobOK, Kinds, Pcs
<1>. QED
  BY <1>1, <1>5, <1>6, <1>7, <1>8, TypesParts

\* A command that goes on to statement l, or stays where it is with file f done.
LEMMA GoType ==
  ASSUME Types, NEW S \in SUBSET Files,
         NEW l \in {"copy", "move", "restore", "list", "rows", "fold", "rekey", "record"},
         Go(l, S), snaps' = snaps,
         l \in {"move", "list", "rows", "fold", "rekey"} => job.kind = "apply",
         l = "restore" => job.kind = "revert",
         l \in {"copy", "record"} => job.kind \in {"apply", "revert"},
         l = "copy" => snaps # <<>>
  PROVE  JobOK' /\ pc' = l /\ job'.todo = S /\ job'.kind = job.kind
<1>1. job \in Jobs /\ JobOK
  BY TypesParts DEF JobOK
<1>2. pc' = l /\ job' = [job EXCEPT !.todo = S]
  BY DEF Go
<1>3. job' \in Jobs /\ job'.kind = job.kind /\ job'.from = job.from /\ job'.todo = S
  BY <1>1, <1>2, JobTypes
<1>. QED
  BY <1>1, <1>2, <1>3 DEF JobOK, Kinds, Pcs

LEMMA DoneType ==
  ASSUME Types, NEW f \in Files, Done(f), Len(snaps') = Len(snaps),
         pc = "copy" => snaps' # <<>>
  PROVE  JobOK' /\ pc' = pc /\ job'.todo = job.todo \ {f} /\ job'.kind = job.kind
<1>1. job \in Jobs /\ JobOK
  BY TypesParts DEF JobOK
<1>2. pc' = pc /\ job' = [job EXCEPT !.todo = job.todo \ {f}]
  BY DEF Done
<1>3. job' \in Jobs /\ job'.kind = job.kind /\ job'.from = job.from /\ job'.todo = job.todo \ {f}
  <2>1. job.todo \ {f} \in SUBSET Files
    BY <1>1, JobTypes
  <2>. QED
    BY <1>1, <1>2, <2>1, JobTypes
<1>. QED
  BY <1>1, <1>2, <1>3 DEF JobOK, Kinds

LEMMA DoneTodo ==
  ASSUME Types, NEW f \in Files, Done(f)
  PROVE  job'.todo = job.todo \ {f} /\ pc' = pc /\ job'.kind = job.kind
<1>1. job \in Jobs /\ job.todo \ {f} \in SUBSET Files
  BY TypesParts, JobTypes DEF JobOK
<1>. QED
  BY <1>1, JobTypes DEF Done

LEMMA StopType ==
  ASSUME Stop
  PROVE  JobOK'
BY NewJobs DEF Stop, JobOK, Kinds, Pcs

LEMMA FailsType ==
  ASSUME Types, Fails
  PROVE  UsedOK'
BY TypesParts DEF Fails, Counts, UsedOK

LEMMA MissesType ==
  ASSUME Types, NEW S, Misses(S)
  PROVE  aborts' \in Nat
BY TypesParts DEF Misses, Counts, UsedOK

LEMMA BeginType ==
  ASSUME Types, Begin
  PROVE  /\ pc = "idle" /\ starts' \in Nat /\ ups' \in Nat /\ edits' \in Nat
         /\ ran' \subseteq Files /\ touched' \subseteq Files
BY TypesParts DEF Begin, UsedOK, GhostsOK

LEMMA UnlistedType ==
  ASSUME NEW S
  PROVE  Unlisted(S) \subseteq Files
BY DEF Unlisted

\* The file in hand.
LEMMA FileInHand ==
  ASSUME Types, job.todo # {}
  PROVE  Least(job.todo) \in job.todo /\ Least(job.todo) \in Files
<1>1. job.todo \subseteq Files
  BY TypesParts, JobTypes DEF JobOK
<1>. QED
  BY <1>1, LeastFile

LEMMA TypesStep == Types /\ [Next]_vars => Types'
<1>. SUFFICES ASSUME Types, [Next]_vars PROVE Types'
  OBVIOUS
<1>0. /\ TypeOK /\ JobOK /\ FilesOK /\ TablesOK /\ UsedOK /\ GhostsOK
      /\ OnDisk \subseteq Files /\ job \in Jobs /\ job.todo \in SUBSET Files
  BY TypesParts, JobTypes DEF Types, JobOK, OnDisk
<1>. USE DEF FilesOK, TablesOK, UsedOK, GhostsOK
<1>1. CASE UNCHANGED vars
  BY <1>0, <1>1, TypesPartsNext DEF vars, files, tables, used, ghosts, JobOK, Kinds
<1>2. CASE StartPlan
  <2>1. StartPlan
    BY <1>2
  <2>2. UsedOK' /\ GhostsOK' /\ TablesOK'
    BY <1>0, <2>1, BeginType DEF StartPlan, tables
  <2>3. FilesOK'
    BY <1>0, <2>1 DEF StartPlan, Nothing, Contents
  <2>4. JobOK'
    <3>1. CASE Pending # {}
      BY <1>0, <2>1, <3>1 DEF StartPlan, JobOK, Kinds
    <3>2. CASE Pending = {}
      <4>1. OnDisk \cap Migrations \in SUBSET Files
        BY <1>0
      <4>2. pc' = "plan" /\ job' = [NoJob EXCEPT !.kind = "plan", !.todo = OnDisk \cap Migrations]
        BY <2>1, <3>2 DEF StartPlan
      <4>3. job' \in Jobs /\ job'.kind = "plan"
        BY <4>1, <4>2, NewJobs
      <4>. QED
        BY <4>2, <4>3 DEF JobOK, Kinds, Pcs
    <3>. QED
      BY <3>1, <3>2
  <2>. QED
    BY <2>2, <2>3, <2>4, TypesPartsNext
<1>3. CASE PlanMigration
  <2>1. PICK f \in Files : /\ upgraded' = [upgraded EXCEPT ![f] = Empty] /\ Done(f)
    BY <1>3, FileInHand DEF PlanMigration
  <2>2. JobOK'
    BY <1>0, <1>3, <2>1, DoneType DEF PlanMigration
  <2>3. FilesOK' /\ TablesOK' /\ UsedOK' /\ GhostsOK'
    BY <1>0, <1>3, <2>1 DEF PlanMigration, tables, used, ghosts
  <2>. QED
    BY <2>2, <2>3, TypesPartsNext
<1>4. CASE PlanFile
  <2>1. PICK f \in Files, b \in Contents \cup {Empty} : upgraded' = [upgraded EXCEPT ![f] = b]
    BY <1>0, <1>4 DEF PlanFile, Contents
  <2>2. FilesOK' /\ TablesOK' /\ UsedOK' /\ GhostsOK' /\ JobOK'
    BY <1>0, <1>4, <2>1 DEF PlanFile, tables, used, ghosts, JobOK, Kinds
  <2>. QED
    BY <2>2, TypesPartsNext
<1>5. CASE PlanReady
  <2>1. JobOK'
    BY <1>5, StopType DEF PlanReady
  <2>2. FilesOK' /\ TablesOK' /\ UsedOK' /\ GhostsOK'
    BY <1>0, <1>5 DEF PlanReady, files, tables, used, ghosts
  <2>. QED
    BY <2>1, <2>2, TypesPartsNext
<1>6. CASE StartApply
  <2>1. PICK S \in SUBSET Steps :
          /\ Misses(S)
          /\ skipped' = Unlisted(S)
          /\ job' = [NoJob EXCEPT !.kind = "apply", !.todo = OnDisk \ Unlisted(S)]
    BY <1>6 DEF StartApply
  <2>2. PICK off \in SUBSET Conditional :
          /\ vouched' = vouched \cup {<<f, Merged(f)>> : f \in Candidate(off)}
          /\ slipped' = slipped \cup {<<f, Merged(f)>> : f \in Files \ Candidate(off)}
    BY <1>6 DEF StartApply
  <2>3. UsedOK' /\ TablesOK'
    BY <1>0, <1>6, <2>1, BeginType, MissesType DEF StartApply, tables
  <2>4. GhostsOK'
    <3>1. \A f \in Files : Merged(f) \in Contents
      BY <1>0 DEF Merged, Contents
    <3>2. \A f \in Files : <<f, Merged(f)>> \in Pairs
      BY <3>1 DEF Pairs
    <3>3. Candidate(off) \subseteq Files
      BY DEF Candidate
    <3>4. vouched' \subseteq Pairs /\ slipped' \subseteq Pairs
      BY <1>0, <2>2, <3>2, <3>3
    <3>. QED
      BY <1>6, <2>1, <3>4, BeginType, UnlistedType DEF StartApply
  <2>5. Nothing \in [Files -> Contents]
    BY DEF Nothing, Contents
  <2>6. FilesOK' /\ snaps' # <<>>
    BY <1>0, <1>6, <2>5 DEF StartApply
  <2>7. JobOK'
    <3>1. OnDisk \ Unlisted(S) \in SUBSET Files
      BY <1>0
    <3>. QED
      BY <1>6, <2>1, <2>6, <3>1, NewJobs DEF StartApply, JobOK, Kinds, Pcs
  <2>. QED
    BY <2>3, <2>4, <2>6, <2>7, TypesPartsNext
<1>7. CASE Copy
  <2>1. PICK f \in Files :
          /\ Done(f)
          /\ snaps' = [snaps EXCEPT ![Len(snaps)] = [snaps[Len(snaps)] EXCEPT ![f] = Copied(f)]]
    BY <1>7, FileInHand DEF Copy
  <2>2. snaps \in Seq([Files -> Contents]) /\ snaps # <<>>
    BY <1>0, <1>7 DEF Copy, JobOK
  <2>3. Len(snaps) \in 1..Len(snaps) /\ snaps[Len(snaps)] \in [Files -> Contents]
    BY <2>2
  <2>4. Copied(f) \in Contents
    BY <1>0 DEF Copied
  <2>5. [snaps[Len(snaps)] EXCEPT ![f] = Copied(f)] \in [Files -> Contents]
    BY <2>3, <2>4
  <2>6. snaps' \in Seq([Files -> Contents]) /\ Len(snaps') = Len(snaps)
    BY <2>1, <2>2, <2>3, <2>5, ExceptSeq
  <2>7. snaps' # <<>>
    BY <2>2, <2>3, <2>6
  <2>8. JobOK'
    BY <2>1, <2>6, <2>7, DoneType
  <2>9. FilesOK' /\ TablesOK' /\ UsedOK' /\ GhostsOK'
    BY <1>0, <1>7, <2>6 DEF Copy, tables, used, ghosts
  <2>. QED
    BY <2>8, <2>9, TypesPartsNext
<1>8. CASE CopyFails
  <2>1. PICK rest \in SUBSET Files : skipped' = skipped \cup rest /\ Go("copy", job.todo \ rest)
    <3>1. job.todo \cap Unlisted({StepOf[Least(job.todo)]}) \in SUBSET Files
      BY <1>0
    <3>. QED
      BY <1>8, <3>1 DEF CopyFails
  <2>2. JobOK'
    <3>1. job.todo \ rest \in SUBSET Files /\ snaps' = snaps /\ snaps # <<>>
      BY <1>0, <1>8 DEF CopyFails, files, JobOK
    <3>2. job.kind \in {"apply", "revert"}
      BY <1>8 DEF CopyFails
    <3>. QED
      BY <2>1, <3>1, <3>2, GoType
  <2>3. FilesOK' /\ TablesOK' /\ UsedOK' /\ GhostsOK'
    BY <1>0, <1>8, <2>1, FailsType DEF CopyFails, files, tables
  <2>. QED
    BY <2>2, <2>3, TypesPartsNext
<1>9. CASE Snapshotted
  <2>1. FilesOK' /\ TablesOK' /\ UsedOK' /\ GhostsOK' /\ snaps' = snaps
    BY <1>0, <1>9 DEF Snapshotted, files, tables, used, ghosts
  <2>2. CASE job.kind = "apply"
    <3>1. Go("move", {f \in Files : upgraded[f] # None})
      BY <1>9, <2>2 DEF Snapshotted
    <3>2. JobOK'
      BY <2>1, <2>2, <3>1, GoType
    <3>. QED
      BY <2>1, <3>2, TypesPartsNext
  <2>3. CASE job.kind # "apply"
    <3>1. Go("restore", {f \in Files : snaps[job.from][f] # None})
      BY <1>9, <2>3 DEF Snapshotted
    <3>2. job.kind = "revert"
      BY <1>0, <1>9, <2>3 DEF Snapshotted, JobOK, Kinds
    <3>3. JobOK'
      BY <2>1, <3>1, <3>2, GoType
    <3>. QED
      BY <2>1, <3>3, TypesPartsNext
  <2>. QED
    BY <2>2, <2>3
<1>10. CASE Move
  <2>1. PICK f \in Files : /\ f = Least(job.todo) /\ Done(f)
    BY <1>10, FileInHand DEF Move
  <2>2. JobOK'
    BY <1>0, <1>10, <2>1, DoneType DEF Move
  <2>3. PICK b \in Contents \cup {Empty} :
          /\ tree' = [tree EXCEPT ![f] = IF b = Empty THEN None ELSE b]
          /\ upgraded' = IF b = Empty THEN upgraded ELSE [upgraded EXCEPT ![f] = None]
    BY <1>0, <1>10, <2>1 DEF Move
  <2>4. FilesOK'
    BY <1>0, <1>10, <2>3 DEF Move, Contents
  <2>5. TablesOK' /\ UsedOK' /\ GhostsOK'
    BY <1>0, <1>10 DEF Move, tables, used, ghosts
  <2>. QED
    BY <2>2, <2>4, <2>5, TypesPartsNext
<1>11. CASE RemoveUpgraded
  <2>1. JobOK'
    BY <1>0, <1>11, GoType DEF RemoveUpgraded, JobOK, Kinds
  <2>2. UsedOK'
    BY <1>0, <1>11, FailsType DEF RemoveUpgraded, used
  <2>3. upgraded' \in [Files -> Contents \cup {Empty}]
    <3>1. Nothing \in [Files -> Contents \cup {Empty}] /\ None \in Contents
      BY DEF Nothing, Contents
    <3>2. \A kept \in SUBSET Files :
            [f \in Files |-> IF f \in kept THEN upgraded[f] ELSE None]
              \in [Files -> Contents \cup {Empty}]
      BY <1>0, <3>1
    <3>. QED
      BY <1>11, <3>1, <3>2 DEF RemoveUpgraded
  <2>4. FilesOK' /\ TablesOK' /\ GhostsOK'
    BY <1>0, <1>11, <2>3 DEF RemoveUpgraded, tables, ghosts
  <2>. QED
    BY <2>1, <2>2, <2>4, TypesPartsNext
<1>12. CASE ListDisk
  <2>1. PICK S \in SUBSET Steps :
          /\ Misses(S)
          /\ skipped' = Unlisted(S)
          /\ pc' = "rows" /\ job' = [job EXCEPT !.disk = OnDisk \ Unlisted(S)]
    BY <1>12 DEF ListDisk
  <2>2. JobOK'
    <3>1. OnDisk \ Unlisted(S) \in SUBSET Files
      BY <1>0
    <3>2. job' \in Jobs /\ job'.kind = job.kind /\ job'.from = job.from
      BY <1>0, <2>1, <3>1, JobTypes
    <3>. QED
      BY <1>0, <1>12, <2>1, <3>2 DEF ListDisk, files, JobOK, Kinds, Pcs
  <2>3. FilesOK' /\ TablesOK' /\ UsedOK' /\ GhostsOK'
    BY <1>0, <1>12, <2>1, MissesType, UnlistedType DEF ListDisk, files, tables
  <2>. QED
    BY <2>2, <2>3, TypesPartsNext
<1>13. CASE ReadRows
  <2>1. PICK lost \in SUBSET Gone(job.disk) :
          /\ Misses(lost)
          /\ skipped' = skipped \cup lost
          /\ Go("fold", Gone(job.disk) \ lost)
    BY <1>13 DEF ReadRows
  <2>2. Gone(job.disk) \ lost \in SUBSET Files /\ lost \subseteq Files
    BY DEF Gone
  <2>3. JobOK'
    BY <1>0, <1>13, <2>1, <2>2, GoType DEF ReadRows, files, JobOK, Kinds
  <2>4. FilesOK' /\ TablesOK' /\ UsedOK' /\ GhostsOK'
    BY <1>0, <1>13, <2>1, <2>2, MissesType DEF ReadRows, files, tables
  <2>. QED
    BY <2>3, <2>4, TypesPartsNext
<1>14. CASE Fold
  <2>1. PICK f \in Files : ledger' = [ledger EXCEPT ![f] = Left(f)] /\ Done(f)
    BY <1>14, FileInHand DEF Fold
  <2>2. JobOK'
    BY <1>0, <1>14, <2>1, DoneType DEF Fold, files, JobOK
  <2>3. FilesOK' /\ TablesOK' /\ UsedOK' /\ GhostsOK'
    BY <1>0, <1>14, <2>1, RowTypes DEF Fold, files, used, ghosts
  <2>. QED
    BY <2>2, <2>3, TypesPartsNext
<1>15. CASE Folded
  <2>1. PICK S \in SUBSET Steps :
          /\ Misses(S)
          /\ skipped' = skipped \cup Unlisted(S)
          /\ Go("rekey", OnDisk \ Unlisted(S))
    BY <1>15 DEF Folded
  <2>2. OnDisk \ Unlisted(S) \in SUBSET Files
    BY <1>0
  <2>3. JobOK'
    BY <1>0, <1>15, <2>1, <2>2, GoType DEF Folded, files, JobOK, Kinds
  <2>4. FilesOK' /\ TablesOK' /\ UsedOK' /\ GhostsOK'
    BY <1>0, <1>15, <2>1, MissesType, UnlistedType DEF Folded, files, tables
  <2>. QED
    BY <2>3, <2>4, TypesPartsNext
<1>16. CASE StatementFails
  <2>1. PICK f \in Files : skipped' = skipped \cup {f} /\ Done(f)
    BY <1>16, FileInHand DEF StatementFails
  <2>2. JobOK'
    BY <1>0, <1>16, <2>1, DoneType DEF StatementFails, files, JobOK
  <2>3. FilesOK' /\ TablesOK' /\ UsedOK' /\ GhostsOK'
    BY <1>0, <1>16, <2>1, FailsType DEF StatementFails, files, tables
  <2>. QED
    BY <2>2, <2>3, TypesPartsNext
<1>17. CASE Rekey
  <2>1. PICK f \in Files, r \in Rows : Store(f, r) /\ Done(f)
    BY <1>0, <1>17, FileInHand, RowTypes DEF Rekey
  <2>2. JobOK'
    BY <1>0, <1>17, <2>1, DoneType DEF Rekey, files, JobOK
  <2>3. ledger' \in [Files -> Rows]
    BY <1>0, <2>1 DEF Store
  <2>4. FilesOK' /\ TablesOK' /\ UsedOK' /\ GhostsOK'
    BY <1>0, <1>17, <2>3 DEF Rekey, files, used, ghosts
  <2>. QED
    BY <2>2, <2>4, TypesPartsNext
<1>18. CASE Rekeyed
  <2>1. JobOK'
    BY <1>0, <1>18, GoType DEF Rekeyed, files, JobOK, Kinds
  <2>2. FilesOK' /\ TablesOK' /\ UsedOK' /\ GhostsOK'
    BY <1>0, <1>18 DEF Rekeyed, files, tables, used, ghosts
  <2>. QED
    BY <2>1, <2>2, TypesPartsNext
<1>19. CASE Record
  <2>1. JobOK'
    BY <1>19, StopType DEF Record
  <2>2. UsedOK'
    BY <1>0, <1>19, FailsType DEF Record, used
  <2>3. log' \in Seq({"merge_apply", "merge_revert"})
    <3>1. CASE log' = log
      BY <1>0, <3>1
    <3>2. CASE log' = Append(log, IF job.kind = "apply" THEN "merge_apply" ELSE "merge_revert")
      BY <1>0, <3>2
    <3>. QED
      BY <1>19, <3>1, <3>2 DEF Record
  <2>4. FilesOK' /\ TablesOK' /\ GhostsOK'
    BY <1>0, <1>19, <2>3 DEF Record, files, ghosts
  <2>. QED
    BY <2>1, <2>2, <2>4, TypesPartsNext
<1>20. CASE StartRevert
  <2>1. PICK i \in 1..Len(snaps), S \in SUBSET Steps :
          /\ Misses(S)
          /\ skipped' = Unlisted(S)
          /\ job' = [kind |-> "revert", todo |-> OnDisk \ Unlisted(S), disk |-> {}, from |-> i]
    BY <1>20 DEF StartRevert
  <2>2. UsedOK' /\ TablesOK' /\ GhostsOK'
    BY <1>0, <1>20, <2>1, BeginType, MissesType, UnlistedType DEF StartRevert, tables
  <2>3. Nothing \in [Files -> Contents]
    BY DEF Nothing, Contents
  <2>4. FilesOK' /\ Len(snaps') = Len(snaps) + 1
    BY <1>0, <1>20, <2>3 DEF StartRevert
  <2>5. Len(snaps) \in Nat /\ i \in Nat /\ i \in 1..Len(snaps') /\ snaps' # <<>>
    BY <1>0, <2>4
  <2>6. job' \in Jobs /\ job'.kind = "revert" /\ job'.from = i
    <3>1. OnDisk \ Unlisted(S) \in SUBSET Files
      BY <1>0
    <3>. QED
      BY <2>1, <2>5, <3>1, RevertJob
  <2>7. JobOK'
    BY <1>20, <2>5, <2>6 DEF StartRevert, JobOK, Kinds, Pcs
  <2>. QED
    BY <2>2, <2>4, <2>7, TypesPartsNext
<1>21. CASE Restore
  <2>1. PICK f \in Files : tree' = [tree EXCEPT ![f] = snaps[job.from][f]] /\ Done(f)
    BY <1>21, FileInHand DEF Restore
  <2>2. JobOK'
    BY <1>0, <1>21, <2>1, DoneType DEF Restore, JobOK
  <2>3. snaps[job.from][f] \in Contents
    <3>1. job.from \in 1..Len(snaps)
      BY <1>0, <1>21 DEF Restore, JobOK, Kinds
    <3>2. snaps[job.from] \in [Files -> Contents]
      BY <1>0, <3>1
    <3>. QED
      BY <3>2
  <2>4. FilesOK' /\ TablesOK' /\ UsedOK' /\ GhostsOK'
    BY <1>0, <1>21, <2>1, <2>3 DEF Restore, tables, used, ghosts
  <2>. QED
    BY <2>2, <2>4, TypesPartsNext
<1>22. CASE Unfold
  <2>1. FilesOK' /\ snaps' = snaps
    BY <1>0, <1>22 DEF Unfold, files
  <2>2. JobOK'
    BY <1>0, <1>22, <2>1, GoType DEF Unfold, JobOK, Kinds
  <2>3. UsedOK'
    BY <1>0, <1>22, FailsType DEF Unfold, used
  <2>4. TablesOK'
    <3>1. \A f \in Files : ledger[f] \in Rows /\ Unfolded(f) \in Rows
      BY <1>0, RowTypes
    <3>2. \/ ledger' = ledger
          \/ ledger' = [f \in Files |-> IF f \in Since THEN Unfolded(f) ELSE ledger[f]]
      BY <1>22 DEF Unfold
    <3>3. ledger' \in [Files -> Rows]
      BY <1>0, <3>1, <3>2
    <3>. QED
      BY <1>0, <1>22, <3>3 DEF Unfold
  <2>5. GhostsOK'
    <3>1. \A f \in Files : <<f, ledger[f].sha>> \in Pairs
      BY <1>0, RowTypes DEF Pairs
    <3>2. Since \subseteq Files
      BY DEF Since
    <3>3. slipped' = slipped \/ slipped' = slipped \cup {<<f, ledger[f].sha>> : f \in Since}
      BY <1>22 DEF Unfold
    <3>4. slipped' \subseteq Pairs
      BY <1>0, <3>1, <3>2, <3>3
    <3>. QED
      BY <1>0, <1>22, <3>4 DEF Unfold
  <2>. QED
    BY <2>1, <2>2, <2>3, <2>4, <2>5, TypesPartsNext
<1>23. CASE Abort
  <2>1. JobOK' /\ UsedOK'
    BY <1>23, StopType, FailsType DEF Abort
  <2>2. FilesOK' /\ TablesOK' /\ GhostsOK'
    BY <1>0, <1>23 DEF Abort, files, tables, ghosts
  <2>. QED
    BY <2>1, <2>2, TypesPartsNext
<1>24. CASE PruneTree
  <2>1. \A f \in Files : /\ ledger[f] \in Rows /\ Orphaned(f) \in Rows /\ Rehashed(f) \in Rows
                         /\ <<f, tree[f]>> \in Pairs
    BY <1>0, RowTypes DEF Pairs
  <2>2. PICK S \in SUBSET Files, T \in SUBSET Files :
          /\ ledger' = [f \in Files |-> IF f \in S THEN Orphaned(f)
                                        ELSE IF f \in T THEN Rehashed(f) ELSE ledger[f]]
          /\ vouched' = vouched \cup {<<f, tree[f]>> : f \in T}
    <3>. DEFINE live == {f \in Files : ledger[f].state \in {"pending", "applied"}
                                      /\ ~ledger[f].removed}
    <3>. WITNESS live \ OnDisk \in SUBSET Files,
                 {f \in live \cap OnDisk : ledger[f].state = "applied"} \in SUBSET Files
    <3>. QED
      BY <1>24 DEF PruneTree
  <2>3. ledger' \in [Files -> Rows] /\ vouched' \subseteq Pairs
    BY <1>0, <2>1, <2>2
  <2>4. FilesOK' /\ JobOK'
    BY <1>0, <1>24 DEF PruneTree, files, JobOK, Kinds
  <2>5. TablesOK' /\ UsedOK' /\ GhostsOK'
    BY <1>0, <1>24, <2>3 DEF PruneTree
  <2>. QED
    BY <2>4, <2>5, TypesPartsNext
<1>25. ASSUME NEW f \in Files, UpScans(f) PROVE Types'
  <2>1. ledger' \in [Files -> Rows]
    BY <1>0, <1>25, RowTypes DEF UpScans
  <2>2. FilesOK' /\ JobOK'
    BY <1>0, <1>25 DEF UpScans, files, JobOK, Kinds
  <2>3. TablesOK' /\ UsedOK' /\ GhostsOK'
    BY <1>0, <1>25, <2>1 DEF UpScans, ghosts
  <2>. QED
    BY <2>2, <2>3, TypesPartsNext
<1>26. ASSUME NEW f \in Files, UpApplies(f) PROVE Types'
  <2>1. ledger' \in [Files -> Rows] /\ <<f, ledger[f].sha>> \in Pairs
    BY <1>0, <1>26, RowTypes DEF UpApplies, Pairs
  <2>2. FilesOK' /\ JobOK'
    BY <1>0, <1>26 DEF UpApplies, files, JobOK, Kinds
  <2>3. TablesOK' /\ UsedOK'
    BY <1>0, <1>26, <2>1 DEF UpApplies
  <2>4. GhostsOK'
    BY <1>0, <1>26, <2>1 DEF UpApplies
  <2>. QED
    BY <2>2, <2>3, <2>4, TypesPartsNext
<1>27. ASSUME NEW f \in Files, NEW b \in Contents, Edit(f, b) PROVE Types'
  <2>1. FilesOK' /\ TablesOK' /\ UsedOK' /\ JobOK'
    BY <1>0, <1>27 DEF Edit, tables, JobOK, Kinds
  <2>2. GhostsOK'
    BY <1>0, <1>27 DEF Edit, Pairs
  <2>. QED
    BY <2>1, <2>2, TypesPartsNext
<1>28. CASE \E f \in Files : \/ UpScans(f) \/ UpApplies(f)
                             \/ \E b \in Bodies \cup {None} : Edit(f, b)
  BY <1>25, <1>26, <1>27, <1>28 DEF Contents
<1>32. CASE RemoveFails
  <2>1. PICK f \in Files : slipped' = slipped \cup {<<f, tree[f]>>} /\ Done(f)
    BY <1>32, FileInHand DEF RemoveFails
  <2>2. JobOK'
    BY <1>0, <1>32, <2>1, DoneType DEF RemoveFails, files, JobOK
  <2>3. <<f, tree[f]>> \in Pairs
    BY <1>0 DEF Pairs
  <2>4. FilesOK' /\ TablesOK' /\ UsedOK' /\ GhostsOK'
    BY <1>0, <1>32, <2>1, <2>3, FailsType DEF RemoveFails, files, tables
  <2>. QED
    BY <2>2, <2>4, TypesPartsNext
<1>33. CASE RekeyUnread
  <2>1. PICK f \in Files :
          /\ ledger' = [ledger EXCEPT ![f].sha = None]
          /\ skipped' = skipped \cup {f} /\ slipped' = slipped \cup {<<f, None>>} /\ Done(f)
    BY <1>33, FileInHand DEF RekeyUnread
  <2>2. JobOK'
    BY <1>0, <1>33, <2>1, DoneType DEF RekeyUnread, files, JobOK
  <2>3. ledger' \in [Files -> Rows]
    <3>1. ledger' = [ledger EXCEPT ![f] = [ledger[f] EXCEPT !.sha = None]]
      BY <1>0, <2>1
    <3>2. [ledger[f] EXCEPT !.sha = None] \in Rows
      BY <1>0 DEF Rows, Contents
    <3>. QED
      BY <1>0, <3>1, <3>2
  <2>4. <<f, None>> \in Pairs
    BY DEF Pairs, Contents
  <2>5. FilesOK' /\ TablesOK' /\ UsedOK' /\ GhostsOK'
    BY <1>0, <1>33, <2>1, <2>3, <2>4, FailsType DEF RekeyUnread, files
  <2>. QED
    BY <2>2, <2>5, TypesPartsNext
<1>29. CASE Plan
  BY <1>2, <1>3, <1>4, <1>5, <1>29 DEF Plan
<1>30. CASE Apply
  BY <1>6, <1>7, <1>9, <1>10, <1>11, <1>12, <1>13, <1>14, <1>15, <1>16, <1>17, <1>18, <1>19, <1>30,
     <1>32, <1>33 DEF Apply
<1>31. CASE Revert
  BY <1>8, <1>20, <1>21, <1>22, <1>31 DEF Revert
<1>. QED
  BY <1>1, <1>23, <1>24, <1>28, <1>29, <1>30, <1>31 DEF Next

\* Merge keeps its types, and a command has the snapshots it works with.
THEOREM MergeTypes == Spec => []TypeOK
<1>1. Init => Types
  BY TypesInit
<1>2. Types /\ [Next]_vars => Types'
  BY TypesStep
<1>3. Types => TypeOK
  BY DEF Types
<1>. QED
  BY <1>1, <1>2, <1>3, PTL DEF Spec

-----------------------------------------------------------------------------
(* Rows *)

\* The steps that leave the tree and the command alone.
Aside == UNCHANGED vars \/ PruneTree \/ \E f \in Files : UpScans(f) \/ UpApplies(f)

LEMMA AsideFrame ==
  ASSUME Aside
  PROVE  /\ UNCHANGED <<tree, upgraded, planned, snaps, log, pc, job, touched, slipped, skipped>>
         /\ ran \subseteq ran' /\ vouched \subseteq vouched'
<1>1. CASE UNCHANGED vars
  BY <1>1 DEF vars, files, tables, ghosts
<1>2. CASE PruneTree
  BY <1>2 DEF PruneTree, files
<1>3. ASSUME NEW f \in Files, UpScans(f) \/ UpApplies(f)
      PROVE  /\ UNCHANGED <<tree, upgraded, planned, snaps, log, pc, job, touched, slipped, skipped>>
             /\ ran \subseteq ran' /\ vouched \subseteq vouched'
  BY <1>3 DEF UpScans, UpApplies, files, ghosts
<1>. QED
  BY <1>1, <1>2, <1>3 DEF Aside

LEMMA StepCases ==
  ASSUME [Next]_vars
  PROVE  \/ Aside \/ Plan \/ Apply \/ Revert \/ Abort
         \/ \E f \in Files, b \in Contents : Edit(f, b)
BY DEF Next, Aside, Contents

\* What a step may do to the row of file f. An INSERT of an apply is refused.
RowStep(f) ==
  \/ ledger'[f] = ledger[f]
  \/ ledger'[f] = Scanned(f) /\ (ledger[f].state = "applied" => f \notin Migrations)
  \/ ledger'[f] = Committed(f) /\ f \in ran' /\ <<f, ledger[f].sha>> \in vouched'
  \/ ledger'[f] = Orphaned(f)
  \/ ledger'[f] = Rehashed(f) /\ (<<f, tree[f]>> \in vouched' \/ ledger[f].state # "applied"
                                  \/ (pc = "rekey" /\ job.kind = "apply"))
  \/ ledger'[f] = Left(f)
  \/ ledger'[f] = Unfolded(f) /\ Accepted(Unfolded(f)) /\ <<f, ledger[f].sha>> \in slipped'
  \/ ledger'[f] = Unread(f) /\ <<f, None>> \in slipped'

LEMMA RowSteps ==
  ASSUME Types, [Next]_vars
  PROVE  /\ \A f \in Files : RowStep(f)
         /\ \A f \in Files : f \in ran' => f \in ran \/ ledger'[f] = Committed(f)
         /\ ran \subseteq ran' /\ vouched \subseteq vouched' /\ slipped \subseteq slipped'
<1>0. TypeOK /\ ledger \in [Files -> Rows]
  BY DEF Types, TypeOK
<1>1. CASE ledger' = ledger /\ ran' = ran /\ vouched \subseteq vouched' /\ slipped \subseteq slipped'
  BY <1>1 DEF RowStep
<1>2. CASE UNCHANGED vars
  BY <1>1, <1>2 DEF vars, tables, ghosts
<1>3. CASE PruneTree
  <2>. DEFINE live == {f \in Files : ledger[f].state \in {"pending", "applied"}
                                    /\ ~ledger[f].removed}
              gone == live \ OnDisk
              rest == {f \in live \cap OnDisk : ledger[f].state = "applied"}
  <2>1. /\ ledger' = [f \in Files |-> IF f \in gone THEN Orphaned(f)
                                      ELSE IF f \in rest THEN Rehashed(f) ELSE ledger[f]]
        /\ vouched' = vouched \cup {<<f, tree[f]>> : f \in rest}
        /\ ran' = ran /\ slipped' = slipped
    BY <1>3 DEF PruneTree
  <2>. HIDE DEF gone, rest
  <2>2. \A f \in Files : RowStep(f)
    BY <2>1 DEF RowStep
  <2>. QED
    BY <2>1, <2>2
<1>4. ASSUME NEW g \in Files, UpScans(g)
      PROVE  (\A f \in Files : RowStep(f)) /\ UNCHANGED ghosts
  BY <1>0, <1>4 DEF UpScans, RowStep
<1>5. ASSUME NEW g \in Files, UpApplies(g)
      PROVE  /\ \A f \in Files : RowStep(f)
             /\ \A f \in Files : f \in ran' => f \in ran \/ ledger'[f] = Committed(f)
             /\ ran \subseteq ran' /\ vouched \subseteq vouched' /\ slipped \subseteq slipped'
  BY <1>0, <1>5 DEF UpApplies, RowStep
<1>6. CASE Aside
  BY <1>2, <1>3, <1>4, <1>5, <1>6 DEF Aside, ghosts
<1>7. CASE Plan
  BY <1>1, <1>7 DEF Plan, StartPlan, PlanMigration, PlanFile, PlanReady, Begin, tables, ghosts
<1>15. CASE RemoveFails
  BY <1>1, <1>15 DEF RemoveFails, tables
<1>16. CASE RekeyUnread
  <2>1. PICK g \in Files :
          ledger' = [ledger EXCEPT ![g].sha = None] /\ slipped' = slipped \cup {<<g, None>>}
    BY <1>16, FileInHand DEF RekeyUnread
  <2>2. \A f \in Files : ledger'[f] = IF f = g THEN Unread(f) ELSE ledger[f]
    BY <1>0, <2>1 DEF Unread
  <2>3. \A f \in Files : RowStep(f)
    BY <2>1, <2>2 DEF RowStep
  <2>. QED
    BY <1>16, <2>1, <2>3 DEF RekeyUnread
<1>8. CASE Fold
  <2>1. PICK g \in Files : ledger' = [ledger EXCEPT ![g] = Left(g)]
    BY <1>8, FileInHand DEF Fold
  <2>. QED
    BY <1>0, <1>8, <2>1 DEF Fold, RowStep, ghosts
<1>9. CASE Rekey
  <2>1. PICK g \in Files :
          Store(g, IF ledger[g].state = "none" THEN Registered(g) ELSE Rehashed(g))
    BY <1>9, FileInHand DEF Rekey
  <2>2. ~Accepted(Registered(g))
    BY <1>0, RowFields DEF Accepted
  <2>3. ledger' = ledger \/ ledger' = [ledger EXCEPT ![g] = Rehashed(g)]
    BY <2>1, <2>2 DEF Store
  <2>4. pc = "rekey" /\ job.kind = "apply" /\ UNCHANGED ghosts
    BY <1>9 DEF Rekey, Types, Kinds
  <2>. QED
    BY <1>0, <2>3, <2>4 DEF RowStep, ghosts
<1>10. CASE Apply
  <2>1. CASE StartApply
    BY <1>1, <2>1 DEF StartApply, Begin, tables
  <2>2. CASE Copy \/ Snapshotted \/ Move \/ RemoveUpgraded \/ ListDisk
    BY <1>1, <2>2 DEF Copy, Snapshotted, Move, RemoveUpgraded, ListDisk, tables, ghosts
  <2>3. CASE ReadRows \/ Folded \/ StatementFails \/ Rekeyed \/ Record
    BY <1>1, <2>3 DEF ReadRows, Folded, StatementFails, Rekeyed, Record, tables, ghosts
  <2>. QED
    BY <1>8, <1>9, <1>10, <1>15, <1>16, <2>1, <2>2, <2>3 DEF Apply
<1>11. CASE Unfold
  <2>1. CASE ledger' = ledger /\ slipped' = slipped
    BY <1>1, <1>11, <2>1 DEF Unfold
  <2>2. CASE /\ \A f \in Since : Accepted(Unfolded(f))
             /\ ledger' = [f \in Files |-> IF f \in Since THEN Unfolded(f) ELSE ledger[f]]
             /\ slipped' = slipped \cup {<<f, ledger[f].sha>> : f \in Since}
    <3>1. \A f \in Files : RowStep(f)
      BY <2>2 DEF RowStep
    <3>. QED
      BY <1>11, <2>2, <3>1 DEF Unfold
  <2>. QED
    BY <1>11, <2>1, <2>2 DEF Unfold
<1>12. CASE Revert
  BY <1>1, <1>11, <1>12 DEF Revert, StartRevert, CopyFails, Restore, Begin, tables, ghosts
<1>13. CASE Abort
  BY <1>1, <1>13 DEF Abort, tables, ghosts
<1>14. CASE \E f \in Files, b \in Contents : Edit(f, b)
  BY <1>1, <1>14 DEF Edit, tables
<1>. QED
  BY <1>6, <1>7, <1>10, <1>12, <1>13, <1>14, StepCases

\* An applied row carries the time it was applied, and only a file that ran does.
Stamps == \A f \in Files : Accepted(ledger[f]) /\ (ledger[f].stamped => f \in ran)

LEMMA StampsStep ==
  ASSUME Types, Stamps, [Next]_vars
  PROVE  Stamps'
<1>. SUFFICES ASSUME NEW f \in Files
              PROVE  Accepted(ledger'[f]) /\ (ledger'[f].stamped => f \in ran')
  BY DEF Stamps, Accepted
<1>1. TypeOK /\ Accepted(ledger[f]) /\ (ledger[f].stamped => f \in ran)
  BY DEF Types, Stamps
<1>2. RowStep(f) /\ ran \subseteq ran'
  BY RowSteps
<1>. QED
  BY <1>1, <1>2, RowFields DEF RowStep, Accepted

LEMMA FirstRows ==
  ASSUME Init, NEW f \in Files
  PROVE  \/ /\ f \in ran /\ <<f, tree[f]>> \in vouched
            /\ ledger[f].state = "applied" /\ ledger[f].stamped /\ ledger[f].sha = tree[f]
         \/ /\ f \notin ran
            /\ ledger[f].state = "none" /\ ~ledger[f].stamped
<1>1. PICK S \in SUBSET OnDisk :
        /\ ledger = [g \in Files |-> IF g \in S
             THEN [NoRow EXCEPT !.state = "applied", !.sha = tree[g], !.stamped = TRUE] ELSE NoRow]
        /\ ran = S /\ vouched = {<<g, tree[g]>> : g \in S}
  BY DEF Init
<1>2. CASE f \in S
  <2>1. ledger[f] = [NoRow EXCEPT !.state = "applied", !.sha = tree[f], !.stamped = TRUE]
    BY <1>1, <1>2
  <2>2. /\ ledger[f].state = "applied" /\ ledger[f].stamped /\ ledger[f].sha = tree[f]
    BY <2>1 DEF NoRow
  <2>. QED
    BY <1>1, <1>2, <2>2
<1>3. CASE f \notin S
  <2>1. ledger[f] = NoRow
    BY <1>1, <1>3
  <2>. QED
    BY <1>1, <1>3, <2>1 DEF NoRow
<1>. QED
  BY <1>2, <1>3

LEMMA StampsInit == Init => Stamps
<1>. SUFFICES ASSUME Init, NEW f \in Files
              PROVE  Accepted(ledger[f]) /\ (ledger[f].stamped => f \in ran)
  BY DEF Stamps
<1>. QED
  BY FirstRows DEF Accepted

\* An applied row is the row of a file that ran.
THEOREM AppliedRan == Spec => []AppliedHasRun
<1>1. Init => Types /\ Stamps
  BY TypesInit, StampsInit
<1>2. Types /\ Stamps /\ [Next]_vars => Types' /\ Stamps'
  BY TypesStep, StampsStep
<1>3. Stamps => AppliedHasRun
  BY DEF Stamps, AppliedHasRun, Accepted
<1>. QED
  BY <1>1, <1>2, <1>3, PTL DEF Spec

\* A migration that ran never comes back to pending.
THEOREM RanStaysSettled == Spec => []RanIsSettled
<1>1. Init => Types /\ RanIsSettled
  <2>. SUFFICES ASSUME Init, NEW f \in Migrations, f \in ran
                PROVE  ledger[f].state \in {"applied", "folded"}
    BY TypesInit DEF RanIsSettled
  <2>1. f \in Files
    BY MergeAssumption DEF Files
  <2>. QED
    BY <2>1, FirstRows
<1>2. Types /\ RanIsSettled /\ [Next]_vars => RanIsSettled'
  <2>. SUFFICES ASSUME Types, RanIsSettled, [Next]_vars, NEW f \in Migrations, f \in ran'
                PROVE  ledger'[f].state \in {"applied", "folded"}
    BY DEF RanIsSettled
  <2>1. f \in Files /\ TypeOK
    BY MergeAssumption DEF Files, Types
  <2>2. RowStep(f) /\ (f \in ran \/ ledger'[f] = Committed(f))
    BY <2>1, RowSteps
  <2>3. f \in ran => ledger[f].state \in {"applied", "folded"}
    BY <2>1 DEF RanIsSettled
  <2>. QED
    BY <2>1, <2>2, <2>3, RowFields DEF RowStep
<1>3. Types /\ [Next]_vars => Types'
  BY TypesStep
<1>. QED
  BY <1>1, <1>2, <1>3, PTL DEF Spec

-----------------------------------------------------------------------------
(* What an apply writes was proven *)

Proven(f, b) == <<f, b>> \in vouched \cup slipped

\* While an apply is under way, what it will leave of each file is proven.
Covered ==
  job.kind = "apply" =>
    /\ pc = "copy" => \A f \in Files : Proven(f, Merged(f))
    /\ pc = "move" => \A f \in Files : IF f \in job.todo
                                     THEN upgraded[f] # None /\ Proven(f, Merged(f))
                                     ELSE Proven(f, tree[f])
    /\ pc \in {"list", "rows", "fold", "rekey"} => \A f \in Files : Proven(f, tree[f])

LEMMA CoveredStep ==
  ASSUME Types, Covered, [Next]_vars
  PROVE  Covered'
<1>0. /\ JobOK /\ Kinds /\ FilesOK /\ job \in Jobs /\ job.todo \in SUBSET Files
      /\ vouched \subseteq vouched' /\ slipped \subseteq slipped'
  BY RowSteps, TypesParts, JobTypes DEF JobOK
<1>1. \A f \in Files : \A b : Proven(f, b) => <<f, b>> \in vouched' \cup slipped'
  BY <1>0 DEF Proven
\* The steps that go on, or stay, without a change of tree and .upgraded.
<1>2. CASE UNCHANGED <<tree, upgraded, pc, job>>
  BY <1>1, <1>2 DEF Covered, Proven, Merged
<1>3. CASE Aside
  BY <1>2, <1>3, AsideFrame
<1>4. CASE pc' = "idle" \/ pc' = "plan" \/ pc' = "record" \/ pc' = "restore" \/ job'.kind # "apply"
  BY <1>4 DEF Covered
<1>5. CASE Plan
  <2>1. CASE StartPlan
    BY <1>4, <2>1 DEF StartPlan, Begin
  <2>2. CASE PlanMigration \/ PlanFile \/ PlanReady
    BY <1>4, <2>2 DEF PlanMigration, PlanFile, PlanReady, Done, Stop
  <2>. QED
    BY <1>5, <2>1, <2>2 DEF Plan
<1>6. CASE StartApply
  <2>1. pc' = "copy" /\ UNCHANGED <<tree, upgraded>>
    BY <1>6 DEF StartApply
  <2>2. \A f \in Files : <<f, Merged(f)>> \in vouched' \cup slipped'
    <3>1. PICK off \in SUBSET Conditional :
            /\ vouched' = vouched \cup {<<f, Merged(f)>> : f \in Candidate(off)}
            /\ slipped' = slipped \cup {<<f, Merged(f)>> : f \in Files \ Candidate(off)}
      BY <1>6 DEF StartApply
    <3>2. \A f \in Files : f \in Candidate(off) \/ f \in Files \ Candidate(off)
      OBVIOUS
    <3>. QED
      BY <3>1, <3>2
  <2>. QED
    BY <2>1, <2>2 DEF Covered, Proven, Merged
<1>7. CASE Copy
  <2>1. PICK f \in Files : Done(f)
    BY <1>7, FileInHand DEF Copy
  <2>2. pc = "copy" /\ pc' = "copy" /\ job'.kind = job.kind /\ UNCHANGED <<tree, upgraded>>
    BY <1>0, <1>7, <2>1, JobTypes DEF Copy, Done
  <2>. QED
    BY <1>1, <2>2 DEF Covered, Proven, Merged
<1>20. CASE CopyFails
  <2>1. PICK S \in SUBSET Files : Go("copy", S) /\ job.kind = "revert"
    <3>1. job.todo \ (job.todo \cap Unlisted({StepOf[Least(job.todo)]})) \in SUBSET Files
      BY <1>0
    <3>. QED
      BY <1>20, <3>1 DEF CopyFails
  <2>2. job'.kind = "revert"
    BY <1>0, <2>1, JobTypes DEF Go
  <2>. QED
    BY <1>4, <2>2
<1>8. CASE Snapshotted
  <2>1. CASE job.kind = "apply"
    <3>. DEFINE S == {f \in Files : upgraded[f] # None}
    <3>1. /\ Go("move", S) /\ pc = "copy" /\ UNCHANGED <<tree, upgraded>>
      BY <1>8, <2>1 DEF Snapshotted, files
    <3>2. pc' = "move" /\ job'.todo = S
      BY <1>0, <3>1, JobTypes DEF Go
    <3>3. \A f \in Files : f \notin S => Merged(f) = tree[f]
      BY MergeAssumption DEF Merged
    <3>4. \A f \in Files : <<f, Merged(f)>> \in vouched' \cup slipped'
      BY <1>1, <2>1, <3>1 DEF Covered
    <3>. QED
      BY <3>1, <3>2, <3>3, <3>4 DEF Covered, Proven, Merged
  <2>2. CASE job.kind # "apply"
    BY <1>4, <1>8, <2>2 DEF Snapshotted, Go
  <2>. QED
    BY <2>1, <2>2
<1>9. CASE Move
  <2>1. PICK g \in Files : /\ g = Least(job.todo) /\ g \in job.todo /\ Done(g)
    BY <1>9, FileInHand DEF Move
  <2>2. /\ tree' = [tree EXCEPT ![g] = IF upgraded[g] = Empty THEN None ELSE upgraded[g]]
        /\ upgraded' = IF upgraded[g] = Empty THEN upgraded ELSE [upgraded EXCEPT ![g] = None]
        /\ pc = "move"
    BY <1>9, <2>1 DEF Move
  <2>3. pc' = "move" /\ job'.todo = job.todo \ {g} /\ job.kind = "apply"
    BY <1>0, <1>9, <2>1, <2>2, DoneType DEF Move, Kinds
  <2>4. upgraded[g] # None /\ Proven(g, Merged(g))
    BY <2>1, <2>2, <2>3 DEF Covered
  <2>5. tree'[g] = Merged(g)
    BY <1>0, <2>2, <2>4, MergeAssumption DEF FilesOK, Merged
  <2>6. \A f \in Files : f # g => /\ tree'[f] = tree[f] /\ upgraded'[f] = upgraded[f]
                                  /\ Merged(f)' = Merged(f)
    BY <1>0, <2>2 DEF Merged
  <2>7. ASSUME NEW f \in Files
        PROVE  IF f \in job'.todo
                 THEN upgraded'[f] # None /\ <<f, Merged(f)'>> \in vouched' \cup slipped'
                 ELSE <<f, tree'[f]>> \in vouched' \cup slipped'
    <3>1. CASE f = g
      BY <1>1, <2>3, <2>4, <2>5, <3>1
    <3>2. CASE f # g
      BY <1>1, <2>2, <2>3, <2>6, <3>2 DEF Covered
    <3>. QED
      BY <3>1, <3>2
  <2>. QED
    BY <2>3, <2>7 DEF Covered, Proven
<1>19. CASE RemoveFails
  <2>1. PICK g \in Files : Done(g) /\ slipped' = slipped \cup {<<g, tree[g]>>}
    BY <1>19, FileInHand DEF RemoveFails
  <2>2. /\ pc = "move" /\ pc' = "move" /\ job'.todo = job.todo \ {g}
        /\ job.kind = "apply" /\ UNCHANGED <<tree, upgraded>>
    BY <1>0, <1>19, <2>1, DoneTodo DEF RemoveFails, files, Kinds
  <2>3. <<g, tree[g]>> \in slipped'
    BY <2>1
  <2>. QED
    BY <1>1, <2>2, <2>3 DEF Covered, Proven, Merged
\* The statements after the move leave the tree alone.
<1>10. CASE RemoveUpgraded
  <2>1. pc = "move" /\ job.todo = {} /\ tree' = tree /\ job.kind = "apply" /\ pc' = "list"
    BY <1>0, <1>10 DEF RemoveUpgraded, Go, Kinds
  <2>. QED
    BY <1>1, <2>1 DEF Covered, Proven
<1>11. CASE ListDisk \/ ReadRows \/ Fold \/ Folded \/ Rekey \/ RekeyUnread
  <2>1. /\ pc \in {"list", "rows", "fold", "rekey"} /\ tree' = tree
        /\ pc' \in {"list", "rows", "fold", "rekey"}
    BY <1>11 DEF ListDisk, ReadRows, Fold, Folded, Rekey, RekeyUnread, files, Go, Done
  <2>. QED
    BY <1>0, <1>1, <2>1 DEF Covered, Proven, Kinds
<1>21. CASE StatementFails
  <2>1. pc' = pc /\ pc \in {"fold", "rekey", "restore"} /\ tree' = tree
    BY <1>21 DEF StatementFails, files, Done
  <2>. QED
    BY <1>0, <1>1, <1>4, <2>1 DEF Covered, Proven, Kinds
<1>12. CASE Rekeyed \/ Record
  BY <1>4, <1>12 DEF Rekeyed, Record, Go, Stop
<1>13. CASE StartRevert
  BY <1>4, <1>13 DEF StartRevert
<1>14. CASE Restore \/ Unfold
  <2>1. pc' = "restore" \/ pc' = "record"
    BY <1>14 DEF Restore, Unfold, Go, Done
  <2>. QED
    BY <1>4, <2>1
<1>15. CASE Abort
  BY <1>4, <1>15 DEF Abort, Stop
<1>16. ASSUME NEW g \in Files, NEW b \in Contents, Edit(g, b) PROVE Covered'
  <2>1. CASE pc = "idle"
    BY <1>4, <1>16, <2>1 DEF Edit
  <2>2. CASE pc # "idle"
    <3>1. /\ tree' = [tree EXCEPT ![g] = b] /\ UNCHANGED <<upgraded, pc, job>>
          /\ <<g, b>> \in slipped'
      BY <1>16, <2>2 DEF Edit
    <3>2. \A f \in Files : /\ Merged(f)' = Merged(f) \/ (f = g /\ Merged(f)' = b)
                           /\ tree'[f] = tree[f] \/ (f = g /\ tree'[f] = b)
      BY <1>0, <3>1 DEF Merged
    <3>. QED
      BY <1>1, <3>1, <3>2 DEF Covered, Proven
  <2>. QED
    BY <2>1, <2>2
<1>17. CASE Apply
  BY <1>6, <1>7, <1>8, <1>9, <1>10, <1>11, <1>12, <1>17, <1>19, <1>21 DEF Apply
<1>18. CASE Revert
  BY <1>13, <1>20, <1>14, <1>18 DEF Revert
<1>. QED
  BY <1>3, <1>5, <1>15, <1>16, <1>17, <1>18, StepCases

\* The content of an applied row is one that was run, declared or proven.
THEOREM SettledIsProven == Spec => []SettledWasProven
<1>1. Init => Types /\ Covered /\ SettledWasProven
  <2>1. Init => SettledWasProven
    <3>. SUFFICES ASSUME Init, NEW f \in Files, ledger[f].state = "applied"
                  PROVE  <<f, ledger[f].sha>> \in vouched
      BY DEF SettledWasProven
    <3>. QED
      BY FirstRows
  <2>2. Init => Covered
    BY DEF Init, Covered
  <2>. QED
    BY <2>1, <2>2, TypesInit
<1>2. Types /\ Covered /\ SettledWasProven /\ [Next]_vars => SettledWasProven'
  <2>. SUFFICES ASSUME Types, Covered, SettledWasProven, [Next]_vars, NEW f \in Files,
                       ledger'[f].state = "applied"
                PROVE  <<f, ledger'[f].sha>> \in vouched' \cup slipped'
    BY DEF SettledWasProven
  <2>1. TypeOK /\ RowStep(f) /\ vouched \subseteq vouched' /\ slipped \subseteq slipped'
    BY RowSteps DEF Types
  <2>2. ledger[f].state = "applied" => <<f, ledger[f].sha>> \in vouched' \cup slipped'
    BY <2>1 DEF SettledWasProven
  <2>3. pc = "rekey" /\ job.kind = "apply" => <<f, tree[f]>> \in vouched' \cup slipped'
    BY <2>1 DEF Covered, Proven
  <2>. QED
    BY <2>1, <2>2, <2>3, RowFields DEF RowStep
<1>3. Types /\ Covered /\ [Next]_vars => Types' /\ Covered'
  BY TypesStep, CoveredStep
<1>. QED
  BY <1>1, <1>2, <1>3, PTL DEF Spec

-----------------------------------------------------------------------------
(* What a command overwrites was copied *)

Missed == touched \cup skipped
InSnapshot(f, b) == \E i \in 1..Len(snaps) : snaps[i][f] = b

\* A file that the copy has passed, or that is still to be replaced, has its
\* content in a snapshot.
Saved ==
  /\ pc = "copy" => \A f \in OnDisk \ (Missed \cup job.todo) :
                      snaps[Len(snaps)][f] = tree[f]
  /\ pc \in {"move", "restore"} => \A f \in job.todo : f \in OnDisk /\ f \notin Missed
                                     => InSnapshot(f, tree[f])

LEMMA SavedStep ==
  ASSUME Types, Saved, [Next]_vars
  PROVE  Saved'
<1>0. /\ JobOK /\ Kinds /\ FilesOK /\ job \in Jobs /\ job.todo \in SUBSET Files
      /\ OnDisk \subseteq Files
  BY TypesParts, JobTypes DEF JobOK, OnDisk
<1>1. CASE UNCHANGED <<tree, snaps, pc, job>> /\ Missed \subseteq Missed'
  BY <1>1 DEF Saved, InSnapshot, OnDisk
<1>2. CASE Aside
  BY <1>1, <1>2, AsideFrame DEF Missed
<1>3. CASE pc' \notin {"copy", "move", "restore"}
  BY <1>3 DEF Saved
<1>4. CASE Plan
  <2>1. CASE StartPlan
    BY <1>3, <2>1 DEF StartPlan, Begin
  <2>2. CASE PlanMigration \/ PlanFile \/ PlanReady
    BY <1>3, <2>2 DEF PlanMigration, PlanFile, PlanReady, Done, Stop
  <2>. QED
    BY <1>4, <2>1, <2>2 DEF Plan
<1>5. CASE StartApply \/ StartRevert
  <2>1. PICK S \in SUBSET Steps : skipped' = Unlisted(S) /\ job'.todo = OnDisk \ Unlisted(S)
    <3>1. CASE StartApply
      <4>1. PICK S \in SUBSET Steps :
              /\ skipped' = Unlisted(S)
              /\ job' = [NoJob EXCEPT !.kind = "apply", !.todo = OnDisk \ Unlisted(S)]
        BY <3>1 DEF StartApply
      <4>2. OnDisk \ Unlisted(S) \in SUBSET Files
        BY <1>0
      <4>. QED
        BY <4>1, <4>2, NewJobs
    <3>2. CASE StartRevert
      BY <3>2 DEF StartRevert
    <3>. QED
      BY <1>5, <3>1, <3>2
  <2>2. pc' = "copy" /\ tree' = tree
    BY <1>5 DEF StartApply, StartRevert
  <2>. QED
    BY <2>1, <2>2 DEF Saved, OnDisk, Missed
<1>6. CASE Copy
  <2>1. PICK g \in Files :
          /\ Done(g)
          /\ snaps' = [snaps EXCEPT ![Len(snaps)] = [snaps[Len(snaps)] EXCEPT ![g] = Copied(g)]]
    BY <1>6, FileInHand DEF Copy
  <2>2. /\ pc = "copy" /\ pc' = "copy" /\ job'.todo = job.todo \ {g}
        /\ UNCHANGED <<tree, touched, skipped>>
    BY <1>6, <2>1, DoneTodo DEF Copy, ghosts
  <2>3. snaps # <<>> /\ Len(snaps) \in 1..Len(snaps) /\ snaps[Len(snaps)] \in [Files -> Contents]
    BY <1>0, <2>2 DEF JobOK, FilesOK
  <2>4. Len(snaps') = Len(snaps) /\ snaps'[Len(snaps)] = [snaps[Len(snaps)] EXCEPT ![g] = Copied(g)]
    BY <1>0, <2>1, <2>3 DEF FilesOK
  <2>5. \A f \in OnDisk \ (Missed \cup job'.todo) : snaps'[Len(snaps)][f] = tree[f]
    BY <1>0, <2>2, <2>3, <2>4 DEF Saved, Copied
  <2>. QED
    BY <2>2, <2>4, <2>5 DEF Saved, OnDisk, Missed
<1>7. CASE CopyFails
  <2>1. PICK rest \in SUBSET Files : skipped' = skipped \cup rest /\ Go("copy", job.todo \ rest)
    <3>1. job.todo \cap Unlisted({StepOf[Least(job.todo)]}) \in SUBSET Files
      BY <1>0
    <3>. QED
      BY <1>7, <3>1 DEF CopyFails
  <2>2. /\ pc = "copy" /\ pc' = "copy" /\ job'.todo = job.todo \ rest
        /\ UNCHANGED <<tree, snaps, touched>>
    <3>1. pc' = "copy" /\ job' = [job EXCEPT !.todo = job.todo \ rest]
      BY <2>1 DEF Go
    <3>2. job.todo \ rest \in SUBSET Files
      BY <1>0
    <3>3. job'.todo = job.todo \ rest
      BY <1>0, <3>1, <3>2, JobTypes
    <3>4. pc = "copy" /\ UNCHANGED <<tree, snaps, touched>>
      BY <1>7 DEF CopyFails, files
    <3>. QED
      BY <3>1, <3>3, <3>4
  <2>. QED
    BY <2>1, <2>2 DEF Saved, OnDisk, Missed
<1>8. CASE Snapshotted
  <2>1. PICK l \in {"move", "restore"}, S \in SUBSET Files : Go(l, S)
    <3>. DEFINE A == {f \in Files : upgraded[f] # None}
                B == {f \in Files : snaps[job.from][f] # None}
    <3>1. A \in SUBSET Files /\ B \in SUBSET Files
      OBVIOUS
    <3>2. Go("move", A) \/ Go("restore", B)
      BY <1>8 DEF Snapshotted
    <3>. QED
      BY <3>1, <3>2
  <2>2. /\ pc = "copy" /\ job.todo = {} /\ UNCHANGED <<tree, snaps, touched, skipped>>
        /\ pc' = l /\ job'.todo = S
    BY <1>0, <1>8, <2>1, JobTypes DEF Snapshotted, files, ghosts, Go
  <2>3. snaps # <<>> /\ Len(snaps) \in 1..Len(snaps)
    BY <1>0, <2>2 DEF JobOK, FilesOK
  <2>4. \A f \in OnDisk : f \notin Missed => InSnapshot(f, tree[f])
    BY <2>2, <2>3 DEF Saved, InSnapshot
  <2>. QED
    BY <2>2, <2>4 DEF Saved, InSnapshot, OnDisk, Missed
<1>9. CASE Move \/ Restore
  <2>1. PICK g \in Files : Done(g) /\ \E b : tree' = [tree EXCEPT ![g] = b]
    BY <1>9, FileInHand DEF Move, Restore
  <2>2. /\ pc \in {"move", "restore"} /\ pc' = pc /\ job'.todo = job.todo \ {g}
        /\ UNCHANGED <<snaps, touched, skipped>>
    BY <1>0, <1>9, <2>1, JobTypes DEF Move, Restore, Done, ghosts
  <2>3. \A f \in Files : f # g => tree'[f] = tree[f] /\ (f \in OnDisk' <=> f \in OnDisk)
    BY <1>0, <2>1 DEF FilesOK, OnDisk
  <2>. QED
    BY <1>0, <2>2, <2>3 DEF Saved, InSnapshot, Missed
<1>10. CASE RemoveUpgraded \/ ListDisk \/ ReadRows \/ Folded \/ Rekeyed \/ Record \/ Unfold
  BY <1>3, <1>10 DEF RemoveUpgraded, ListDisk, ReadRows, Folded, Rekeyed, Record, Unfold, Go, Stop
<1>11. CASE Fold \/ Rekey \/ RekeyUnread
  BY <1>3, <1>11 DEF Fold, Rekey, RekeyUnread, Done
<1>16. CASE StatementFails \/ RemoveFails
  <2>1. PICK g \in Files : Done(g)
    BY <1>16, FileInHand DEF StatementFails, RemoveFails
  <2>2. /\ pc' = pc /\ pc # "copy" /\ job'.todo = job.todo \ {g}
        /\ UNCHANGED <<tree, snaps, touched>> /\ skipped \subseteq skipped'
    BY <1>16, <2>1, DoneTodo DEF StatementFails, RemoveFails, files
  <2>. QED
    BY <2>2 DEF Saved, InSnapshot, OnDisk, Missed
<1>12. CASE Abort
  BY <1>3, <1>12 DEF Abort, Stop
<1>13. ASSUME NEW g \in Files, NEW b \in Contents, Edit(g, b) PROVE Saved'
  <2>1. /\ tree' = [tree EXCEPT ![g] = b] /\ touched' = touched \cup {g}
        /\ UNCHANGED <<snaps, pc, job, skipped>>
    BY <1>13 DEF Edit
  <2>2. \A f \in Files : f # g => tree'[f] = tree[f] /\ (f \in OnDisk' <=> f \in OnDisk)
    BY <1>0, <2>1 DEF FilesOK, OnDisk
  <2>3. OnDisk' \subseteq Files
    BY DEF OnDisk
  <2>. QED
    BY <1>0, <2>1, <2>2, <2>3 DEF Saved, InSnapshot, Missed
<1>14. CASE Apply
  BY <1>5, <1>6, <1>8, <1>9, <1>10, <1>11, <1>14, <1>16 DEF Apply
<1>15. CASE Revert
  BY <1>5, <1>7, <1>9, <1>10, <1>15 DEF Revert
<1>. QED
  BY <1>2, <1>4, <1>12, <1>13, <1>14, <1>15, StepCases

\* The steps of an apply or a revert that replace a file of the tree.
LEMMA Replacements ==
  ASSUME Types, [Next]_vars, pc \in {"move", "restore"}, NEW f \in Files, tree'[f] # tree[f]
  PROVE  f \in touched' \/ (f \in job.todo /\ UNCHANGED <<touched, skipped>>)
<1>0. tree \in [Files -> Contents]
  BY TypesParts DEF FilesOK
<1>1. CASE tree' = tree
  BY <1>1
<1>2. CASE Aside
  BY <1>1, <1>2, AsideFrame
<1>3. CASE Plan
  BY <1>1, <1>3 DEF Plan, StartPlan, PlanMigration, PlanFile, PlanReady, files
<1>4. CASE Move \/ Restore
  <2>1. PICK g \in job.todo : \E b : tree' = [tree EXCEPT ![g] = b]
    BY <1>4, FileInHand DEF Move, Restore
  <2>. QED
    BY <1>0, <1>4, <2>1 DEF Move, Restore, ghosts
<1>5. CASE Apply
  BY <1>1, <1>4, <1>5 DEF Apply, StartApply, Copy, Snapshotted, RemoveFails, RemoveUpgraded, ListDisk,
     ReadRows, Fold, Folded, StatementFails, Rekey, RekeyUnread, Rekeyed, Record, files
<1>6. CASE Revert
  BY <1>1, <1>4, <1>6 DEF Revert, StartRevert, CopyFails, Unfold, files
<1>7. CASE Abort
  BY <1>1, <1>7 DEF Abort, files
<1>8. CASE \E g \in Files, b \in Contents : Edit(g, b)
  BY <1>0, <1>8 DEF Edit
<1>. QED
  BY <1>2, <1>3, <1>5, <1>6, <1>7, <1>8, StepCases

\* Whatever apply and revert replace is in a snapshot.
THEOREM ContentStays == Spec => ContentIsKept
<1>. DEFINE Kept == \A f \in Files : pc \in {"move", "restore"} /\ tree'[f] # tree[f] /\ f \in OnDisk =>
                      \/ f \in touched' \/ f \in skipped
                      \/ \E i \in 1..Len(snaps) : snaps[i][f] = tree[f]
<1>1. Init => Types /\ Saved
  <2>1. Init => Saved
    BY DEF Init, Saved
  <2>. QED
    BY <2>1, TypesInit
<1>2. Types /\ Saved /\ [Next]_vars => Types' /\ Saved'
  BY TypesStep, SavedStep
<1>3. Types /\ Saved /\ [Next]_vars => [Kept]_vars
  <2>. SUFFICES ASSUME Types, Saved, [Next]_vars, NEW f \in Files, pc \in {"move", "restore"},
                       tree'[f] # tree[f], f \in OnDisk
                PROVE  \/ f \in touched' \/ f \in skipped
                       \/ \E i \in 1..Len(snaps) : snaps[i][f] = tree[f]
    OBVIOUS
  <2>1. f \in touched' \/ (f \in job.todo /\ UNCHANGED <<touched, skipped>>)
    BY Replacements
  <2>. QED
    BY <2>1 DEF Saved, InSnapshot, Missed
<1>. QED
  BY <1>1, <1>2, <1>3, PTL DEF Spec, ContentIsKept

-----------------------------------------------------------------------------
(* Ledger and tree after an apply *)

\* What the row of file f shows is the file, or the file is noted as removed.
Matches(f) == f \in OnDisk /\ ledger[f].state # "none" => ledger[f].sha = tree[f]
Accounted(f) == f \notin OnDisk /\ ledger[f].state = "applied"
                => f \notin Migrations /\ ledger[f].removed

Agreeing ==
  job.kind = "apply" =>
    /\ pc = "rows" => \A f \in Files \ Missed : f \in job.disk <=> f \in OnDisk
    /\ pc = "fold" => \A f \in Files \ Missed : f \in job.todo \/ Accounted(f)
    /\ pc = "rekey" => \A f \in Files \ Missed : /\ Accounted(f)
                                                 /\ f \in job.todo \/ Matches(f)
    /\ pc = "record" => \A f \in Files \ Missed : Accounted(f) /\ Matches(f)

\* Ups and prunes in between do not undo what an apply has settled.
LEMMA AsideKeeps ==
  ASSUME Types, Aside, NEW f \in Files
  PROVE  /\ Accounted(f) => Accounted(f)'
         /\ Matches(f) => Matches(f)'
<1>0. TypeOK /\ ledger \in [Files -> Rows]
  BY DEF Types, TypeOK
<1>1. tree' = tree /\ (f \in OnDisk' <=> f \in OnDisk)
  BY AsideFrame DEF OnDisk
<1>2. CASE ledger'[f] = ledger[f]
  BY <1>1, <1>2 DEF Accounted, Matches
<1>3. CASE UNCHANGED vars
  BY <1>2, <1>3 DEF vars, tables
<1>4. CASE PruneTree
  <2>1. \/ ledger'[f] = ledger[f]
        \/ f \notin OnDisk /\ ledger'[f] = Orphaned(f)
        \/ f \in OnDisk /\ ledger'[f] = Rehashed(f)
    BY <1>4 DEF PruneTree
  <2>. QED
    BY <1>0, <1>1, <1>2, <2>1, RowFields DEF Accounted, Matches
<1>5. ASSUME NEW g \in Files, UpScans(g)
      PROVE  ledger'[f] = ledger[f] \/ (f \in OnDisk /\ ledger'[f] = Scanned(f))
  BY <1>0, <1>5 DEF UpScans
<1>6. ASSUME NEW g \in Files, UpApplies(g)
      PROVE  \/ ledger'[f] = ledger[f]
             \/ f \in OnDisk /\ ledger[f].state = "pending" /\ ledger'[f] = Committed(f)
  BY <1>0, <1>6 DEF UpApplies
<1>7. CASE f \in OnDisk /\ ledger'[f] = Scanned(f)
  BY <1>0, <1>1, <1>7, RowFields DEF Accounted, Matches
<1>8. CASE f \in OnDisk /\ ledger[f].state = "pending" /\ ledger'[f] = Committed(f)
  BY <1>0, <1>1, <1>8, RowFields DEF Accounted, Matches
<1>. QED
  BY <1>2, <1>3, <1>4, <1>5, <1>6, <1>7, <1>8 DEF Aside

LEMMA AgreeingStep ==
  ASSUME Types, Stamps, Agreeing, [Next]_vars
  PROVE  Agreeing'
<1>0. /\ JobOK /\ Kinds /\ FilesOK /\ TablesOK /\ TypeOK
      /\ job \in Jobs /\ job.todo \in SUBSET Files
  BY TypesParts, JobTypes DEF JobOK, Types
<1>1. CASE \/ pc' \notin {"rows", "fold", "rekey", "record"} \/ job'.kind # "apply"
  BY <1>1 DEF Agreeing
<1>2. CASE Aside
  <2>1. UNCHANGED <<tree, pc, job, touched, skipped>>
    BY <1>2, AsideFrame
  <2>2. \A f \in Files : Accounted(f) => Accounted(f)'
    BY <1>2, AsideKeeps
  <2>3. \A f \in Files : Matches(f) => Matches(f)'
    BY <1>2, AsideKeeps
  <2>4. Missed' = Missed /\ OnDisk' = OnDisk
    BY <2>1 DEF Missed, OnDisk
  <2>. QED
    BY <2>1, <2>2, <2>3, <2>4 DEF Agreeing
<1>3. CASE Plan
  <2>1. CASE StartPlan
    BY <1>1, <2>1 DEF StartPlan, Begin
  <2>2. CASE PlanMigration \/ PlanFile \/ PlanReady
    BY <1>1, <2>2 DEF PlanMigration, PlanFile, PlanReady, Done, Stop
  <2>. QED
    BY <1>3, <2>1, <2>2 DEF Plan
<1>4. CASE StartApply \/ StartRevert
  BY <1>1, <1>4 DEF StartApply, StartRevert
<1>5. CASE Copy \/ Move \/ RemoveFails \/ Restore
  BY <1>1, <1>5 DEF Copy, Move, RemoveFails, Restore, Done
<1>6. CASE Snapshotted \/ CopyFails \/ RemoveUpgraded
  BY <1>1, <1>6 DEF Snapshotted, CopyFails, RemoveUpgraded, Go
<1>7. CASE ListDisk
  <2>1. PICK S \in SUBSET Steps :
          /\ skipped' = Unlisted(S)
          /\ pc' = "rows" /\ job' = [job EXCEPT !.disk = OnDisk \ Unlisted(S)]
    BY <1>7 DEF ListDisk
  <2>2. job'.disk = OnDisk \ Unlisted(S) /\ OnDisk' = OnDisk
    <3>1. OnDisk \ Unlisted(S) \in SUBSET Files /\ tree' = tree
      BY <1>7 DEF OnDisk, ListDisk, files
    <3>. QED
      BY <1>0, <2>1, <3>1, JobTypes DEF OnDisk
  <2>. QED
    BY <2>1, <2>2 DEF Agreeing, Missed
<1>8. CASE ReadRows
  <2>1. PICK lost \in SUBSET Gone(job.disk) :
          skipped' = skipped \cup lost /\ Go("fold", Gone(job.disk) \ lost)
    BY <1>8 DEF ReadRows
  <2>2. Gone(job.disk) \ lost \in SUBSET Files
    BY DEF Gone
  <2>3. /\ pc = "rows" /\ pc' = "fold" /\ job'.todo = Gone(job.disk) \ lost /\ job.kind = "apply"
        /\ UNCHANGED <<tree, ledger, touched>>
    BY <1>0, <1>8, <2>1, <2>2, JobTypes DEF ReadRows, Go, files, tables, Kinds
  <2>4. \A f \in Files \ Missed : f \in Gone(job.disk) \/ Accounted(f)
    BY <2>3 DEF Agreeing, Accounted, Gone
  <2>5. \A f \in Files \ Missed' : f \in Files \ Missed /\ f \notin lost
    BY <2>1, <2>3 DEF Missed
  <2>. QED
    BY <2>3, <2>4, <2>5 DEF Agreeing, Accounted, OnDisk
<1>9. CASE Fold
  <2>1. PICK g \in Files : ledger' = [ledger EXCEPT ![g] = Left(g)] /\ Done(g)
    BY <1>9, FileInHand DEF Fold
  <2>2. /\ pc = "fold" /\ pc' = "fold" /\ job'.todo = job.todo \ {g} /\ job.kind = "apply"
        /\ UNCHANGED <<tree, touched, skipped>>
    BY <1>0, <1>9, <2>1, DoneTodo DEF Fold, files, ghosts, Kinds
  <2>3. Accounted(g)'
    BY <1>0, <2>1, RowFields DEF Accounted, TablesOK
  <2>4. \A f \in Files : f # g => (Accounted(f)' <=> Accounted(f))
    BY <1>0, <2>1, <2>2 DEF Accounted, OnDisk, TablesOK
  <2>5. Missed' = Missed
    BY <2>2 DEF Missed
  <2>. QED
    BY <2>2, <2>3, <2>4, <2>5 DEF Agreeing
<1>10. CASE StatementFails
  <2>0. CASE pc = "restore"
    BY <1>1, <1>10, <2>0 DEF StatementFails, Done
  <2>1. PICK g \in Files : Done(g) /\ skipped' = skipped \cup {g}
    BY <1>10, FileInHand DEF StatementFails
  <2>2. /\ pc' = pc /\ job'.todo = job.todo \ {g}
        /\ job'.kind = job.kind /\ UNCHANGED <<tree, ledger, touched>>
    BY <1>10, <2>1, DoneTodo DEF StatementFails, files, tables
  <2>3. \A f \in Files : (Accounted(f)' <=> Accounted(f)) /\ (Matches(f)' <=> Matches(f))
    BY <2>2 DEF Accounted, Matches, OnDisk
  <2>4. g \in Missed' /\ Missed \subseteq Missed'
    BY <2>1, <2>2 DEF Missed
  <2>5. pc \in {"fold", "rekey", "restore"}
    BY <1>10 DEF StatementFails
  <2>. QED
    BY <2>0, <2>2, <2>3, <2>4, <2>5 DEF Agreeing
<1>20. CASE RekeyUnread
  <2>1. PICK g \in Files : /\ Done(g) /\ skipped' = skipped \cup {g}
                          /\ ledger' = [ledger EXCEPT ![g].sha = None]
    BY <1>20, FileInHand DEF RekeyUnread
  <2>2. /\ pc = "rekey" /\ pc' = "rekey" /\ job'.todo = job.todo \ {g} /\ job'.kind = job.kind
        /\ UNCHANGED <<tree, touched>>
    BY <1>20, <2>1, DoneTodo DEF RekeyUnread, files
  <2>3. \A f \in Files : f # g => (Accounted(f)' <=> Accounted(f)) /\ (Matches(f)' <=> Matches(f))
    BY <1>0, <2>1, <2>2 DEF Accounted, Matches, OnDisk, TablesOK
  <2>4. g \in Missed' /\ Missed \subseteq Missed'
    BY <2>1, <2>2 DEF Missed
  <2>. QED
    BY <2>2, <2>3, <2>4 DEF Agreeing
<1>11. CASE Folded
  <2>1. PICK S \in SUBSET Steps :
          skipped' = skipped \cup Unlisted(S) /\ Go("rekey", OnDisk \ Unlisted(S))
    BY <1>11 DEF Folded
  <2>2. OnDisk \ Unlisted(S) \in SUBSET Files
    BY DEF OnDisk
  <2>3. /\ pc = "fold" /\ pc' = "rekey" /\ job.todo = {} /\ job'.todo = OnDisk \ Unlisted(S)
        /\ job.kind = "apply" /\ UNCHANGED <<tree, ledger, touched>>
    BY <1>0, <1>11, <2>1, <2>2, JobTypes DEF Folded, Go, files, tables, Kinds
  <2>4. \A f \in Files : /\ Accounted(f)' <=> Accounted(f)
                         /\ f \in OnDisk \/ Matches(f)'
    BY <2>3 DEF Accounted, Matches, OnDisk
  <2>5. \A f \in Files \ Missed' : f \in Files \ Missed /\ f \notin Unlisted(S)
    BY <2>1, <2>3 DEF Missed
  <2>. QED
    BY <2>3, <2>4, <2>5 DEF Agreeing
<1>12. CASE Rekey
  <2>1. PICK g \in Files :
          /\ Store(g, IF ledger[g].state = "none" THEN Registered(g) ELSE Rehashed(g))
          /\ Done(g)
    BY <1>12, FileInHand DEF Rekey
  <2>2. /\ pc = "rekey" /\ pc' = "rekey" /\ job'.todo = job.todo \ {g} /\ job.kind = "apply"
        /\ UNCHANGED <<tree, touched, skipped>>
    BY <1>0, <1>12, <2>1, DoneTodo DEF Rekey, files, ghosts, Kinds
  <2>3. ~Accepted(Registered(g)) /\ Accepted(Rehashed(g))
    BY <1>0, RowFields DEF Accepted, Stamps
  <2>4. \/ ledger[g].state = "none" /\ ledger' = ledger
        \/ ledger' = [ledger EXCEPT ![g] = Rehashed(g)]
    BY <2>1, <2>3 DEF Store
  <2>5. Matches(g)' /\ (Accounted(g) => Accounted(g)')
    <3>1. CASE ledger[g].state = "none" /\ ledger' = ledger
      BY <2>2, <3>1 DEF Matches, Accounted, OnDisk
    <3>2. CASE ledger' = [ledger EXCEPT ![g] = Rehashed(g)]
      BY <1>0, <2>2, <3>2, RowFields DEF Matches, Accounted, OnDisk, TablesOK
    <3>. QED
      BY <2>4, <3>1, <3>2
  <2>6. \A f \in Files : f # g => (Accounted(f)' <=> Accounted(f)) /\ (Matches(f)' <=> Matches(f))
    BY <1>0, <2>2, <2>4 DEF Accounted, Matches, OnDisk, TablesOK
  <2>7. Missed' = Missed
    BY <2>2 DEF Missed
  <2>. QED
    BY <2>2, <2>5, <2>6, <2>7 DEF Agreeing
<1>13. CASE Rekeyed
  <2>1. /\ pc = "rekey" /\ pc' = "record" /\ job.todo = {} /\ job.kind = "apply"
        /\ UNCHANGED <<tree, ledger, touched, skipped>>
    BY <1>0, <1>13 DEF Rekeyed, Go, files, tables, ghosts, Kinds
  <2>2. \A f \in Files \ Missed : Accounted(f) /\ Matches(f)
    BY <2>1 DEF Agreeing
  <2>3. \A f \in Files : (Accounted(f)' <=> Accounted(f)) /\ (Matches(f)' <=> Matches(f))
    BY <2>1 DEF Accounted, Matches, OnDisk
  <2>4. Missed' = Missed
    BY <2>1 DEF Missed
  <2>5. \A f \in Files \ Missed' : Accounted(f)' /\ Matches(f)'
    BY <2>2, <2>3, <2>4
  <2>. QED
    BY <2>1, <2>5 DEF Agreeing
<1>14. CASE Record
  BY <1>1, <1>14 DEF Record, Stop
<1>15. CASE Unfold
  <2>1. pc = "restore" /\ job.kind = "revert" /\ Go("record", {})
    BY <1>0, <1>15 DEF Unfold, Kinds
  <2>2. job'.kind = "revert"
    BY <1>0, <2>1, JobTypes DEF Go
  <2>. QED
    BY <1>1, <2>2
<1>16. CASE Abort
  BY <1>1, <1>16 DEF Abort, Stop
<1>17. ASSUME NEW g \in Files, NEW b \in Contents, Edit(g, b) PROVE Agreeing'
  <2>1. /\ tree' = [tree EXCEPT ![g] = b] /\ touched' = touched \cup {g}
        /\ UNCHANGED <<ledger, pc, job, skipped>>
    BY <1>17 DEF Edit, tables
  <2>2. \A f \in Files : f # g => /\ f \in OnDisk' <=> f \in OnDisk
                                  /\ Accounted(f)' <=> Accounted(f)
                                  /\ Matches(f)' <=> Matches(f)
    BY <1>0, <2>1 DEF FilesOK, OnDisk, Accounted, Matches
  <2>3. g \in touched' /\ g \in Missed' /\ Missed \subseteq Missed' /\ touched \subseteq touched'
    BY <2>1 DEF Missed
  <2>. QED
    BY <2>1, <2>2, <2>3 DEF Agreeing
<1>18. CASE Apply
  BY <1>4, <1>5, <1>6, <1>7, <1>8, <1>9, <1>10, <1>11, <1>12, <1>13, <1>14, <1>18, <1>20
     DEF Apply
<1>19. CASE Revert
  BY <1>4, <1>5, <1>6, <1>15, <1>19 DEF Revert
<1>. QED
  BY <1>2, <1>3, <1>16, <1>17, <1>18, <1>19, StepCases

\* An apply that gets to its history row leaves ledger and tree in agreement,
\* whatever interrupted commands, ups and prunes came before or in between.
THEOREM ApplyAgrees == Spec => []AgreesAfterApply
<1>1. Init => Types /\ Stamps /\ Agreeing
  <2>1. Init => Agreeing
    BY DEF Init, Agreeing
  <2>. QED
    BY <2>1, TypesInit, StampsInit
<1>2. Types /\ Stamps /\ Agreeing /\ [Next]_vars => Types' /\ Stamps' /\ Agreeing'
  BY TypesStep, StampsStep, AgreeingStep
<1>3. Agreeing => AgreesAfterApply
  BY DEF Agreeing, AgreesAfterApply, Accounted, Matches, Missed
<1>. QED
  BY <1>1, <1>2, <1>3, PTL DEF Spec

=============================================================================
