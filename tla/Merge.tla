---------------------------------- MODULE Merge ----------------------------------
(***************************************************************************)
(* merge: rebasing the tree from the live database into .upgraded, moving  *)
(* .upgraded into the tree (--apply) and restoring a snapshot (--revert).  *)
(*                                                                         *)
(* All three work file by file on the tree and row by row on the ledger,   *)
(* with nothing that makes the whole atomic: a command may die between any *)
(* two files or rows, and much of what fails is ignored: the listing of a  *)
(* step, a query, a removal, a hash, the statements of one row. Edits, ups *)
(* and prunes come in between. One merge command runs at a time.           *)
(*                                                                         *)
(* Nothing merge does runs a body. What the proof of reconcile says of a   *)
(* candidate tree is external: a candidate that fails it ends the command  *)
(* before anything is touched. A step has one folder, one level deep with  *)
(* a name of its own, that of migrations is called migrations, as merge    *)
(* takes for granted. Time is kept as the number of applies recorded.      *)
(***************************************************************************)
EXTENDS Integers, Sequences, FiniteSets

CONSTANTS NFiles,       \* number of files, numbered in the order of the tree
          Migrations,   \* files of steps of type migration; the others are base
          StepOf,       \* StepOf[f]: the step that f belongs to
          Conditional,  \* steps with an `if`, which may be off when a command runs
          Bodies,       \* contents a file may have
          None,         \* no content: a file that is absent, the sha of one
          Empty,        \* in .upgraded, a file of size zero
          MayForce,     \* whether --force may be given
          MaxStarts,    \* bound: merge commands started
          MaxUps,       \* bound: steps of up and prunes
          MaxEdits,     \* bound: edits of the tree
          MaxAborts     \* bound: commands that die, statements that fail

Files == 1..NFiles
Steps == {StepOf[f] : f \in Files}

ASSUME MergeAssumption ==
  /\ NFiles \in Nat /\ Migrations \subseteq 1..NFiles
  /\ \A f, g \in Files : StepOf[f] = StepOf[g] => (f \in Migrations <=> g \in Migrations)
  /\ Conditional \subseteq Steps
  /\ None \notin Bodies /\ Empty \notin Bodies /\ Empty # None
  /\ MayForce \in BOOLEAN
  /\ MaxStarts \in Nat /\ MaxUps \in Nat /\ MaxEdits \in Nat /\ MaxAborts \in Nat

VARIABLES
  tree,       \* tree[f]: content of f in the source tree
  upgraded,   \* upgraded[f]: content of f in .upgraded
  planned,    \* .upgraded exists and has an entry
  snaps,      \* the folders .migrate-*, oldest first
  ledger,     \* samna_migrate.file
  log,        \* the merge rows of samna_migrate.history
  pc,         \* the statement the merge command is about to execute
  job,        \* its locals
  starts, ups, edits, aborts,   \* how much of the bounds is used
  ran,        \* files whose body was run; this and the rest is not seen by the code
  vouched,    \* <<f, content>> that up ran, prune mirrored or an apply had proven
  touched,    \* files edited since the command started or, later, listed the moved tree
  slipped,    \* <<f, content>> that no proof covered and that merge may yet settle
  skipped     \* files passed over since then as a listing, copy or statement failed

files == <<tree, upgraded, planned, snaps>>
tables == <<ledger, log>>
used == <<starts, ups, edits, aborts>>
ghosts == <<ran, vouched, touched, slipped, skipped>>
vars == <<files, tables, pc, job, used, ghosts>>

NoRow == [state |-> "none", sha |-> None, stamped |-> FALSE, epoch |-> 0, removed |-> FALSE]
NoJob == [kind |-> "none", todo |-> {}, disk |-> {}, from |-> 0]
Nothing == [f \in Files |-> None]

Least(S) == CHOOSE x \in S : \A y \in S : x <= y
OnDisk == {f \in Files : tree[f] # None}
Unlisted(S) == {f \in Files : StepOf[f] \in S}   \* when listing the steps S fails

\* What a merge row records, and how many applies the history has.
Applies == Cardinality({i \in 1..Len(log) : log[i] = "merge_apply"})

(* Faulty variants of operators below: each is a plausible slip in the code
   that must break a property. *)
FaultyAccepted(r) == TRUE                               \* the constraint is missing
FaultyMerged(f) == tree[f]                              \* no overlay of .upgraded
FaultyGone(disk) == {f \in Files \ disk : ledger[f].state = "pending"}  \* wrong state
FaultyUnfolded(f) == [ledger[f] EXCEPT !.state = "pending", !.epoch = 0] \* to be replayed
FaultyCopied(f) == upgraded[f]                          \* a copy of the wrong folder

Init ==
  /\ tree \in [Files -> Bodies \cup {None}]
  /\ \E S \in SUBSET OnDisk :
       /\ ledger = [f \in Files |-> IF f \in S
                      THEN [NoRow EXCEPT !.state = "applied", !.sha = tree[f], !.stamped = TRUE]
                      ELSE NoRow]
       /\ ran = S /\ vouched = {<<f, tree[f]>> : f \in S}
  /\ upgraded = Nothing /\ planned = FALSE /\ snaps = <<>> /\ log = <<>>
  /\ pc = "idle" /\ job = NoJob
  /\ starts = 0 /\ ups = 0 /\ edits = 0 /\ aborts = 0
  /\ touched = {} /\ slipped = {} /\ skipped = {}

Stop == pc' = "idle" /\ job' = NoJob
Begin == /\ pc = "idle" /\ starts < MaxStarts
         /\ starts' = starts + 1
         /\ touched' = {}
         /\ UNCHANGED <<ups, edits, ran>>
Go(l, S) == pc' = l /\ job' = [job EXCEPT !.todo = S]
Done(f) == pc' = pc /\ job' = [job EXCEPT !.todo = @ \ {f}]
Counts == aborts < MaxAborts /\ aborts' = aborts + 1
Fails == Counts /\ UNCHANGED <<starts, ups, edits>>
Misses(S) == IF S = {} THEN UNCHANGED aborts ELSE Counts

\* file_applied_consistent: an applied row carries the time it was applied.
Accepted(r) == r.state = "applied" => r.stamped
Store(f, r) == ledger' = IF Accepted(r) THEN [ledger EXCEPT ![f] = r] ELSE ledger

-----------------------------------------------------------------------------
(* Around the command *)

Edit(f, b) ==
  /\ edits < MaxEdits /\ tree[f] # b
  /\ edits' = edits + 1
  /\ tree' = [tree EXCEPT ![f] = b]
  /\ touched' = touched \cup {f}
  /\ slipped' = IF pc = "idle" THEN slipped ELSE slipped \cup {<<f, b>>}
  /\ UNCHANGED <<upgraded, planned, snaps, tables, pc, job, starts, ups, aborts,
                 ran, vouched, skipped>>

\* The scan of an up comes to file f (see Rebase!UpScans), and an up that passed
\* its own checks runs a pending file.
Scanned(f) == [ledger[f] EXCEPT !.sha = tree[f], !.state = IF @ = "folded" THEN @ ELSE "pending"]
UpScans(f) ==
  /\ ups < MaxUps /\ f \in OnDisk /\ ledger[f].sha # tree[f]
  /\ ledger[f].state = "applied" => f \notin Migrations
  /\ ups' = ups + 1
  /\ ledger' = [ledger EXCEPT ![f] = Scanned(f)]
  /\ UNCHANGED <<files, log, pc, job, starts, edits, aborts, ghosts>>

Committed(f) == [ledger[f] EXCEPT !.state = "applied", !.stamped = TRUE]
UpApplies(f) ==
  /\ ups < MaxUps /\ f \in OnDisk /\ ledger[f].state = "pending"
  /\ ups' = ups + 1
  /\ ran' = ran \cup {f}
  /\ vouched' = vouched \cup {<<f, ledger[f].sha>>}
  /\ ledger' = [ledger EXCEPT ![f] = Committed(f)]
  /\ UNCHANGED <<files, log, pc, job, starts, edits, aborts, touched, slipped, skipped>>

\* rebase --prune on the whole tree (Rebase has its statements): rows whose file
\* is gone are folded, applied ones whose file is there take its sha.
Orphaned(f) == [ledger[f] EXCEPT !.state = "folded", !.epoch = Applies]
Rehashed(f) == [ledger[f] EXCEPT !.sha = tree[f]]
PruneTree ==
  /\ ups < MaxUps
  /\ ups' = ups + 1
  /\ LET live == {f \in Files : ledger[f].state \in {"pending", "applied"}
                                /\ ~ledger[f].removed}
         orphans == live \ OnDisk
         rest == {f \in live \cap OnDisk : ledger[f].state = "applied"}
     IN  /\ ledger' = [f \in Files |->
              IF f \in orphans THEN Orphaned(f)
              ELSE IF f \in rest THEN Rehashed(f) ELSE ledger[f]]
         /\ vouched' = vouched \cup {<<f, tree[f]>> : f \in rest}
  /\ UNCHANGED <<files, log, pc, job, starts, edits, aborts, ran, touched, slipped, skipped>>

\* The command dies, or a statement that checks its error fails.
Abort ==
  /\ pc # "idle" /\ Fails /\ Stop
  /\ UNCHANGED <<files, tables, ghosts>>

-----------------------------------------------------------------------------
(* Rebase, the default mode: write .upgraded *)

Pending == {f \in Files : ledger[f].state = "pending"}

\* With --force an existing .upgraded goes first, even when pending rows then
\* end the command.
StartPlan ==
  /\ Begin
  /\ planned => MayForce
  /\ upgraded' = Nothing
  /\ IF Pending # {}
       THEN planned' = FALSE /\ UNCHANGED <<pc, job>>
       ELSE /\ planned' = TRUE
            /\ pc' = "plan"
            /\ job' = [NoJob EXCEPT !.kind = "plan", !.todo = OnDisk \cap Migrations]
  /\ skipped' = {}
  /\ UNCHANGED <<tree, snaps, tables, aborts, vouched, slipped>>

\* Pass 1: every migration of the tree becomes an empty file.
PlanMigration ==
  /\ pc = "plan" /\ job.todo # {}
  /\ LET f == Least(job.todo) IN
       /\ upgraded' = [upgraded EXCEPT ![f] = Empty]
       /\ Done(f)
  /\ UNCHANGED <<tree, planned, snaps, tables, used, ghosts>>

\* Passes 2 to 4: a base file gets live definitions spliced in, which may leave
\* nothing of it, or is new; a migration whose objects no step owns is kept.
PlanFile ==
  /\ pc = "plan" /\ job.todo = {}
  /\ \E f \in Files :
       \/ /\ f \notin Migrations /\ upgraded[f] = None
          /\ \E b \in Bodies \cup {Empty} :
               /\ b = Empty => f \in OnDisk
               /\ upgraded' = [upgraded EXCEPT ![f] = b]
       \/ /\ f \in Migrations \cap OnDisk /\ upgraded[f] = Empty
          /\ upgraded' = [upgraded EXCEPT ![f] = tree[f]]
  /\ UNCHANGED <<tree, planned, snaps, tables, pc, job, used, ghosts>>

PlanReady ==
  /\ pc = "plan" /\ job.todo = {}
  /\ Stop
  /\ UNCHANGED <<files, tables, used, ghosts>>

-----------------------------------------------------------------------------
(* Apply *)

\* The tree an apply leaves behind: .upgraded over the source tree.
Merged(f) == CASE upgraded[f] = None  -> tree[f]
               [] upgraded[f] = Empty -> None
               [] OTHER               -> upgraded[f]

\* The files of it that the proof builds: those of steps that are not off, but no
\* migration that only .upgraded has.
Candidate(off) == {f \in Files : StepOf[f] \notin off /\ (f \in Migrations => f \in OnDisk)}

\* The candidate has passed, or --force vouches for it; a snapshot is begun of
\* the steps that could be listed.
StartApply ==
  /\ Begin
  /\ planned
  /\ \E off \in SUBSET Conditional :
       /\ vouched' = vouched \cup {<<f, Merged(f)>> : f \in Candidate(off)}
       /\ slipped' = slipped \cup {<<f, Merged(f)>> : f \in Files \ Candidate(off)}
  /\ snaps' = Append(snaps, Nothing)
  /\ pc' = "copy"
  /\ \E S \in SUBSET Steps :
       /\ Misses(S)
       /\ skipped' = Unlisted(S)
       /\ job' = [NoJob EXCEPT !.kind = "apply", !.todo = OnDisk \ Unlisted(S)]
  /\ UNCHANGED <<tree, upgraded, planned, tables>>

\* copyDir, for both modes: copy the next file, if it is still there.
Copied(f) == tree[f]
Copy ==
  /\ pc = "copy" /\ job.todo # {}
  /\ LET f == Least(job.todo) IN
       /\ snaps' = [snaps EXCEPT ![Len(snaps)] = [@ EXCEPT ![f] = Copied(f)]]
       /\ Done(f)
  /\ UNCHANGED <<tree, upgraded, planned, tables, used, ghosts>>

\* A revert ignores that copying a folder fails half-way (an apply ends, see Abort).
CopyFails ==
  /\ pc = "copy" /\ job.todo # {} /\ job.kind = "revert" /\ Fails
  /\ LET rest == job.todo \cap Unlisted({StepOf[Least(job.todo)]}) IN
       /\ skipped' = skipped \cup rest
       /\ Go("copy", job.todo \ rest)
  /\ UNCHANGED <<files, tables, ran, vouched, touched, slipped>>

Snapshotted ==
  /\ pc = "copy" /\ job.todo = {}
  /\ IF job.kind = "apply" THEN Go("move", {f \in Files : upgraded[f] # None})
     ELSE Go("restore", {f \in Files : snaps[job.from][f] # None})
  /\ UNCHANGED <<files, tables, used, ghosts>>

\* An empty file removes its counterpart and stays, any other is renamed.
Move ==
  /\ pc = "move" /\ job.todo # {}
  /\ LET f == Least(job.todo)
         b == upgraded[f]
     IN  /\ tree' = [tree EXCEPT ![f] = IF b = Empty THEN None ELSE b]
         /\ upgraded' = IF b = Empty THEN upgraded ELSE [upgraded EXCEPT ![f] = None]
         /\ Done(f)
  /\ UNCHANGED <<planned, snaps, tables, used, ghosts>>

\* A file that cannot be removed stays, though the candidate went without it.
RemoveFails ==
  /\ pc = "move" /\ job.todo # {} /\ Fails
  /\ LET f == Least(job.todo) IN
       /\ upgraded[f] = Empty /\ f \in OnDisk
       /\ slipped' = slipped \cup {<<f, tree[f]>>}
       /\ Done(f)
  /\ UNCHANGED <<files, tables, ran, vouched, touched, skipped>>

\* RemoveAll may fail half-way.
RemoveUpgraded ==
  /\ pc = "move" /\ job.todo = {}
  /\ \/ upgraded' = Nothing /\ planned' = FALSE /\ UNCHANGED used
     \/ /\ Fails /\ UNCHANGED planned
        /\ \E kept \in SUBSET Files :
             upgraded' = [f \in Files |-> IF f \in kept THEN upgraded[f] ELSE None]
  /\ Go("list", {})
  /\ UNCHANGED <<tree, snaps, tables, ghosts>>

\* diskPaths: a step that cannot be listed counts as one without files.
ListDisk ==
  /\ pc = "list"
  /\ \E S \in SUBSET Steps :
       /\ Misses(S)
       /\ skipped' = Unlisted(S)
       /\ pc' = "rows" /\ job' = [job EXCEPT !.disk = OnDisk \ Unlisted(S)]
  /\ touched' = {}
  /\ UNCHANGED <<files, tables, starts, ups, edits, ran, vouched, slipped>>

\* The applied rows whose file it did not find, or, if the query fails or ends
\* early, some of them.
Gone(disk) == {f \in Files \ disk : ledger[f].state = "applied"}
ReadRows ==
  /\ pc = "rows"
  /\ \E lost \in SUBSET Gone(job.disk) :
       /\ Misses(lost)
       /\ skipped' = skipped \cup lost
       /\ Go("fold", Gone(job.disk) \ lost)
  /\ UNCHANGED <<files, tables, starts, ups, edits, ran, vouched, touched, slipped>>

\* By the id of the row: fold a migration, note the removal of a base file.
Left(f) == IF f \in Migrations THEN Orphaned(f) ELSE [ledger[f] EXCEPT !.removed = TRUE]
Fold ==
  /\ pc = "fold" /\ job.todo # {}
  /\ LET f == Least(job.todo) IN
       /\ ledger' = [ledger EXCEPT ![f] = Left(f)]
       /\ Done(f)
  /\ UNCHANGED <<files, log, used, ghosts>>

\* Fold and rekey pass over a statement that fails, restore over a file that
\* cannot be visited.
StatementFails ==
  /\ pc \in {"fold", "rekey", "restore"} /\ job.todo # {} /\ Fails
  /\ LET f == Least(job.todo) IN
       /\ skipped' = skipped \cup {f}
       /\ Done(f)
  /\ UNCHANGED <<files, tables, ran, vouched, touched, slipped>>

Folded ==
  /\ pc = "fold" /\ job.todo = {}
  /\ \E S \in SUBSET Steps :
       /\ Misses(S)
       /\ skipped' = skipped \cup Unlisted(S)
       /\ Go("rekey", OnDisk \ Unlisted(S))
  /\ UNCHANGED <<files, tables, starts, ups, edits, ran, vouched, touched, slipped>>

\* Insert the row of a new file as applied (without the time it was applied),
\* or write the sha of the file over that of its row, whatever its state.
Registered(f) == [NoRow EXCEPT !.state = "applied", !.sha = tree[f]]
Rekey ==
  /\ pc = "rekey" /\ job.todo # {}
  /\ LET f == Least(job.todo) IN
       /\ Store(f, IF ledger[f].state = "none" THEN Registered(f) ELSE Rehashed(f))
       /\ Done(f)
  /\ UNCHANGED <<files, log, used, ghosts>>

\* A file that cannot be read has no sha, which an existing row takes over.
RekeyUnread ==
  /\ pc = "rekey" /\ job.todo # {} /\ Fails
  /\ LET f == Least(job.todo) IN
       /\ ledger[f].state # "none"
       /\ ledger' = [ledger EXCEPT ![f].sha = None]
       /\ skipped' = skipped \cup {f}
       /\ slipped' = slipped \cup {<<f, None>>}
       /\ Done(f)
  /\ UNCHANGED <<files, log, ran, vouched, touched>>

Rekeyed ==
  /\ pc = "rekey" /\ job.todo = {}
  /\ Go("record", {})
  /\ UNCHANGED <<files, tables, used, ghosts>>

\* Both modes end with their history row, if it can be written.
Record ==
  /\ pc = "record"
  /\ \/ /\ log' = Append(log, IF job.kind = "apply" THEN "merge_apply" ELSE "merge_revert")
        /\ UNCHANGED used
     \/ Fails /\ UNCHANGED log
  /\ Stop
  /\ UNCHANGED <<files, ledger, ghosts>>

-----------------------------------------------------------------------------
(* Revert *)

\* The snapshot named, or the newest one.
StartRevert ==
  /\ Begin
  /\ (IF log = <<>> THEN "none" ELSE log[Len(log)]) # "merge_apply" => MayForce
  /\ \E i \in 1..Len(snaps), S \in SUBSET Steps :
       /\ Misses(S)
       /\ skipped' = Unlisted(S)
       /\ job' = [kind |-> "revert", todo |-> OnDisk \ Unlisted(S), disk |-> {}, from |-> i]
  /\ snaps' = Append(snaps, Nothing)
  /\ pc' = "copy"
  /\ UNCHANGED <<tree, upgraded, planned, tables, vouched, slipped>>

\* Copy a file of the snapshot back over the one in the tree.
Restore ==
  /\ pc = "restore" /\ job.todo # {}
  /\ LET f == Least(job.todo) IN
       /\ tree' = [tree EXCEPT ![f] = snaps[job.from][f]]
       /\ Done(f)
  /\ UNCHANGED <<upgraded, planned, snaps, tables, used, ghosts>>

\* Rows folded since the last apply was recorded are applied again: one
\* statement, refused as a whole if one of them was never applied, and an error
\* it ignores.
Unfolded(f) == [ledger[f] EXCEPT !.state = "applied", !.epoch = 0]
Since == {f \in Files : ledger[f].state = "folded" /\ ledger[f].epoch = Applies}
Unfold ==
  /\ pc = "restore" /\ job.todo = {}
  /\ \/ /\ Applies > 0 /\ \A f \in Since : Accepted(Unfolded(f))
        /\ ledger' = [f \in Files |-> IF f \in Since THEN Unfolded(f) ELSE ledger[f]]
        /\ slipped' = slipped \cup {<<f, ledger[f].sha>> : f \in Since}
        /\ UNCHANGED used
     \/ /\ Applies = 0 \/ \E f \in Since : ~Accepted(Unfolded(f))
        /\ UNCHANGED <<ledger, slipped, used>>
     \/ Fails /\ UNCHANGED <<ledger, slipped>>
  /\ Go("record", {})
  /\ UNCHANGED <<files, log, ran, vouched, touched, skipped>>

-----------------------------------------------------------------------------

Plan == StartPlan \/ PlanMigration \/ PlanFile \/ PlanReady
Apply == StartApply \/ Copy \/ Snapshotted \/ Move \/ RemoveFails \/ RemoveUpgraded
         \/ ListDisk \/ ReadRows \/ Fold \/ Folded \/ StatementFails \/ Rekey \/ RekeyUnread
         \/ Rekeyed \/ Record
Revert == StartRevert \/ CopyFails \/ Restore \/ Unfold

Next ==
  \/ Plan \/ Apply \/ Revert \/ Abort \/ PruneTree
  \/ \E f \in Files : UpScans(f) \/ UpApplies(f) \/ \E b \in Bodies \cup {None} : Edit(f, b)

Spec == Init /\ [][Next]_vars

-----------------------------------------------------------------------------
(* Properties *)

Contents == Bodies \cup {None}
Pairs == Files \X Contents
Rows == [state: {"none", "pending", "applied", "folded"}, sha: Contents, stamped: BOOLEAN,
         epoch: Nat, removed: BOOLEAN]
Jobs == [kind: {"none", "plan", "apply", "revert"}, todo: SUBSET Files, disk: SUBSET Files,
         from: Nat]

\* The types of the variables; a command that copies has a snapshot to copy to,
\* a revert one to copy from.
TypeOK ==
  /\ tree \in [Files -> Contents]
  /\ upgraded \in [Files -> Contents \cup {Empty}]
  /\ planned \in BOOLEAN
  /\ snaps \in Seq([Files -> Contents])
  /\ ledger \in [Files -> Rows]
  /\ log \in Seq({"merge_apply", "merge_revert"})
  /\ pc \in {"idle", "plan", "copy", "move", "list", "rows", "fold", "rekey", "record", "restore"}
  /\ job \in Jobs
  /\ starts \in Nat /\ ups \in Nat /\ edits \in Nat /\ aborts \in Nat
  /\ ran \subseteq Files /\ touched \subseteq Files /\ skipped \subseteq Files
  /\ vouched \subseteq Pairs /\ slipped \subseteq Pairs
  /\ pc = "copy" => snaps # <<>>
  /\ job.kind = "revert" => job.from \in 1..Len(snaps)

\* Merge settles nothing that was not run: a row says applied only if up ran its
\* file, also when an apply registers files, a prune folds a pending row and a
\* revert takes folds back.
AppliedHasRun == \A f \in Files : ledger[f].state = "applied" => f \in ran

\* A migration that ran is never queued again: folded by an apply, put back into
\* the tree by a revert or a hand, unfolded, it stays applied or folded.
RanIsSettled ==
  \A f \in Migrations : f \in ran => ledger[f].state \in {"applied", "folded"}

\* The content an applied row shows is one that up ran, that a prune declared, or
\* that the proof before an apply built. What merge settles without any of these is
\* in slipped, and there are five ways into it: an edit made while a merge command
\* ran, which rekey takes for proven; a file of a step that was off when the
\* candidate was proven; a migration that only .upgraded had; a file that could not
\* be removed or read; and a row a prune folded while its file was queued, which a
\* revert takes back as applied.
SettledWasProven ==
  \A f \in Files : ledger[f].state = "applied" => <<f, ledger[f].sha>> \in vouched \cup slipped

\* Whatever came before, an apply that gets to its history row leaves ledger and
\* tree in agreement on every file it did not pass over: no applied migration is
\* missing or tampered with, no base file drifts. Left out are files edited since
\* it listed the tree, and what it passed over silently: a row whose statement or
\* read failed, a file it could not read, every file of a step it could not list
\* (whose applied migrations it folds though they are there).
AgreesAfterApply ==
  pc = "record" /\ job.kind = "apply" =>
    \A f \in Files \ (touched \cup skipped) : ledger[f].state = "applied" =>
      IF f \in OnDisk THEN ledger[f].sha = tree[f]
      ELSE f \notin Migrations /\ ledger[f].removed

\* What an apply or a revert overwrites or removes is in a snapshot, unless it was
\* edited since the command started, or the snapshot silently went without it: its
\* step could not be listed or, under revert, copying its folder failed. Such
\* content is lost.
ContentIsKept ==
  [][\A f \in Files : pc \in {"move", "restore"} /\ tree'[f] # tree[f] /\ f \in OnDisk =>
       \/ f \in touched' \/ f \in skipped
       \/ \E i \in 1..Len(snaps) : snaps[i][f] = tree[f]]_vars

\* An apply takes a migration out of the tree only after it ran: the refusal to
\* plan while migrations of the tree are pending is there for this. (Does not
\* hold: it counts pending rows, and a migration no up has scanned has no row.)
FoldedHasRun ==
  [][\A f \in Migrations : pc = "move" /\ pc' = "move" /\ f \in OnDisk /\ tree'[f] = None =>
       f \in ran]_vars
===============================================================================
