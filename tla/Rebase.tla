--------------------------------- MODULE Rebase ---------------------------------
(***************************************************************************)
(* rebase: mirroring the tree into the ledger as the deployed truth, its   *)
(* undo, and --prune.                                                      *)
(*                                                                         *)
(* Mirroring a file saves the content the row showed in a history row of   *)
(* kind rebase and then overwrites the row; undo writes the newest such    *)
(* content back; prune folds the rows whose file left the tree and mirrors *)
(* the applied rest. Saving and overwriting, restoring and recording,      *)
(* folding and recording are separate transactions, targets and rows are   *)
(* read long before they are written, and prune waits for a confirmation   *)
(* in between. Other rebase commands, up and edits come between any two    *)
(* statements. Nothing rebase does runs a body on the target.              *)
(*                                                                         *)
(* up appears as two steps per file, its scan and its apply (MigrateUp has *)
(* them statement by statement). A body stands for its sha256, but the sha *)
(* and the body of a file are read one after the other and may differ.     *)
(***************************************************************************)
EXTENDS Integers, Sequences, FiniteSets

CONSTANTS Procs,        \* the rebase commands that may be active at the same time
          NFiles,       \* number of files, numbered in the order of the tree
          Migrations,   \* files of steps of type migration
          Conditional,  \* files of steps with an if condition
          Scopes,       \* sets of files a --prune may be scoped to
          Bodies,       \* contents a file may have
          None,         \* no content: a file that is absent, a NULL column
          MaxStarts,    \* bound: rebase commands started
          MaxUps,       \* bound: steps of up
          MaxEdits,     \* bound: edits of the tree
          MaxAborts     \* bound: commands that die

Files == 1..NFiles

ASSUME RebaseAssumption ==
  /\ NFiles \in Nat
  /\ Migrations \subseteq 1..NFiles /\ Conditional \subseteq 1..NFiles
  /\ Scopes \subseteq SUBSET (1..NFiles)
  /\ None \notin Bodies
  /\ MaxStarts \in Nat /\ MaxUps \in Nat /\ MaxEdits \in Nat /\ MaxAborts \in Nat

VARIABLES
  disk,       \* disk[f]: content of f in the working tree
  inactive,   \* files of steps whose if condition is false now
  ledger,     \* samna_migrate.file
  history,    \* samna_migrate.history
  pc,         \* pc[p]: the statement command p is about to execute
  job,        \* job[p]: its locals
  starts, ups, edits, aborts,   \* how much of the bounds is used
  ran,        \* files whose body was run; this and the rest is not seen by the code
  declared,   \* files an operator named, or took with the whole tree, for a mirror
  shown,      \* every content the row of a file ever showed
  gone,       \* files that were absent from the tree at some time
  before      \* before[f]: state of the row before the last mirror of f

tree == <<disk, inactive>>
tables == <<ledger, history>>
ghosts == <<ran, declared, shown, gone, before>>
used == <<starts, ups, edits, aborts>>
vars == <<tree, tables, pc, job, used, ghosts>>

States == {"none", "pending", "applied", "folded"}
NoRow == [state |-> "none", sha |-> None, asha |-> None, asql |-> None]
NoContent == [sha |-> None, sql |-> None]
NoJob == [files |-> {}, orphans |-> {}, snaps |-> {}, seen |-> {}, inactive |-> {},
          file |-> 0, snap |-> 0, sha |-> None, sql |-> None, prior |-> NoContent]

(* Faulty variants of operators below: each is a plausible slip in the code
   that must break a property. *)
FaultyPrior(r) == [sha |-> r.sha, sql |-> r.asql]       \* the sha the scan wrote
FaultyOrphaned(f, seen, off) == f \notin seen           \* inactive steps forgotten
FaultyToMirror(S) == S                                  \* pending ones as well
FaultyEntry(f, kind, c) == [file |-> 0, kind |-> kind, sha |-> c.sha, sql |-> c.sql]

Least(S) == CHOOSE x \in S : \A y \in S : x <= y
OnDisk == {f \in Files : disk[f] # None}
Tree == OnDisk \ inactive

\* The content a row shows, applied_sha256 before sha256, and what a mirror saves
\* of it.
Content(r) == [sha |-> IF r.asha # None THEN r.asha ELSE r.sha, sql |-> r.asql]
Prior(r) == Content(r)

Init ==
  /\ disk \in [Files -> Bodies \cup {None}]
  /\ inactive \in SUBSET Conditional
  /\ ledger = [f \in Files |-> NoRow]
  /\ history = <<>>
  /\ pc = [p \in Procs |-> "idle"]
  /\ job = [p \in Procs |-> NoJob]
  /\ starts = 0 /\ ups = 0 /\ edits = 0 /\ aborts = 0
  /\ ran = {} /\ declared = {} /\ shown = {}
  /\ gone = Files \ OnDisk
  /\ before = [f \in Files |-> "none"]

Goto(p, l) == pc' = [pc EXCEPT ![p] = l]
Stop(p) == Goto(p, "idle") /\ job' = [job EXCEPT ![p] = NoJob]

\* Write the row of f, and a history row.
Put(f, r) == /\ ledger' = [ledger EXCEPT ![f] = r]
             /\ shown' = shown \cup {<<f, Content(r)>>}
Entry(f, kind, c) == [file |-> f, kind |-> kind, sha |-> c.sha, sql |-> c.sql]
Append1(f, kind, c) == history' = Append(history, Entry(f, kind, c))

-----------------------------------------------------------------------------
(* Around the command *)

\* An operator starts a mirror of the files named (or of all), an undo of
\* them, an undo of one snapshot by its id, or a prune.
Start(p, l, S, snaps) ==
  /\ pc[p] = "idle" /\ starts < MaxStarts
  /\ starts' = starts + 1
  /\ Goto(p, l)
  /\ job' = [job EXCEPT ![p] = [NoJob EXCEPT !.files = S, !.snaps = snaps]]
  /\ UNCHANGED <<tree, tables, ups, edits, aborts, ran, shown, gone, before>>

StartMirror(p) == \E S \in (SUBSET Files) \ {{}} :
                    Start(p, "hash", S, {}) /\ declared' = declared \cup S
StartUndo(p) == \E S \in (SUBSET Files) \ {{}} :
                    Start(p, "find", S, {}) /\ UNCHANGED declared
StartUndoId(p) == \E i \in 1..Len(history) :
                    /\ history[i].kind = "rebase"
                    /\ Start(p, "restore", {}, {i}) /\ UNCHANGED declared
StartPrune(p) == \E S \in Scopes :
                    Start(p, "tree", S, {}) /\ UNCHANGED declared

\* The command dies, a statement fails, or the operator refuses the prompt.
Abort(p) ==
  /\ pc[p] # "idle" /\ aborts < MaxAborts
  /\ Stop(p)
  /\ aborts' = aborts + 1
  /\ UNCHANGED <<tree, tables, starts, ups, edits, ghosts>>

Edit(f, b) ==
  /\ edits < MaxEdits /\ disk[f] # b
  /\ edits' = edits + 1
  /\ disk' = [disk EXCEPT ![f] = b]
  /\ gone' = IF b = None THEN gone \cup {f} ELSE gone
  /\ UNCHANGED <<inactive, tables, pc, job, starts, ups, aborts, ran, declared, shown, before>>

\* The if condition of a step is a shell command: it may turn out differently.
Switch(f) ==
  /\ edits < MaxEdits /\ f \in Conditional
  /\ edits' = edits + 1
  /\ inactive' = IF f \in inactive THEN inactive \ {f} ELSE inactive \cup {f}
  /\ UNCHANGED <<disk, tables, pc, job, starts, ups, aborts, ghosts>>

\* The scan of an up comes to file f: a new file gets a row, a drifted applied
\* one is queued again unless it is a migration, any other takes the new sha.
UpScans(f) ==
  /\ ups < MaxUps /\ f \in Tree /\ ledger[f].sha # disk[f]
  /\ ledger[f].state = "applied" => f \notin Migrations
  /\ ups' = ups + 1
  /\ Put(f, [ledger[f] EXCEPT !.sha = disk[f],
                              !.state = IF @ = "folded" THEN @ ELSE "pending"])
  /\ UNCHANGED <<tree, history, pc, job, starts, edits, aborts, ran, declared, gone, before>>

\* An up runs a pending file and records it.
UpApplies(f) ==
  /\ ups < MaxUps /\ f \in Tree /\ ledger[f].state = "pending"
  /\ ups' = ups + 1
  /\ ran' = ran \cup {f}
  /\ LET c == [sha |-> ledger[f].sha, sql |-> disk[f]] IN
       /\ Append1(f, "apply", c)
       /\ Put(f, [ledger[f] EXCEPT !.state = "applied", !.asha = c.sha, !.asql = c.sql])
  /\ UNCHANGED <<tree, pc, job, starts, edits, aborts, declared, gone, before>>

-----------------------------------------------------------------------------
(* runRebaseMirror *)

\* Done with file f: on to the next.
NextFile(p, f) == /\ Goto(p, "hash")
                  /\ job' = [job EXCEPT ![p] = [NoJob EXCEPT !.files = job[p].files \ {f}]]

\* Hash the next target, then read it; one that is not there ends the command.
HashFile(p) ==
  /\ pc[p] = "hash"
  /\ LET f == Least(job[p].files) IN
       IF job[p].files = {} \/ disk[f] = None THEN Stop(p)
       ELSE /\ job' = [job EXCEPT ![p] = [@ EXCEPT !.file = f, !.sha = disk[f]]]
            /\ Goto(p, "body")
  /\ UNCHANGED <<tree, tables, used, ghosts>>

ReadBody(p) ==
  /\ pc[p] = "body"
  /\ LET f == job[p].file IN
       IF disk[f] = None THEN Stop(p)
       ELSE /\ job' = [job EXCEPT ![p] = [@ EXCEPT !.sql = disk[f]]]
            /\ Goto(p, "row")
  /\ UNCHANGED <<tree, tables, used, ghosts>>

\* A file without a row is registered, one that already shows the sha is left
\* alone, any other is saved and overwritten.
ReadRow(p) ==
  /\ pc[p] = "row"
  /\ LET f == job[p].file
         r == ledger[f]
     IN  \/ r.state = "none" /\ Goto(p, "register") /\ UNCHANGED job
         \/ r.state = "applied" /\ Prior(r).sha = job[p].sha /\ NextFile(p, f)
         \/ /\ r.state # "none" /\ ~(r.state = "applied" /\ Prior(r).sha = job[p].sha)
            /\ job' = [job EXCEPT ![p] = [@ EXCEPT !.prior = Prior(r)]]
            /\ Goto(p, "save")
  /\ UNCHANGED <<tree, tables, used, ghosts>>

\* registerRebaseFile: the insert, which needs the file in an active step and
\* no row by now, and its history row.
Register(p) ==
  /\ pc[p] = "register"
  /\ LET f == job[p].file IN
       IF f \in Tree /\ ledger[f].state = "none"
         THEN /\ Put(f, [state |-> "applied", sha |-> job[p].sha, asha |-> job[p].sha,
                         asql |-> job[p].sql])
              /\ before' = [before EXCEPT ![f] = "none"]
              /\ Goto(p, "note") /\ UNCHANGED job
         ELSE Stop(p) /\ UNCHANGED <<ledger, shown, before>>
  /\ UNCHANGED <<tree, history, used, ran, declared, gone>>

Note(p) ==
  /\ pc[p] = "note"
  /\ Append1(job[p].file, "rebase", [sha |-> job[p].sha, sql |-> job[p].sql])
  /\ NextFile(p, job[p].file)
  /\ UNCHANGED <<tree, ledger, used, ghosts>>

Save(p) ==
  /\ pc[p] = "save"
  /\ Append1(job[p].file, "rebase", job[p].prior)
  /\ Goto(p, "write")
  /\ UNCHANGED <<tree, ledger, job, used, ghosts>>

\* Overwrite the row by its id, whatever it shows by now.
Overwrite(p) ==
  /\ pc[p] = "write"
  /\ LET f == job[p].file IN
       /\ Put(f, [state |-> "applied", sha |-> job[p].sha, asha |-> job[p].sha,
                  asql |-> job[p].sql])
       /\ before' = [before EXCEPT ![f] = ledger[f].state]
       /\ NextFile(p, f)
  /\ UNCHANGED <<tree, history, used, ran, declared, gone>>

-----------------------------------------------------------------------------
(* runRebaseUndo *)

Snapshots(f) == {i \in 1..Len(history) : history[i].file = f /\ history[i].kind = "rebase"}
Newest(f) == CHOOSE i \in Snapshots(f) : \A j \in Snapshots(f) : j <= i

\* The newest snapshot of every target that has one.
FindSnapshots(p) ==
  /\ pc[p] = "find"
  /\ LET targets == {f \in job[p].files : Snapshots(f) # {}} IN
       job' = [job EXCEPT ![p] = [NoJob EXCEPT !.snaps = {Newest(f) : f \in targets}]]
  /\ Goto(p, "restore")
  /\ UNCHANGED <<tree, tables, used, ghosts>>

\* Content and sha come back, by the id of the row; its state is left as it is.
Restore(p) ==
  /\ pc[p] = "restore"
  /\ IF job[p].snaps = {}
       THEN Stop(p) /\ UNCHANGED <<ledger, shown>>
       ELSE \E i \in job[p].snaps :
              /\ LET h == history[i] IN
                   Put(h.file, [ledger[h.file] EXCEPT !.sha = h.sha, !.asha = h.sha,
                                                      !.asql = h.sql])
              /\ job' = [job EXCEPT ![p] = [@ EXCEPT !.snap = i]]
              /\ Goto(p, "undone")
  /\ UNCHANGED <<tree, history, used, ran, declared, gone, before>>

RecordUndo(p) ==
  /\ pc[p] = "undone"
  /\ LET h == history[job[p].snap] IN
       Append1(h.file, "rebase_undo", [sha |-> h.sha, sql |-> h.sql])
  /\ job' = [job EXCEPT ![p] = [NoJob EXCEPT !.snaps = job[p].snaps \ {job[p].snap}]]
  /\ Goto(p, "restore")
  /\ UNCHANGED <<tree, ledger, used, ghosts>>

-----------------------------------------------------------------------------
(* runRebasePrune *)

\* List the files of the active steps, and note the inactive ones.
ListTree(p) ==
  /\ pc[p] = "tree"
  /\ job' = [job EXCEPT ![p] = [@ EXCEPT !.seen = Tree, !.inactive = inactive]]
  /\ Goto(p, "rows")
  /\ UNCHANGED <<tree, tables, used, ghosts>>

\* A row whose file was not in the tree is an orphan, unless its step was
\* inactive. Of the files in the tree those with an applied row are mirrored.
Orphaned(f, seen, off) == f \notin seen /\ f \notin off
ToMirror(S) == {f \in S : ledger[f].state = "applied"}

ReadRows(p) ==
  /\ pc[p] = "rows"
  /\ LET scope == job[p].files
         seen == job[p].seen
         orphans == {f \in scope : /\ ledger[f].state \in {"applied", "pending"}
                                   /\ Orphaned(f, seen, job[p].inactive)}
     IN  /\ job' = [job EXCEPT ![p] = [NoJob EXCEPT !.files = ToMirror(scope \cap seen),
                                                    !.orphans = orphans]]
         /\ Goto(p, IF orphans = {} THEN "hash" ELSE "fold")
  /\ UNCHANGED <<tree, tables, used, ghosts>>

\* Fold an orphan by its id, after the operator confirmed the list.
Fold(p) ==
  /\ pc[p] = "fold"
  /\ LET f == Least(job[p].orphans) IN
       Put(f, [ledger[f] EXCEPT !.state = "folded"])
  /\ Goto(p, "folded")
  /\ UNCHANGED <<tree, history, job, used, ran, declared, gone, before>>

\* (Nothing reads the content the history row of a fold carries.)
RecordFold(p) ==
  /\ pc[p] = "folded"
  /\ LET f == Least(job[p].orphans)
         rest == job[p].orphans \ {f}
     IN  /\ Append1(f, "fold", NoContent)
         /\ job' = [job EXCEPT ![p].orphans = rest]
         /\ Goto(p, IF rest = {} THEN "hash" ELSE "fold")
  /\ UNCHANGED <<tree, ledger, used, ghosts>>

-----------------------------------------------------------------------------

Begin(p) == StartMirror(p) \/ StartUndo(p) \/ StartUndoId(p) \/ StartPrune(p)
Mirror(p) == HashFile(p) \/ ReadBody(p) \/ ReadRow(p) \/ Register(p) \/ Note(p)
             \/ Save(p) \/ Overwrite(p)
Undo(p) == FindSnapshots(p) \/ Restore(p) \/ RecordUndo(p)
Prune(p) == ListTree(p) \/ ReadRows(p) \/ Fold(p) \/ RecordFold(p)

Next ==
  \/ \E p \in Procs : Begin(p) \/ Mirror(p) \/ Undo(p) \/ Prune(p) \/ Abort(p)
  \/ \E f \in Files : Switch(f) \/ UpScans(f) \/ UpApplies(f) \/ \E b \in Bodies \cup {None} : Edit(f, b)

Spec == Init /\ [][Next]_vars

-----------------------------------------------------------------------------
(* Properties *)

Pcs == {"idle", "hash", "body", "row", "register", "note", "save", "write",
        "find", "restore", "undone", "tree", "rows", "fold", "folded"}
Contents == Bodies \cup {None}
ContentPairs == [sha: Contents, sql: Contents]
Rows == [state: States, sha: Contents, asha: Contents, asql: Contents]
Entries == [file: Files, kind: {"apply", "rebase", "rebase_undo", "fold"},
            sha: Contents, sql: Contents]
Jobs == [files: SUBSET Files, orphans: SUBSET Files, snaps: SUBSET Nat, seen: SUBSET Files,
         inactive: SUBSET Files, file: Files \cup {0}, snap: Nat, sha: Contents, sql: Contents, prior: ContentPairs]

\* A command that is past the listing has a file, a snapshot or an orphan in hand.
InHand(p) ==
  /\ pc[p] \in {"body", "row", "register", "note", "save", "write"} => job[p].file \in Files
  /\ pc[p] \in {"fold", "folded"} => job[p].orphans # {}
  /\ job[p].snaps \subseteq 1..Len(history)
  /\ pc[p] = "undone" => job[p].snap \in 1..Len(history)

\* The types of the variables and of what the commands have in hand.
TypeOK ==
  /\ disk \in [Files -> Contents]
  /\ inactive \subseteq Files
  /\ ledger \in [Files -> Rows]
  /\ history \in Seq(Entries)
  /\ pc \in [Procs -> Pcs]
  /\ job \in [Procs -> Jobs]
  /\ ran \subseteq Files /\ declared \subseteq Files /\ gone \subseteq Files
  /\ shown \subseteq Files \X ContentPairs
  /\ before \in [Files -> States]
  /\ starts \in Nat /\ ups \in Nat /\ edits \in Nat /\ aborts \in Nat
  /\ \A p \in Procs : InHand(p)

\* Whatever commands come between, every snapshot that undo may write back is a
\* content the row of that file did show at some time: sha and body together,
\* never half of one and half of another.
SnapshotsWereShown ==
  \A i \in 1..Len(history) : history[i].kind = "rebase" =>
    <<history[i].file, [sha |-> history[i].sha, sql |-> history[i].sql]>> \in shown

\* A row says applied only when its body was run or an operator declared the
\* file deployed: prune, which mirrors what it was not asked to mirror by name,
\* leaves pending files and files without a row for up.
AppliedIsAccounted ==
  \A f \in Files : ledger[f].state = "applied" => f \in ran \cup declared

\* Prune folds only what left the tree, however long the prompt waits and
\* whichever steps are switched off: a file that was always there stays.
FoldedWasAbsent ==
  \A f \in Files : ledger[f].state = "folded" => f \in gone

\* Undo of the newest snapshot takes the last mirror of a row back: the row is
\* again in the state it had before that mirror.
UndoReverses ==
  [][\A p \in Procs : pc[p] = "restore" /\ pc'[p] = "undone" =>
       LET f == history[job'[p].snap].file IN
         before[f] # "none" /\ job'[p].snap = Newest(f) => ledger'[f].state = before[f]]_vars
===============================================================================
