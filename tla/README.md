# Verification of samna-migrate (smig)

smig walks a tree of SQL files named by `migrate.yml`, applies them in order to a
PostgreSQL database and keeps a ledger of what it did in the schema
`samna_migrate` of the same database. This directory holds TLA+ models of the
parts of smig whose correctness depends on the order of statements of several
commands, on crashes, or on the history of a database across releases; TLC
configurations that check them on small instances; and TLAPS proofs of the
results that matter most, for every value of the constants.

## The system

| Component | State | Operations |
|---|---|---|
| ledger (`upgrade/sql`, `db`) | `state` (one row), `file` (one row per path), `history` (append only), `down_proposal`, `requirement` | every command below, each statement a transaction of its own |
| scan (`preflight`) | locals of one walk | inserts unseen files, queues drifted replayable ones, refuses tampered migrations |
| apply loop (`migrate/up.go`, `migrate/run.go`, `apply`) | the plan, the file in hand | plan, run body, append history, mark the row |
| schema chain (`upgrade`, `schema`) | `state.schema_version`, `tool_version`, `yaml_sha256` | seven steps, record, acknowledge, `--force` |
| boot check (`migrate/boot_check.go`) | none of its own | refuse, or initialise a fresh database |
| rebase (`migrate/rebase.go`) | `file`, `history` | mirror, undo, prune |
| merge (`merge`) | `.upgraded/`, the tree, `file`, `history` | plan, apply, revert |
| requirements gate (`require`) | `requirement` | scan the tree, look up in the target, record |
| down (`migrate/down.go`, `agent`, `tools`) | `down_proposal`, `history`, scripts beside the migrations | take from the cache or have written, store, print or execute |
| step tree (`steps`, `git`) | files, includes, what was fetched | resolve, filter, order |
| proof (`reconcile`) | a copy of the tree, two throwaway databases, `reconcile.json` | copy, build, compare, build again, record |
| data (`data`, `migrate/dump.go`, `migrate/insert.go`) | tables of the target, files | dump, load |
| destroy (`migrate/destroy.go`, `data/drop.go`) | the live database, the ledger | plan the drops, execute them |
| tests, lint, scanner, command line | none that outlives a command | |

Commands are separate processes. They share the database and the working tree and
nothing else: no advisory lock is taken and no transaction spans two statements of
a command, except where the code opens one (the body of a file; the step of the
chain; `ExecUpgrade`). So the hard behaviours are: two commands between each
other's statements; a tree edited under a running command; a command that dies, or
loses the answer to a commit, between two statements that belong together; a
decision taken on a row that has changed since; a ledger written by earlier
releases. `PROJECT.json` lists them as hazards, each at its line.

What makes each component correct:

- ledger and apply loop: a row that says applied is backed by a run and by the
  history row it points to; migrations are frozen once applied and are not run
  twice without a crash; files run in the order of the tree; drift is replayed;
  work converges when operators keep running `up`.
- chain and gate: the version never claims a step that was not committed; the
  chain can always be finished; a command behind the gate finds the schema, tool
  and `migrate.yml` that were acknowledged.
- rebase: what undo restores is what was deployed before; prune touches only files
  that left the tree. Merge: apply and revert leave tree and ledger agreeing, also
  when a file fails.
- down and agent: what is executed was accepted for its target; nothing that fails
  takes objects away; every session ends.
- step tree: one order, the same for scan, gate and plan, of all files of all
  sources. Requirements gate: it stops exactly what would not run, and records only
  what was there.
- proof: a proof that passes is about the tree at hand, and leaves nothing behind.
  Data: a file is loaded whole or not at all, and brings back what was dumped.
  Destroy: all or nothing, of what the tree creates all, of the rest nothing.

## Modules

### MigrateUp (with LedgerPromise)

`MigrateUp` models `up`, `check` and `run` as processes, one action per statement
on the database: `ListStep`, `HashFile`, `SelectRow`, `WriteRow`, `CheckMissing`
are `preflight.Scan`; `PlanUp` and `PlanRun` are the planning of `up.go` and
`run.go`; `ReadBody`, `RunBody`, `RecordAttempt`, `MarkRow` are `apply.File` with
`db.RunFile`. `Edit` changes the tree, `Abort` ends a command at any statement, and
`RunBody` also covers a rejected body and a commit whose answer is lost.

State: `disk` is the tree, `ledger` and `history` are the tables, `executed` is
what the target really committed (the program does not see it), `scan`, `todo` and
`work` are the locals of a command, `pc` the statement it is at. Files are numbered
in the order `up` applies them and a body stands for its hash.

Coarser than the code: `ListPending` and `FileRel` are one step; the number of the
attempt is read together with the insert of the history row (nothing decides by
it). Left out: positions, sizes, timestamps, dry runs, `run --force` on a file
outside the tree. Rows in the states folded, removed and reverted are not produced
by these commands.

`LedgerPromise` is the abstract specification: each file goes from none to pending,
is performed, is confirmed only after that, and only a replayable one is queued
again. `MigrateUp` implements it under the mapping at the end of the module.

### UpgradeChain

`UpgradeChain` models `upgrade`, `upgrade --force` and the boot check in front of
every other command: `Reset`, `ReadVersion`, `RunStep`, `RecordVersion`,
`Snapshot`, `Finish` are `upgradeCmd`, `Chain` and `Apply`; `Boot`,
`CheckVersion`, `CheckTool`, `HashYaml`, `CheckYaml` are `bootCheck`; `Write` is the
history row of a command behind it. A database starts fresh or as any earlier
release left it (`Init`). Of the seven steps the model keeps the two columns the
code asks for and the list of action types history admits. `Lists(v)` groups
the types by the step that admits them first: apply (also fold, merge_apply,
merge_revert), rebase (also rebase_undo), external. The type `down` is left out
because no command gets as far as writing it. `schema.Ensure` is left out: it
creates the row `state`, which nothing reads before its own `Ensure`.

Worth knowing from the model: `upgrade --force` of a ledger with a rebase,
rebase_undo or external row never gets past step 3, which spells out a list that is
older than the rows (`upgrade_to_3.sql:26`); the database is left at version 2 and
every command is refused, although `test/integration/upgrade_test.go:155` has the
chain run through again from 0. `Upgradable` is about databases that were not
forced.

### Rebase

`Rebase` models `rebase` with file names or without, `--undo`, `--undo-id` and
`--prune`, one action per statement: `HashFile`, `ReadBody`, `ReadRow`, `Register`,
`Note`, `Save`, `Overwrite` are `runRebaseMirror` and `registerRebaseFile`;
`FindSnapshots`, `Restore`, `RecordUndo` are `runRebaseUndo`; `ListTree`, `ReadRows`,
`Fold`, `RecordFold` are `runRebasePrune`, which goes on into the mirror. Several
commands run at the same time, with `up` (two steps per file here, `UpScans` and
`UpApplies`; `MigrateUp` has them statement by statement), `Edit` of the tree,
`Switch` of a step's if condition, and `Abort`, which is also the operator who
refuses the prompt.

State: `disk` and `inactive` are the tree, `ledger` the columns rebase reads or
writes (`state`, `sha256`, `applied_sha256`, `applied_sql`), `history` the rows it
appends. Five variables are not seen by the program: what ran (`ran`), what an
operator named for a mirror (`declared`), every content a row ever showed (`shown`),
which files were ever absent (`gone`), and the state before the last mirror
(`before`).

Coarser than the code: `ListTree` lists all steps at once, `FindSnapshots` finds all
snapshots at once (history only grows, so this only decides which newer one is
missed), and a mirror takes its files in the order of the tree. Left out: positions,
sizes, commits, timestamps, and rows that `merge --apply` marked as removed.

### Merge

`Merge` models the three modes of `merge`, one action per file of the tree and per
row of the ledger. `StartPlan`, `PlanMigration`, `PlanFile`, `PlanReady` are
`merge.Rebase`; `StartApply`, `Copy`, `Snapshotted`, `Move`, `RemoveUpgraded`,
`ListDisk`, `ReadRows`, `Fold`, `Folded`, `Rekey`, `Record` are `merge.Apply`; `StartRevert`,
`Copy`, `CopyFails`, `Restore`, `Unfold`, `Record` are `merge.Revert`. `Abort` ends a command
at any of them. What the code passes over without ending is in the action it happens in or in
one of its own: a step that cannot be listed (`StartApply`, `ListDisk`, `Folded`,
`StartRevert`), a query that fails or ends early (`ReadRows`), a file that cannot be removed
(`RemoveFails`, `RemoveUpgraded`) or read (`RekeyUnread`), a folder a revert cannot copy
(`CopyFails`), a row whose statement fails (`StatementFails`), a history row that is not
written (`Record`). `UpScans`, `UpApplies`, `PruneTree` (steps of `up`, a whole `rebase --prune`)
and `Edit` come in between. `Store` is the constraint `file_applied_consistent`,
which refuses the row `Apply` inserts for a new file.

State: `tree`, `upgraded` and `snaps` are the folders, `ledger` the columns merge
reads or writes (`state`, `sha256`, whether `applied_at` is set, `folded_at`,
`removed_at`), `log` the two merge actions of the history, `job` the locals. Time is
the number of applies recorded so far, which is all that the comparison in `Revert`
can tell. Five variables are not seen by the program: what ran, what was run,
declared or proven with which content, and three sets that name the exceptions of
the properties (files edited under a command, contents no proof covered, files that a
command passed over).

Assumed: one merge command at a time; folders one level deep, with names of their
own, the migrations in a folder named `migrations` (merge writes and looks for them
there). External: what the proof of reconcile says of the candidate tree; a
candidate that fails it ends the command before anything changed, and one that
passes vouches for the files it is built from (`Candidate`): those of steps that are
on (candidate.go:22), and no migration that only `.upgraded` has (candidate.go:67).
`Conditional` are the steps that may be off. Coarser than the code: removing `.upgraded`, writing
one file, and listing the tree are one step each. Left out: the text work (splicing,
versions of new files, the data statements put aside in `.upgraded/dropped`, which
an apply also moves into the tree), a file written in part, and `--tag`.

Worth knowing from the model: what an apply passes over it hardly reports, and later
commands do not find it. A step that cannot be listed when the snapshot is taken is not in
it, and the move overwrites its files all the same, so that their content is lost
(apply.go:62); one that cannot be listed afterwards has its applied migrations folded
although their files are there (apply.go:188), or keeps its old hashes (apply.go:144); a
query that fails or ends early folds nothing, or part (apply.go:118). Files of steps that
are off, and migrations that only `.upgraded` has, are moved and rekeyed though no proof
built them. `ContentIsKept`, `AgreesAfterApply` and `SettledWasProven` name these cases as
what they do not claim.

A base file that an apply adds gets no row, because the INSERT is refused, so the next `up`
runs it. The UPDATE of a revert never reaches what its own apply folded, because those rows
were folded before the history row whose time it compares with; it takes back what a prune
or an interrupted apply folded since, with a row that was folded while its file was queued
coming back as applied (one of the exceptions in `SettledWasProven`). Files an apply added
stay in the tree after a revert.

### Down

`Down` models `down` with the session behind it: `Begin` is `resolveDownTargets`,
`LookUp`, `ReadForward`, `Store`, `WriteScript` are `getDownSQL`, `Ask`, `Look`,
`GetFile`, `Validate`, `Propose`, `CommitDown`, `BadCall`, `EndTurn` are `Loop.Run` and
`Dispatch`, `PrintScript` and `ExecuteDown` the rest of the command. Around it come
`up` (a scan and an apply per path), a mirror (`Declare`), edits, and `Kill`. The
agent is external and answers anything: any number of calls in a turn, in any order,
staging under any path, committing or not.

State: `folder` is the migrations folder, in which every migration has a place for
the script that reverts it; `row` and `order` are the ledger, `schema` what of each
migration the database has, `proposals` the table `down_proposal`, `session` the
locals of a command. A text stands for its hash; a script is what it reverts and the
forward text the agent was shown.

`validate_sql` runs the text it is given in a transaction that is rolled back, and so does
`executeDown` when something after the script fails (`RolledBack`). Neither sees to it that
the script leaves the transaction alone: the text is sent without arguments, so it may hold
several statements and among them a COMMIT. Such a script keeps what it dropped; `escaped`
has the migrations this happened to, and the bound on kills covers it.
`executeDown` is one transaction whose insert has eleven placeholders and ten
arguments, so as the code stands it always fails and no row ever becomes reverted;
the branch that would succeed is there and is never taken.

Left out: a down of a down script that `up` has applied, a script the agent proposes
for one path but that reverts another migration, prompts.

Worth knowing from the model: a script with a COMMIT of its own takes the objects of an
applied migration away and the row stays applied, when it is executed (down.go:208) and
already when the agent has it validated, in a dry run too; tools.go:99 ("inside BEGIN; ...
ROLLBACK;") and down.go:38 ("inside a rollback transaction") say otherwise. `OnlyUpTakesAway`
names this as the one way down has to do so. The script on disk is a migration to `up` (the
run `down_reverts`); an applied script that is written again is a tampered migration
afterwards; the path `commit_down` names is never looked at; the forward text shown
to the agent is the one on disk, which may not be the one whose sha the proposal is
kept under.

### StepTree

`StepTree` models `ResolveFiles` with `Include.source`, `fetchGit` and `fetchURL`: `Walk`,
then for each include `TakeLocal`, `TakeRemote` or `FetchFails`, then `SortList`;
`TreeChanges` and `RemoteMoves` come in between. A command walks several times; what it
fetched is kept in `cache` under the kind, the remote and the target. A file is an `Entry`:
its name, the include it came from, and the path it is known by (`Rel`), below the tree or
below what was fetched. A pinned ref is cloned as a tag and, when that fails for whatever
reason, as a branch (`Offered`). File names are numbers in byte order with a version, or
none when the name does not parse; `CompareVersion` and the comparator are operators.
`SortFiles` is the insertion sort that `sort.Slice` does on at most twelve files, written as
a recursive function; with longer lists it is another sort, which agrees on names that parse
(`FilesAreOrdered`, up to files of one version and one name).

`Listing` holds what several modules need of sorting keys: `Listed`, the members of a
finite set in a strict total order, and `Ascending` for numbers.

Left out: which steps a command takes (`--env`, conditions), the patterns of file
names, unpacking. `groupPending` orders by the same comparison; `MigrateUp` takes its
result as the numbering of files.

Worth knowing from the model: a single file that was listed before ends the walk
there, unsorted and without the later includes (steps.go:475; `phase` is `"cut"`);
the comparator is not transitive when one of three names does not parse, so the
order of such a list depends on that of the includes. A path says nothing of the source: of
two files with one path, from two remotes or from a remote and the tree, the second is dropped
without a word (steps.go:457), which is why `ListsTheSources` says that every path is listed and
not every file; and single files of archives all have the path `.` (steps.go:154), so that
a second one ends the walk. A tag that cannot be cloned for a passing reason is silently
replaced by a branch of that name, where there is one.

### Gate

`Gate` models `require.Gate`: `Collect` is `Scan`, `Verify` one lookup of `Verify`,
`Decide` the verdict, `Record` and `Report` are `Record` and its message. Two commands
run it at the same time on one target; `TargetShifts` and `TreeShifts` change what it
reads, `GateDies` ends it anywhere. A tree is a sequence of statements, each making or
needing one object; what is made by the tree and what is built in is not required.
`Record` takes the requirements in any order (the code sorts them), and the files are
read in one step.

### Destroy

`Destroy` models `destroy` with `PlanDrop`: `Build`, `MakePlan`, `Confirm`, one `DropNext`
per statement, `DropLedger` with the commit. Objects have a kind, a schema, what they
depend on and the extension they belong to; a drop cascades; one that names the wrong
kind or an object of an extension is refused. `Others` creates and drops objects at
any time, except what an open transaction has locked.

Worth knowing from the model: the inventory calls a materialized view a view and a procedure
a function, so a tree that creates one in `public` cannot be destroyed: the drop is refused
and all is undone, every time. What the inventory does not list (`Inventoried`: partitioned
tables, domains and aggregates have no query) survives a destroy that reports success, in
`public`, and goes with its schema elsewhere, and an extension is found only in a declared
schema; `DropsTheTree` names these exceptions. The list of what extensions own leaves out
tables, views, sequences and enums (destroy.go:33), with the same effect. README.md:51
leaves objects in `public` "the tree does not create" untouched; those that depend on one it
creates, a view someone made on a table of the tree, go with it by the CASCADE of its drop.
`DropsTheTree` allows for these dependents and nothing else. README.md:51 also has `destroy`
reset the rows of the ledger to pending; the code drops its whole schema, the history
included, and with an empty plan it ends before either.

### DataFiles

`DataFiles` models `dump` and `insert`: a statement per table and then its file;
per file the read, and a transaction of up to four statements. `DataDies` ends either
one, with a file cut off if it was being written; `OthersWrite` changes rows as far as
keys and locks allow. A row is its key, and a child row needs the parent row of the
same key. What triggers do to rows is left out.

Worth knowing from the model: enabling the triggers at the end of a load also enables
those someone had disabled by hand; the tables of one dump are of different moments,
so a load may fail on a foreign key; a load that is run again after it stopped half
way collides with the rows of the files before.

### Proof

`Proof` models `reconcile.Run`: `ProofBegin`, `CopySource` and `CopyExtra` per file, the
two containers, `BuildFirst`, `CompareLive`, `BuildSecond`, `TakeHash`,
`WriteManifest`. `ProofFails` is any error (the deferred clean-up runs), `ProofKilled` a
kill (it does not). A file makes one object; a text may build differently every time.
A step may be off (`Optional`): its files are neither copied nor built (`Built`), and the
schemas that only such steps list are not compared (`Seen`); which steps are off is taken to
stay so until the command ends. Files of `.upgraded` without a counterpart are assumed to be
listed by a step. An inventory, which is a dozen queries, is read in one step, and the
clean-up succeeds (the code ignores its errors, container.go:102).

Worth knowing from the model: the hash in the manifest is taken after the two builds,
so an edit during the proof gives a manifest of a tree that was not proven
(`PassedIsProved` is about trees nobody touched); nothing reads the manifest back. A proof
that passes covers the files of steps that are on, without the migrations and dropped
statements that only `.upgraded` has (`Covered`); an apply moves all of them into the tree.

## Runs

| Run | Checks | Bounds |
|---|---|---|
| `up_two` | types, backing, locals, history, order, `KeepsPromise` | two commands (`up`, `run`), a base file and a migration, two contents, two plans, one edit, one crash |
| `up_seq` | current sha, earlier files first, once, frozen | one command at a time, a base file and two migrations, two plans, two edits, one crash, one failure or lost answer |
| `up_live` | `Converges`, no deadlock | one command, a base file and a migration, one edit, crash and failure each; the bound on plans is never reached, which the deadlock check shows |
| `up_race` | violation of `DriftIsReplayed` | `up` and `check` on one base file, one edit |
| `upgrade_two` | types, `VersionIsBuilt` | two commands, two tools, two contents of `migrate.yml`, an edit, a crash, `--force`, every released version |
| `upgrade_alone` | `Upgradable`, `WorksAligned`, `GateOpens` | one command at a time, two crashes, an edit, every released version, a tool that is new to the database or not |
| `rebase_two` | types, `SnapshotsWereShown`, `AppliedIsAccounted`, `FoldedWasAbsent` | two commands, a migration and a file of a conditional step, two contents, two steps of up, two edits, one crash |
| `rebase_undo` | violation of `UndoReverses` | one command at a time on one migration, a mirror and its undo |
| `merge_two` | types, `AppliedHasRun`, `RanIsSettled`, `SettledWasProven`, `AgreesAfterApply`, `ContentIsKept` | three merge commands on a migration and a base file (each of a step of its own, that of the base file may be off), two contents, `--force`, two steps of up or prunes, one edit, one crash or error passed over |
| `merge_unseen` | violation of `FoldedHasRun` | two merge commands, one content, no `--force`, no edit, no crash |
| `down_reverts` | violation of `AppliedIsPresent` | one command on one migration, two turns of two calls, four steps of up, no edit, no crash |
| `standalone` | the properties of `Down`, `StepTree`, `Gate`, `Destroy`, `DataFiles` and `Proof`, each module moving alone | down: two migrations with a text each, two commands one after the other, two turns of two calls, four steps of up, two edits or mirrors, one crash or script with a COMMIT. Step tree: five names, one that does not parse, nine include lists, two folders, two git remotes with tags and branches and the same folder in both, two archives, two walks, one change. Gate: two commands, an extension and its language, a built-in language, a role, trees of two statements, one change or crash. Destroy: eight objects of five kinds, one command, one change or failure. Data: two tables, two rows, two commands, three writes or crashes. Proof: two files, one of a step that may be off, one for review, one proof, one change, failure or kill |

`standalone` puts six modules that share nothing into one run: a variable says which one
moves, so the state spaces add up and do not multiply, and each property speaks of one
module.

Why these bounds are enough to be interesting: every race in the apply loop is between two
commands on one file, and order needs a second file of another step; two contents are what
drift needs; a crash and a failure each bring every partial state of one command, and a
second plan is what meets it. For the chain, two commands let one lag behind by any number
of steps, and two crashes meet each other in two successive chains. Two rebase commands on
one file are a mirror that saves what another has overwritten since, and an undo between the
two writes of a mirror; the second file is what a prune mirrors after it folded the first.
Three merge commands are a plan, an apply and a revert, or an apply after one that died; a
migration and a base file are the two ways a file leaves the tree; one error that is passed
over is enough for each property to need its exception. The largest runs are `merge_two`
(15.3 million states, two and a half minutes) and `standalone` (1.4 million, of which down has
half, three minutes with the liveness check). Symmetry is used for
commands, contents and tools, in runs without liveness. Two targets of a down are what lets
the staging of one session reach another, two commands what lets one find the proposal of
the other, and two texts what lets it find one that no longer fits. Two walks see a remote
move between them; two repositories with a folder of one path, and two single files, are where
paths collide. The objects of `Destroy` have one of each case the plan tells apart: a
declared schema, `public`, an extension and what it owns, a kind whose label is another one,
a dependent, an object that is not of the tree. One change is enough for the gate, the proof
and destroy, because each property names what it claims when nothing, or something, changed.

Violations. `up_race`: a `check` that sees an edited base file takes its sha over
into the row that a running `up` marks applied a moment later; the edited body is
never run although README.md:61 says the next `up` applies it. `down_reverts`: a dry
run of `down` prints the script, which is all it should do (down.go:106), but has
written it into the migrations folder too; the next `up` lists it as a migration and
runs it, and the ledger shows both as applied while the objects are gone.
`rebase_undo`: mirroring a pending row makes it applied; the undo brings sha and
body back but not the state, so the row stays applied and its body is never run,
although README.md:59 calls the change reversible. `merge_unseen`: the refusal
"pending migrations on disk" (merge.go:52) counts rows in state pending; a migration
that no `up` has scanned has no row, so plan and apply take it out of the tree
although its body never ran.

Fairness. `MigrateUp`: a started command's statements run on (a process is not
suspended for ever), and an operator starts `up` again and again; edits, crashes and
failures are bounded but not forced. `UpgradeChain`: the same, and an operator who
wants to upgrade gets to do it between other commands (strong fairness of the
start, because the model has one slot and a terminal has no such limit). `Down`: a
command that runs goes on, and a request to the agent is answered or times out
(the HTTP client gives up after five minutes); `SessionEnds` then rests on the count of
turns, 20 in the code.

## Proofs

`MigrateUp_proofs`: `TypeCorrect`, `AppliedBacked`, `LocalsStayTrue`, `PromiseKept`, for any
number of commands and files. `AppliedIsBacked` is not inductive: `MarkRow` trusts the
history id and the outcome the command carries in its locals, so the invariant is `TypeOK /\
LocalsHold /\ AppliedIsBacked`; `LocalsHold` survives the steps of other commands because
rows are never forgotten, history only grows and what ran has run. The same invariant gives
the refinement. `OrderIsKept`: what a command has executed lies before everything left in
its plan, and numbers of plans are unique (`OrderInv`). `HistoryMatches`: runs are counted
against history rows and the commands between the two, which stay finitely many because a
step lets one command at most join them (`CountInv`); each way to lose a row costs an abort
or a failure.

Four theorems there assume one command at a time (`OneCommand`): `ShaStaysCurrent`,
`MigrationStaysFrozen`, `EarlierFilesComeFirst`, `MigrationsRunOnce`. The plan and the file
in hand agree with the rows they were read from, and nothing earlier than the plan is
pending. For the last, what an up has left to run is pending, so that a second run of a
migration finds the first one unsettled, which takes an abort or a failure (`OnceInv`).

`UpgradeChain_proofs`: `ChainTypes` and `VersionStaysBuilt` for any number of
commands with `--force` (a command in the loop counts on from committed steps);
`AlwaysUpgradable` and `AlwaysAligned` for one command at a time without `--force`
(steps are at most one ahead of the version, the last step leaves the full list, no
row is newer than the version).

`Rebase_proofs`: `RebaseTypes`, `SnapshotsAreWhole`, `AppliedStaysAccounted`,
`PruneSparesTheTree`, for any number of commands and files. Each is inductive only
with what the commands hold: a content waiting to be saved was shown by its row
when it was read, and what was shown stays so (`HeldShown`); the files a mirror has
left were declared, or applied when prune read the rows (`HeldAccounted`); an
orphan was absent when the tree was listed (`HeldAbsent`).

`Merge_proofs`: `MergeTypes`, `AppliedRan`, `RanStaysSettled`, `SettledIsProven`,
`ContentStays`, `ApplyAgrees`, for any number of files, commands and crashes. One
lemma (`RowSteps`) says what any step may do to a row; the first three follow from it
row by row, `AppliedRan` with the constraint as part of the invariant (`Stamps`). The
other three say at each statement what the command has got done: what it will leave
of each file is proven or known not to be (`Covered`), what it will replace was copied or
passed over (`Saved`), what it has got through agrees (`Agreeing`). `ContentStays` is an
action property.

`Down_proofs`: `DownTypes`, `RunsOnlyAccepted`, `DownTakesNothing`, for any number of
commands, migrations, turns and calls, whatever the agent answers. The invariant says
of the locals that what is staged under a path reverts it and that calls left and
answered add up to no more than a turn has (`LocalOK`), and that a script in hand is in
the table for its target (`Backed`), which survives because the table only grows. That the
only objects a script keeps from a rollback are those in `escaped` is `RolledBackStep`.
`EveryStepCounts` is what of `SessionEnds` is safety: each step of a running command takes
it to its end or lowers its `Distance` (targets left, statements left for the first, turns
left, calls left of the turn, compared in this order), no other command moves it, and the
order has no endless descent (`LeastDistance`). That a step is then taken is the fairness,
and stays with TLC.

`Listing_proofs`: that `Listed` and `Ascending` give every member of a finite set a place
of its own, in the order (`ListedLists`, `AscendingLists`), for the modules that list
something. The induction theorems of the library take an operator as a parameter and
cannot be used, so inductions here are over sets: a set of naturals has a least element
(`LeastNatural`), and one with 0 and the successor of each of its members has them all
(`AllNaturals`). This is also how what the recursive function of `SortFiles` returns is
proved.

`StepTree_proofs`: `FilesAreOrdered`, `ListedInFull`, `SortedInFull`, for any names,
folders, remotes and include lists. The comparator compares two parsed names by the first
component that differs, where a shorter version has an empty one that comes before every
number; that this is the lexicographic order, and a strict weak order among names that
parse, is proved first, and that the insertion sort keeps the files and puts them in order
follows. Of a walk the invariant says how far it is (`PlaceOK`), that the list has what the
includes behind it gave, each path once and from the first (`ListOK`), that files were taken
from the snapshot that is kept (`CacheOK`), and that what a remote gave is what this
snapshot has (`RemoteOK`); the last two survive because what was fetched is never replaced.

`Standalone_proofs`, of `Gate`: `RecordStaysTrue` (what is left to record was found; what
was inserted is in the hands of its command until it reports or dies) and
`GateDecidesRight`. The second has two parts: about the scan alone, that the requirements of
a tree are, on a target with what is built in, enough for it to run if it makes things
before it uses them (`EnoughToRun`), and each of them needed (`NeededToRun`); and that the
lookups of a command during which nothing changed answer for exactly these.

Of `Proof`: `PassedProves` and `NothingStays`. `PassedIsProved` says something of the last
state of a proof only. The invariant says at each statement what is true on the way there:
how far the candidate is, on the files it covers, the merged tree (`CandidateOK`, in two
passes), that what was seen of untouched trees is so (`SeenOK`), and which verdicts hold of
the candidate (`VerdictOK`). For `NothingStays`: beside what earlier commands abandoned
there is only what the one at work made, and its own number tells the two apart
(`ThingsOK`).

Of `DataFiles`: `LoadsAreWhole` and `DumpComesBack`. A load has as body the file, as rows
the body, and at the commit the triggers on if they were (`LoadOK`). For the second: a file
that is whole has what the dump read, and where there is none nothing was dumped
(`FilesOK`); the list of a load has each file once (`TodoOK`); and while nobody else
writes, the tables it has passed have the rows of their file and the others are empty
(`RestoredOK`), which at the end, with nothing left on the list, is the property.

Of `Destroy`: `DestroysWhole`, which follows step by step, and `DestroyDropsTheTree`. A
cascade is the least set that is closed under dependents: it contains what it starts from
and its dependents (`CascadeCloses`), and each other member depends on a member
(`CascadeHasReasons`). The plan names all it promises, whatever is left out because an
extension owns it (`PlanCovers`). While it runs, what of the tree no drop that is left
names is dropped, was not there, or came late (`DropsOK`), and what of `public` is dropped
is of the tree or depends on something that is (`GoneOK`).

The proofs rest on the named assumptions of the modules (`MigrateUpAssumption`,
`UpgradeChainAssumption`, `RebaseAssumption`, `MergeAssumption`, `DownAssumption`,
`GateAssumption`, `ProofAssumption`, `StepTreeAssumption`, `DataAssumption`,
`DestroyAssumption`), which TLC evaluates in every run of the module.

They ask for finite sets of names, tables and objects, for versions that are sequences of
numbers, and for a tree whose objects have what they depend on in it.

Every invariant and every action property of the passing runs is stated by a theorem.
Only model-checked: `DriftIsReplayed`, `AppliedIsPresent`, `UndoReverses`, `FoldedHasRun`
(violations), and the liveness properties `Converges`, `GateOpens` and `SessionEnds`, which
are outside what the prover does, as is ENABLED. Nothing is proved of the order of a
listing in which some name does not parse; the code promises none.

## Plan

Done: `MigrateUp` with `LedgerPromise`, `UpgradeChain`, `Rebase`, `Merge`, `Down`, `StepTree`,
`Gate`, `Destroy`, `DataFiles`, `Proof`, with their runs, and the proofs above. What is left,
in this order: the safety halves of `Converges` and `GateOpens`, as `EveryStepCounts` is that
of `SessionEnds`; `run --force` on a file outside the tree; `groupPending` and the steps a
command takes in `StepTree`.

## Not modelled, and why

The test suites run in a throwaway database that the apply path of `MigrateUp` has built,
file by file, and change nothing else; what is left is reading TAP. The report of
`reconcile` and its joint plan render a comparison and change nothing. The dump of a schema
is `pg_dump`'s. The SQL scanner is a tokenizer over characters, lint a pure check of names,
the command line is flags and prompts: none keeps state that outlives a command. PostgreSQL,
git, Docker and the language model are external; they appear only as what the code makes of
their answers.
