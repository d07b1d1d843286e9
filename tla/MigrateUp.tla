------------------------------ MODULE MigrateUp ------------------------------
(***************************************************************************)
(* The commands that move files through the ledger: up, check and run.     *)
(*                                                                         *)
(* Each command is a process of its own against one database. It scans the *)
(* step tree into samna_migrate.file (preflight.Scan), plans a list of     *)
(* files (apply.ListPending and groupPending, or apply.ListFiles and       *)
(* selectTargets) and, file by file, reads the body, runs it in a          *)
(* transaction, appends a history row and updates the ledger row           *)
(* (apply.File). Every one of these is a separate statement on the         *)
(* database: no lock is held across them, commands interleave freely, the  *)
(* tree may be edited at any moment and a command may die at any moment.   *)
(*                                                                         *)
(* Files are numbered in the order up applies them: by step, then by       *)
(* version. A body stands for its sha256. The ledger's position column,    *)
(* sizes, timestamps and the wording of reports are left out.              *)
(***************************************************************************)
EXTENDS Integers, Sequences, FiniteSets

CONSTANTS Procs,        \* the commands that may be active at the same time
          Commands,     \* what an operator may start: subset of {"up","check","run"}
          NFiles,       \* number of files of the tree
          StepOf,       \* StepOf[f]: number of the step that includes f
          NSteps,       \* number of steps
          Migrations,   \* files of steps of type migration; others are replayed
          Bodies,       \* contents a file may have
          None,         \* no content: a file that is absent, a NULL column
          MaxRuns,      \* bound: commands that plan files, see Start
          MaxEdits,     \* bound: edits of the tree
          MaxAborts,    \* bound: commands that die
          MaxFails      \* bound: bodies the database rejects

Files == 1..NFiles
Steps == 1..NSteps

ASSUME MigrateUpAssumption ==
  /\ NFiles \in Nat /\ NSteps \in Nat
  /\ StepOf \in [1..NFiles -> 1..NSteps]
  /\ \A f, g \in 1..NFiles : f <= g => StepOf[f] <= StepOf[g]
  /\ Migrations \subseteq 1..NFiles
  /\ Commands \subseteq {"up", "check", "run"}
  /\ None \notin Bodies
  /\ MaxRuns \in Nat /\ MaxEdits \in Nat /\ MaxAborts \in Nat /\ MaxFails \in Nat

VARIABLES
  disk,       \* disk[f]: content of f in the working tree, None when it is not there
  ledger,     \* samna_migrate.file, one row per file path
  history,    \* samna_migrate.history; a row's id is its place
  executed,   \* bodies the target database committed, in order (not seen by the code)
  pc,         \* pc[p]: the statement command p is about to execute
  scan,       \* scan[p]: locals of preflight.Scan
  todo,       \* todo[p]: planned files still to apply, each with the sha of its row
  work,       \* work[p]: locals of apply.File
  runs,       \* commands that have planned files; numbers them
  edits, aborts, fails    \* how much of the bounds is used

vars == <<disk, ledger, history, executed, pc, scan, todo, work,
          runs, edits, aborts, fails>>
tree  == <<disk, edits>>
used  == <<runs, aborts, fails>>

States == {"none", "pending", "applied"}    \* "none": the path has no row
NoRow == [state |-> "none", sha |-> None, appliedSha |-> None, appliedSql |-> None,
          appliedHist |-> 0, attempts |-> 0]
NoScan == [cmd |-> "none", step |-> 0, left |-> {}, seen |-> {}, file |-> 0,
           sha |-> None, dbState |-> "none"]
NoWork == [run |-> 0, file |-> 0, sha |-> None, sql |-> None, ok |-> FALSE,
           hist |-> 0, attempt |-> 0]

(* Faulty variants of operators below. Each is what a plausible slip in the  *)
(* code would do; replacing the operator named by it must break a property.  *)
FaultyUnchanged(r, sha) == r.state = "applied"            \* drift goes unnoticed
FaultyTampered(f, r, sha) == FALSE                        \* a migration is replayed
FaultyRequeued(r, sha) == [r EXCEPT !.sha = sha]          \* state is left applied
FaultyUpTo(target) == {target}                            \* the target alone
FaultyNextItem(p) == CHOOSE t \in todo[p] : \A u \in todo[p] : t.file >= u.file
FaultyNextAttempt(r) == r.attempts - 1
FaultyNewHistoryId == Len(history)                        \* one row too early
FaultyHistoryId(w) == Len(history)                        \* the newest row of all
FaultySucceeded(r, w) == [r EXCEPT !.appliedSha = w.sha, !.appliedSql = w.sql,
                                   !.appliedHist = w.hist]  \* state is forgotten
FaultyOutcome(p, ok) == /\ work' = [work EXCEPT ![p].ok = TRUE]   \* error swallowed
                        /\ pc' = [pc EXCEPT ![p] = "record"]

Least(S) == CHOOSE x \in S : \A y \in S : x <= y
OnDisk == {f \in Files : disk[f] # None}

Init ==
  /\ disk \in [Files -> Bodies \cup {None}]
  /\ ledger = [f \in Files |-> NoRow]
  /\ history = <<>> /\ executed = <<>>
  /\ pc = [p \in Procs |-> "idle"]
  /\ scan = [p \in Procs |-> NoScan]
  /\ todo = [p \in Procs |-> {}]
  /\ work = [p \in Procs |-> NoWork]
  /\ runs = 0 /\ edits = 0 /\ aborts = 0 /\ fails = 0

-----------------------------------------------------------------------------
(* Starting and stopping *)

\* Command p forgets everything it held.
Stop(p) == /\ pc'   = [pc EXCEPT ![p] = "idle"]
           /\ scan' = [scan EXCEPT ![p] = NoScan]
           /\ todo' = [todo EXCEPT ![p] = {}]
           /\ work' = [work EXCEPT ![p] = NoWork]

\* An operator starts a command whose boot check passes.
Start(p, c) ==
  /\ pc[p] = "idle" /\ runs < MaxRuns
  /\ pc' = [pc EXCEPT ![p] = "list"]
  /\ scan' = [scan EXCEPT ![p] = [NoScan EXCEPT !.cmd = c, !.step = 1]]
  /\ UNCHANGED <<tree, ledger, history, executed, todo, work, used>>

\* The command dies, or a statement of it returns an error it passes up: a
\* signal, a lost connection, the unique violation of a row another command
\* inserted in between.
Abort(p) ==
  /\ pc[p] # "idle" /\ aborts < MaxAborts
  /\ aborts' = aborts + 1
  /\ Stop(p)
  /\ UNCHANGED <<tree, ledger, history, executed, runs, fails>>

\* Somebody edits the working tree: changes, adds or removes a file.
Edit(f, b) ==
  /\ edits < MaxEdits /\ disk[f] # b
  /\ disk' = [disk EXCEPT ![f] = b]
  /\ edits' = edits + 1
  /\ UNCHANGED <<ledger, history, executed, pc, scan, todo, work, used>>

-----------------------------------------------------------------------------
(* preflight.Scan *)

\* Resolve the files of the next step.
ListStep(p) ==
  /\ pc[p] = "list"
  /\ IF scan[p].step \in Steps
       THEN LET found == {f \in OnDisk : StepOf[f] = scan[p].step} IN
            /\ scan' = [scan EXCEPT ![p] = [@ EXCEPT !.step = scan[p].step + 1,
                                                     !.left = found,
                                                     !.seen = scan[p].seen \cup found]]
            /\ pc' = [pc EXCEPT ![p] = "hash"]
       ELSE /\ pc' = [pc EXCEPT ![p] = "missing"]
            /\ UNCHANGED scan
  /\ UNCHANGED <<tree, ledger, history, executed, todo, work, used>>

\* Hash the next file of the step; one that vanished since ends the command.
HashFile(p) ==
  /\ pc[p] = "hash"
  /\ IF scan[p].left = {}
       THEN pc' = [pc EXCEPT ![p] = "list"] /\ UNCHANGED <<scan, todo, work>>
       ELSE LET f == Least(scan[p].left) IN
            IF disk[f] = None THEN Stop(p)
            ELSE /\ scan' = [scan EXCEPT ![p] = [@ EXCEPT !.left = scan[p].left \ {f},
                                                          !.file = f, !.sha = disk[f]]]
                 /\ pc' = [pc EXCEPT ![p] = "select"]
                 /\ UNCHANGED <<todo, work>>
  /\ UNCHANGED <<tree, ledger, history, executed, used>>

\* The row has the content that is on disk.
Unchanged(r, sha) == r.state # "none" /\ r.sha = sha

\* A drifted migration that is applied is fatal.
Tampered(f, r, sha) == f \in Migrations /\ r.state = "applied" /\ r.sha # sha

\* What becomes of the row of a drifted file: an applied one is queued again.
Refreshed(r, sha) == [r EXCEPT !.sha = sha]
Requeued(r, sha) == [r EXCEPT !.sha = sha, !.state = "pending"]
Discovered(sha) == [NoRow EXCEPT !.sha = sha, !.state = "pending"]

\* Read the row of the file: unchanged goes on, tampered ends the command,
\* anything else has to be written.
SelectRow(p) ==
  /\ pc[p] = "select"
  /\ LET f == scan[p].file
         r == ledger[f]
         sha == scan[p].sha
     IN  \/ /\ Unchanged(r, sha)
            /\ pc' = [pc EXCEPT ![p] = "hash"]
            /\ UNCHANGED <<scan, todo, work>>
         \/ /\ Tampered(f, r, sha)
            /\ Stop(p)
         \/ /\ ~Unchanged(r, sha) /\ ~Tampered(f, r, sha)
            /\ scan' = [scan EXCEPT ![p].dbState = r.state]
            /\ pc' = [pc EXCEPT ![p] = "write"]
            /\ UNCHANGED <<todo, work>>
  /\ UNCHANGED <<tree, ledger, history, executed, used>>

\* Insert the row as pending, queue an applied one again, or take over the new
\* sha. Which of them was decided by SelectRow, on the state the row had then;
\* file_path is unique, so an insert fails when the row exists by now.
WriteRow(p) ==
  /\ pc[p] = "write"
  /\ LET f == scan[p].file
         sha == scan[p].sha
         seen == scan[p].dbState
         Put(r) == /\ ledger' = [ledger EXCEPT ![f] = r]
                   /\ pc' = [pc EXCEPT ![p] = "hash"]
                   /\ UNCHANGED <<scan, todo, work>>
     IN  \/ seen = "none" /\ ledger[f].state = "none" /\ Put(Discovered(sha))
         \/ seen = "none" /\ ledger[f].state # "none" /\ Stop(p) /\ UNCHANGED ledger
         \/ seen = "applied" /\ Put(Requeued(ledger[f], sha))
         \/ seen = "pending" /\ Put(Refreshed(ledger[f], sha))
  /\ UNCHANGED <<tree, history, executed, used>>

\* An applied migration whose file is gone ends the command; check ends here.
CheckMissing(p) ==
  /\ pc[p] = "missing"
  /\ LET gone == {f \in Migrations : /\ ledger[f].state = "applied"
                                     /\ f \notin scan[p].seen \cup OnDisk}
     IN  IF gone # {} \/ scan[p].cmd = "check"
           THEN Stop(p)
           ELSE /\ pc' = [pc EXCEPT ![p] = "plan"]
                /\ UNCHANGED <<scan, todo, work>>
  /\ UNCHANGED <<tree, ledger, history, executed, used>>

-----------------------------------------------------------------------------
(* Planning: groupPending, resolveTarget and selectTargets *)

Planned(S) == {[file |-> f, sha |-> ledger[f].sha] : f \in S}
Pending == {f \in Files : ledger[f].state = "pending"}
Runnable == {f \in OnDisk : ledger[f].state \in {"pending", "applied"}}

\* up takes the files before the target along with it.
UpTo(target) == {f \in Pending : f <= target}

\* Hand the files of S, with the sha their rows have now, to the apply loop.
Take(p, S) ==
  /\ runs' = runs + 1
  /\ todo' = [todo EXCEPT ![p] = Planned(S)]
  /\ work' = [work EXCEPT ![p] = [NoWork EXCEPT !.run = runs + 1]]
  /\ scan' = [scan EXCEPT ![p] = [NoScan EXCEPT !.cmd = scan[p].cmd]]
  /\ pc' = [pc EXCEPT ![p] = "read"]

\* up: every pending file up to the target, unless one of the pending files is
\* not in the tree any more ("step not found"), which ends the command.
PlanUp(p) ==
  /\ pc[p] = "plan" /\ scan[p].cmd = "up"
  /\ \/ /\ Pending = {} \/ ~(Pending \subseteq OnDisk)
        /\ Stop(p)
        /\ UNCHANGED runs
     \/ /\ Pending # {} /\ Pending \subseteq OnDisk
        /\ \E target \in Pending : Take(p, UpTo(target))
  /\ UNCHANGED <<tree, ledger, history, executed, aborts, fails>>

\* run: one registered file, or the registered files of one step.
PlanRun(p) ==
  /\ pc[p] = "plan" /\ scan[p].cmd = "run"
  /\ \/ /\ Runnable = {}
        /\ Stop(p)
        /\ UNCHANGED runs
     \/ \E f \in Runnable : \E S \in {{f}, {g \in Runnable : StepOf[g] = StepOf[f]}} :
          Take(p, S)
  /\ UNCHANGED <<tree, ledger, history, executed, aborts, fails>>

-----------------------------------------------------------------------------
(* apply.File, for each planned file in turn *)

NextItem(p) == CHOOSE t \in todo[p] : \A u \in todo[p] : t.file <= u.file

\* Read the body that will be recorded; a missing file ends the command.
ReadBody(p) ==
  /\ pc[p] = "read"
  /\ LET t == NextItem(p) IN
     IF disk[t.file] = None THEN Stop(p)
     ELSE /\ work' = [work EXCEPT ![p] = [@ EXCEPT !.file = t.file, !.sha = t.sha,
                                                   !.sql = disk[t.file]]]
          /\ pc' = [pc EXCEPT ![p] = "exec"]
          /\ UNCHANGED <<scan, todo>>
  /\ UNCHANGED <<tree, ledger, history, executed, used>>

\* RunFile reads the file again and runs it in one transaction. The body is
\* committed; or it is not; or it is and the answer is lost, so that the
\* command takes it for a failure.
CommitBody(p) == executed' = Append(executed, [run |-> work[p].run, cmd |-> scan[p].cmd,
                                               file |-> work[p].file,
                                               body |-> disk[work[p].file]])
Outcome(p, ok) == /\ work' = [work EXCEPT ![p].ok = ok]
                  /\ pc' = [pc EXCEPT ![p] = "record"]

RunBody(p) ==
  /\ pc[p] = "exec"
  /\ \/ /\ disk[work[p].file] # None
        /\ CommitBody(p) /\ Outcome(p, TRUE)
        /\ UNCHANGED fails
     \/ /\ disk[work[p].file] # None /\ fails < MaxFails
        /\ CommitBody(p) /\ Outcome(p, FALSE)
        /\ fails' = fails + 1
     \/ /\ disk[work[p].file] # None /\ fails < MaxFails
        /\ Outcome(p, FALSE)
        /\ fails' = fails + 1
        /\ UNCHANGED executed
     \/ /\ disk[work[p].file] = None
        /\ Outcome(p, FALSE)
        /\ UNCHANGED <<executed, fails>>
  /\ UNCHANGED <<tree, ledger, history, scan, todo, runs, aborts>>

NextAttempt(r) == r.attempts + 1
NewHistoryId == Len(history) + 1

\* Number the attempt after the row and append the history row, success or not.
\* (The code reads the number in a statement of its own; nothing decides by it.)
RecordAttempt(p) ==
  /\ pc[p] = "record"
  /\ LET w == work[p]
         attempt == NextAttempt(ledger[w.file])
     IN  /\ history' = Append(history, [file |-> w.file, sha |-> w.sha, sql |-> w.sql,
                                        ok |-> w.ok, attempt |-> attempt])
         /\ work' = [work EXCEPT ![p] = [@ EXCEPT !.hist = NewHistoryId,
                                                 !.attempt = attempt]]
  /\ pc' = [pc EXCEPT ![p] = "mark"]
  /\ UNCHANGED <<tree, ledger, executed, scan, todo, used>>

\* The columns an attempt writes, and those a success writes.
Attempted(r, w) == [r EXCEPT !.attempts = w.attempt]
HistoryId(w) == w.hist
Succeeded(r, w) == [r EXCEPT !.state = "applied", !.appliedSha = w.sha,
                             !.appliedSql = w.sql, !.appliedHist = HistoryId(w)]

\* Update the ledger row by id, whatever became of it since the plan. A success
\* goes on with the next file, a failure ends the command.
MarkRow(p) ==
  /\ pc[p] = "mark"
  /\ LET w == work[p]
         rest == todo[p] \ {NextItem(p)}
     IN  IF w.ok
           THEN /\ ledger' = [ledger EXCEPT ![w.file] = Succeeded(Attempted(@, w), w)]
                /\ IF rest = {} THEN Stop(p)
                   ELSE /\ todo' = [todo EXCEPT ![p] = rest]
                        /\ work' = [work EXCEPT ![p] = [NoWork EXCEPT !.run = w.run]]
                        /\ pc' = [pc EXCEPT ![p] = "read"]
                        /\ UNCHANGED scan
           ELSE /\ ledger' = [ledger EXCEPT ![w.file] = Attempted(@, w)]
                /\ Stop(p)
  /\ UNCHANGED <<tree, history, executed, used>>

-----------------------------------------------------------------------------

Scan(p) == ListStep(p) \/ HashFile(p) \/ SelectRow(p) \/ WriteRow(p) \/ CheckMissing(p)
Apply(p) == ReadBody(p) \/ RunBody(p) \/ RecordAttempt(p) \/ MarkRow(p)
Step(p) == Scan(p) \/ PlanUp(p) \/ PlanRun(p) \/ Apply(p)

Next ==
  \/ \E p \in Procs : Step(p) \/ Abort(p) \/ \E c \in Commands : Start(p, c)
  \/ \E f \in Files, b \in Bodies \cup {None} : Edit(f, b)

Spec == Init /\ [][Next]_vars

\* Commands run on, and operators keep starting up.
FairSpec == /\ Spec
            /\ \A p \in Procs : WF_vars(Step(p)) /\ WF_vars(Start(p, "up"))

-----------------------------------------------------------------------------
(* Properties *)

Pcs == {"idle", "list", "hash", "select", "write", "missing", "plan",
        "read", "exec", "record", "mark"}
Contents == Bodies \cup {None}
Rows == [state: States, sha: Contents, appliedSha: Contents, appliedSql: Contents,
         appliedHist: Nat, attempts: Nat]
HistoryRows == [file: Files, sha: Contents, sql: Contents, ok: BOOLEAN, attempt: Nat]
CommandNames == {"none", "up", "check", "run"}
Executions == [run: Nat, cmd: CommandNames, file: Files, body: Contents]
Items == [file: Files, sha: Contents]
Scans == [cmd: CommandNames, step: Nat, left: SUBSET Files,
          seen: SUBSET Files, file: Files \cup {0}, sha: Contents, dbState: States]
Works == [run: Nat, file: Files \cup {0}, sha: Contents, sql: Contents, ok: BOOLEAN,
          hist: Nat, attempt: Nat]

Applying == {"read", "exec", "record", "mark"}

DatabaseOK ==
  /\ disk \in [Files -> Contents]
  /\ ledger \in [Files -> Rows]
  /\ history \in Seq(HistoryRows)
  /\ executed \in Seq(Executions)
  /\ runs \in Nat /\ edits \in Nat /\ aborts \in Nat /\ fails \in Nat

CommandsOK ==
  /\ pc \in [Procs -> Pcs]
  /\ scan \in [Procs -> Scans]
  /\ todo \in [Procs -> SUBSET Items]
  /\ work \in [Procs -> Works]
  /\ \A p \in Procs : /\ pc[p] \in {"select", "write"} => scan[p].file \in Files
                      /\ pc[p] \in Applying => todo[p] # {}
                      /\ pc[p] \in Applying \ {"read"} => work[p].file \in Files

\* The types of the variables. A command that looks at a row has a file in hand,
\* one in the apply loop has a file left in its plan.
TypeOK == DatabaseOK /\ CommandsOK

Ran(f) == \E i \in 1..Len(executed) : executed[i].file = f

\* Whatever commands interleave or die, a row that says applied points at the
\* history row of a successful attempt on the same file, with the sha and the
\* SQL the row shows, and the file did run. (apply.File marks the row in a
\* statement of its own, long after the plan was made.)
AppliedIsBacked ==
  \A f \in Files : ledger[f].state = "applied" =>
    LET r == ledger[f] IN
    /\ r.appliedHist \in 1..Len(history)
    /\ LET h == history[r.appliedHist] IN
         h.file = f /\ h.ok /\ h.sha = r.appliedSha /\ h.sql = r.appliedSql
    /\ Ran(f)

ScanHolds(p) ==
  pc[p] = "write" =>
    /\ scan[p].dbState # "none" => ledger[scan[p].file].state # "none"
    /\ scan[p].file \in Migrations => scan[p].dbState # "applied"
PlanHolds(p) ==
  /\ pc[p] \in Applying => \A t \in todo[p] : ledger[t.file].state # "none"
  /\ pc[p] \in Applying \ {"read"} => ledger[work[p].file].state # "none"
AttemptHolds(p) ==
  LET w == work[p] IN
  /\ pc[p] \in {"record", "mark"} /\ w.ok => Ran(w.file)
  /\ pc[p] = "mark" =>
       /\ w.hist \in 1..Len(history)
       /\ LET h == history[w.hist] IN
            h.file = w.file /\ h.ok = w.ok /\ h.sha = w.sha /\ h.sql = w.sql

\* What a command carries in its locals from one statement to the next stays
\* true of the tables, however many statements of other commands come between:
\* the row it saw or planned still exists, the success it is about to report
\* did run, and the history row whose id it holds is the one of its attempt.
LocalsHold == \A p \in Procs : ScanHolds(p) /\ PlanHolds(p) /\ AttemptHolds(p)

Executed(f) == Cardinality({i \in 1..Len(executed) : executed[i].file = f})
Successes(f) == Cardinality({i \in 1..Len(history) : history[i].file = f /\ history[i].ok})
InFlight(f) == Cardinality({p \in Procs : pc[p] = "record" /\ work[p].file = f /\ work[p].ok})

\* History never claims a run that did not happen, and misses one only for a
\* command that died, or lost its connection, before it could write the row.
HistoryMatchesRuns ==
  \A f \in Files : /\ Successes(f) + InFlight(f) <= Executed(f)
                   /\ Executed(f) <= Successes(f) + InFlight(f) + aborts + fails

\* One command runs its files in the order of the tree, each at most once,
\* also when the plan was made from rows other commands were changing.
RunsInOrder ==
  \A i, j \in 1..Len(executed) :
    i < j /\ executed[i].run = executed[j].run => executed[i].file < executed[j].file

(* The following hold when the commands run one after the other. *)

\* An applied row shows one content: the sha the next preflight compares with
\* the disk is the sha that was applied, so a later edit is seen as drift or as
\* tampering. Preflight writes the first and apply.File the second, from a plan
\* made earlier.
AppliedShaIsCurrent ==
  \A f \in Files : ledger[f].state = "applied" => ledger[f].sha = ledger[f].appliedSha

\* Once applied, the row of a migration never changes its sha or its state:
\* "a drifted applied migration stays fatal" and is never taken over.
MigrationFrozen ==
  [][\A f \in Migrations : ledger[f].state = "applied" =>
       ledger'[f].state = "applied" /\ ledger'[f].sha = ledger[f].sha]_vars

\* up runs a file only when no earlier file of the tree is still pending: the
\* order of the plan, the stop at the first failure and the refusal to plan
\* around a pending file that left the tree work together.
EarlierFilesFirst ==
  \A p \in Procs : pc[p] = "exec" /\ scan[p].cmd = "up" =>
    \A g \in Files : g < work[p].file => ledger[g].state # "pending"

\* up runs a migration once, and again only after a command died or an answer
\* was lost, between the commit of the body and the update of the row.
MigrationRunsOnce ==
  \A f \in Migrations :
    Cardinality({i \in 1..Len(executed) : executed[i].file = f /\ executed[i].cmd = "up"})
      <= 1 + aborts + fails

\* Preflight leaves an applied file alone when its sha is the one on disk; such
\* a body has run: a drifted base file "flips back to pending and the next up
\* applies it again".
DriftIsReplayed ==
  \A f \in Files : ledger[f].state = "applied" /\ ledger[f].sha = disk[f] =>
    \E i \in 1..Len(executed) : executed[i].file = f /\ executed[i].body = disk[f]

(* Liveness, under FairSpec *)

\* Nothing that smig leaves to its operators: a pending file outside the tree,
\* an applied migration that was edited or removed.
Settled ==
  \A f \in Files :
    /\ ledger[f].state = "pending" => disk[f] # None
    /\ f \in Migrations /\ ledger[f].state = "applied" => disk[f] = ledger[f].sha

UpToDate ==
  \A f \in OnDisk : ledger[f].state = "applied" /\ ledger[f].sha = disk[f]

\* As long as operators keep running up, every file of a tree that stays
\* settled is applied in the end with the content it has, after any finite
\* number of edits, crashes and failures.
Converges == <>[]Settled => <>[]UpToDate

(* Refinement *)

LP == INSTANCE LedgerPromise
        WITH status <- [f \in Files |-> ledger[f].state],
             ran <- {f \in Files : Ran(f)}

\* The ledger keeps its promise (LedgerPromise) under any interleaving of
\* commands, edits and crashes.
KeepsPromise == LP!Promise
===============================================================================
