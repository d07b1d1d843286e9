---------------------------------- MODULE Down ----------------------------------
(***************************************************************************)
(* down: reverting applied migrations with a script an agent writes.       *)
(*                                                                         *)
(* The targets are listed once. For each, an accepted proposal for its sha *)
(* is taken from the ledger, or a session with the agent is held: turns of *)
(* tool calls, each answered, until the agent commits a staged proposal or *)
(* the turns run out. The proposal is stored, written beside the migration *)
(* it reverts, and then printed (a dry run) or executed in a transaction   *)
(* with its history row. The insert of that row names more placeholders    *)
(* than it is given arguments, so the transaction never commits.           *)
(*                                                                         *)
(* The script on disk lies in the migrations folder and ends in .sql: to   *)
(* up it is a migration like any other. up appears as two steps per path,  *)
(* its scan and its apply (MigrateUp has them statement by statement), and *)
(* a rebase as the mirror of one row. A text stands for its sha256. What   *)
(* the agent answers is arbitrary; what it proposes for a path reverts the *)
(* migration of that path. A script is executed without arguments, which   *)
(* lets it hold several statements, a COMMIT among them: what it did until  *)
(* then stays, although the code means to roll it back.                     *)
(***************************************************************************)
EXTENDS Integers, Sequences, FiniteSets

CONSTANTS Downs,          \* the down commands that may be active at the same time
          NMigrations,    \* number of migrations, numbered in the order of the tree
          Texts,          \* texts a migration may have
          Nothing,        \* no text: a file that is absent, a NULL column
          MaxTurns,       \* turns of one session, 20 in the code
          MaxBlocks,      \* bound: tool calls of one turn
          MaxDowns,       \* bound: down commands started
          MaxUpSteps,     \* bound: steps of up
          MaxChanges,     \* bound: edits and mirrors
          MaxKills        \* bound: commands that die, scripts that end their transaction

Migration == 1..NMigrations
Path == 1..(2 * NMigrations)            \* the migrations, then their down scripts
DownFile(f) == NMigrations + f
OfPath(x) == IF x \in Migration THEN x ELSE x - NMigrations

\* A script reverts the migration it was staged for; shown is the forward text
\* the session began with.
Script == [reverts : Migration, shown : Texts]

ASSUME DownAssumption ==
  /\ NMigrations \in Nat
  /\ Nothing \notin Texts \cup Script
  /\ Texts \cap Script = {}
  /\ MaxTurns \in Nat \ {0} /\ MaxBlocks \in Nat /\ MaxDowns \in Nat
  /\ MaxUpSteps \in Nat /\ MaxChanges \in Nat /\ MaxKills \in Nat

VARIABLES
  folder,       \* folder[x]: text of path x in the migrations folder
  row,          \* samna_migrate.file, per path
  order,        \* the paths with a row, by position
  schema,       \* schema[f]: the text of f whose objects the database has
  proposals,    \* samna_migrate.down_proposal, the accepted rows by id
  escaped,      \* migrations whose objects a script took that had ended the
                \* transaction it was run in; not seen by the code
  at,           \* at[p]: what command p does next
  session,      \* session[p]: its locals
  downs, upSteps, changes, kills        \* how much of the bounds is used

ledgerVars == <<row, order>>
target == <<schema, proposals, escaped>>
cmd == <<at, session>>
spent == <<downs, upSteps, changes, kills>>
downVars == <<folder, ledgerVars, target, cmd, spent>>

NoFileRow == [state |-> "none", sha |-> Nothing]
Idle == [targets |-> <<>>, dry |-> FALSE, staged |-> [f \in Migration |-> Nothing],
         text |-> Nothing, turn |-> 0, left |-> 0, answered |-> 0,
         committed |-> FALSE, script |-> Nothing]

Placeholders == 11    \* of the INSERT INTO samna_migrate.history
Arguments == 10       \* given to it

\* Position in the tree: by name, so the script of f comes before f.
Rank(x) == IF x \in Migration THEN 2 * x ELSE 2 * OfPath(x) - 1

\* What the database has after text t of path x ran on schema s.
Effect(s, x, t) ==
  [s EXCEPT ![OfPath(x)] = IF x \in Migration THEN t ELSE Nothing]

(* Faulty variants of operators below: each is a plausible slip in the code
   that must break a property. *)
FaultyRolledBack(f, commits) == Effect(schema, DownFile(f), Nothing)  \* no rollback
FaultyCached(f, sha) == {i \in 1..Len(proposals) : proposals[i].file = f}  \* any sha
FaultyAnswer(s) == [s EXCEPT !.answered = @ + 1]           \* call not taken off
FaultyNextTurn(s) == [s EXCEPT !.answered = 0]             \* turn not counted

\* The schema after the script that reverts f ran in a transaction that is rolled
\* back: as it was, unless the script carries a COMMIT of its own.
RolledBack(f, commits) == IF commits THEN Effect(schema, DownFile(f), Nothing) ELSE schema
Escape(f, commits) ==
  IF commits
  THEN kills < MaxKills /\ kills' = kills + 1 /\ escaped' = escaped \cup {f}
  ELSE UNCHANGED <<kills, escaped>>

\* Proposals the cache answers with for migration f at this sha.
Cached(f, sha) == {i \in 1..Len(proposals) : proposals[i].file = f /\ proposals[i].sha = sha}

\* The proposal a session that committed ends with.
Accepted(s) == s.staged[Head(s.targets).file]

\* One more call answered; on to the next turn; on to the next target.
Answer(s) == [s EXCEPT !.left = @ - 1, !.answered = @ + 1]
NextTurn(s) == [s EXCEPT !.turn = @ + 1, !.answered = 0]
NextTarget(s) == [Idle EXCEPT !.targets = Tail(s.targets), !.dry = s.dry, !.staged = s.staged]

DownInit ==
  /\ folder \in {d \in [Path -> Texts \cup {Nothing}] :
                   \A x \in Path : d[x] \in Texts <=> x \in Migration}
  /\ row = [x \in Path |-> NoFileRow]
  /\ order = <<>>
  /\ schema = [f \in Migration |-> Nothing]
  /\ proposals = <<>> /\ escaped = {}
  /\ at = [p \in Downs |-> "idle"]
  /\ session = [p \in Downs |-> Idle]
  /\ downs = 0 /\ upSteps = 0 /\ changes = 0 /\ kills = 0

To(p, l) == at' = [at EXCEPT ![p] = l]
Set(p, s) == session' = [session EXCEPT ![p] = s]
End(p) == To(p, "idle") /\ Set(p, Idle)

-----------------------------------------------------------------------------
(* Around the command *)

\* The scan of up comes to a path: a new one is queued behind the others, one
\* that is not applied takes the new sha. An applied one that changed ends it.
UpScan(x) ==
  /\ upSteps < MaxUpSteps
  /\ folder[x] # Nothing /\ row[x].sha # folder[x] /\ row[x].state # "applied"
  /\ \A y \in Path : Rank(y) < Rank(x) /\ folder[y] # Nothing => row[y].state # "none"
  /\ upSteps' = upSteps + 1
  /\ row' = [row EXCEPT ![x].sha = folder[x],
                        ![x].state = IF @ = "none" THEN "pending" ELSE @]
  /\ order' = IF row[x].state = "none" THEN Append(order, x) ELSE order
  /\ UNCHANGED <<folder, target, cmd, downs, changes, kills>>

\* up runs the first pending file and records it.
UpApply(x) ==
  /\ upSteps < MaxUpSteps
  /\ row[x].state = "pending" /\ folder[x] # Nothing
  /\ \A i, j \in 1..Len(order) : order[j] = x /\ i < j => row[order[i]].state # "pending"
  /\ upSteps' = upSteps + 1
  /\ schema' = Effect(schema, x, folder[x])
  /\ escaped' = escaped \ {x}
  /\ row' = [row EXCEPT ![x].state = "applied"]
  /\ UNCHANGED <<folder, order, proposals, cmd, downs, changes, kills>>

Change(f, t) ==
  /\ changes < MaxChanges /\ folder[f] # t
  /\ changes' = changes + 1
  /\ folder' = [folder EXCEPT ![f] = t]
  /\ UNCHANGED <<ledgerVars, target, cmd, downs, upSteps, kills>>

\* A rebase declares the text on disk as the one that is deployed.
Declare(f) ==
  /\ changes < MaxChanges
  /\ row[f].state = "applied" /\ folder[f] # Nothing /\ row[f].sha # folder[f]
  /\ changes' = changes + 1
  /\ row' = [row EXCEPT ![f].sha = folder[f]]
  /\ UNCHANGED <<folder, order, target, cmd, downs, upSteps, kills>>

\* The command dies, a statement of it fails, or a tool call cannot be served.
Kill(p) ==
  /\ at[p] # "idle" /\ kills < MaxKills
  /\ End(p)
  /\ kills' = kills + 1
  /\ UNCHANGED <<folder, ledgerVars, target, downs, upSteps, changes>>

-----------------------------------------------------------------------------
(* The command *)

\* The positions of the n newest applied files, the newest first.
Applied == {i \in 1..Len(order) : row[order[i]].state = "applied"}
Newest(n) ==
  {s \in [1..n -> Applied] :
     /\ \A i, j \in 1..n : i < j => s[i] > s[j]
     /\ \A k \in Applied : (\E i \in 1..n : s[i] = k) \/ (\A i \in 1..n : k < s[i])}

\* down --steps or --to takes the newest n of them. A down of a down script that
\* up has applied is left out.
Begin(p, n, dry) ==
  /\ at[p] = "idle" /\ downs < MaxDowns
  /\ downs' = downs + 1
  /\ \E s \in Newest(n) :
       /\ \A i \in 1..n : order[s[i]] \in Migration
       /\ Set(p, [Idle EXCEPT !.dry = dry,
                    !.targets = [i \in 1..n |-> [file |-> order[s[i]],
                                                 sha |-> row[order[s[i]]].sha]]])
  /\ To(p, "cache")
  /\ UNCHANGED <<folder, ledgerVars, target, upSteps, changes, kills>>

\* The newest accepted proposal for the file and the sha of the target, if any.
LookUp(p) ==
  /\ at[p] = "cache"
  /\ LET t == Head(session[p].targets)
         found == Cached(t.file, t.sha)
     IN  IF found = {} THEN To(p, "read") /\ UNCHANGED session
         ELSE \E i \in found :
                /\ \A j \in found : j <= i
                /\ Set(p, [session[p] EXCEPT !.script = proposals[i].script])
                /\ To(p, "run")
  /\ UNCHANGED <<folder, ledgerVars, target, spent>>

\* The forward text is what is on disk now; without it the command ends.
ReadForward(p) ==
  /\ at[p] = "read"
  /\ LET text == folder[Head(session[p].targets).file] IN
       IF text = Nothing THEN End(p)
       ELSE Set(p, [session[p] EXCEPT !.text = text]) /\ To(p, "ask")
  /\ UNCHANGED <<folder, ledgerVars, target, spent>>

\* CreateMessage: the agent answers with n tool calls, or the turns are used up. A
\* request that fails is Kill.
Ask(p) ==
  /\ at[p] = "ask"
  /\ IF session[p].turn = MaxTurns THEN End(p)
     ELSE \E n \in 0..MaxBlocks :
            /\ Set(p, [session[p] EXCEPT !.left = n, !.answered = 0])
            /\ To(p, "tools")
  /\ UNCHANGED <<folder, ledgerVars, target, spent>>

Calling(p) == at[p] = "tools" /\ session[p].left > 0

\* Tools that only look: they are answered, with an error text if need be.
Look(p) ==
  /\ Calling(p)
  /\ Set(p, Answer(session[p]))
  /\ UNCHANGED <<folder, ledgerVars, target, at, spent>>

\* get_migration_file: one that cannot be read ends the command.
GetFile(p, x) ==
  /\ Calling(p)
  /\ IF folder[x] = Nothing THEN End(p)
     ELSE Set(p, Answer(session[p])) /\ UNCHANGED at
  /\ UNCHANGED <<folder, ledgerVars, target, spent>>

\* validate_sql runs a text, at worst one that would revert f, in a transaction of its
\* own and rolls it back.
Validate(p, f, commits) ==
  /\ Calling(p)
  /\ schema' = RolledBack(f, commits) /\ Escape(f, commits)
  /\ Set(p, Answer(session[p]))
  /\ UNCHANGED <<folder, ledgerVars, proposals, at, downs, upSteps, changes>>

\* propose_down_sql stages under the path the agent names; the last one counts.
Propose(p, f) ==
  /\ Calling(p)
  /\ LET s == Answer(session[p]) IN
       Set(p, [s EXCEPT !.staged[f] = [reverts |-> f, shown |-> s.text]])
  /\ UNCHANGED <<folder, ledgerVars, target, at, spent>>

\* commit_down is noted whatever path it names and whether it is staged or not.
CommitDown(p) ==
  /\ Calling(p)
  /\ Set(p, [Answer(session[p]) EXCEPT !.committed = TRUE])
  /\ UNCHANGED <<folder, ledgerVars, target, at, spent>>

\* A name that is no tool, or an input that does not decode.
BadCall(p) ==
  /\ Calling(p)
  /\ End(p)
  /\ UNCHANGED <<folder, ledgerVars, target, spent>>

\* All calls of the turn are answered: a commit ends the session with what is
\* staged for the target; a turn without calls may end it without.
EndTurn(p) ==
  /\ at[p] = "tools" /\ session[p].left = 0
  /\ LET s == session[p] IN
       \/ /\ s.committed /\ Accepted(s) # Nothing
          /\ Set(p, [s EXCEPT !.script = Accepted(s)]) /\ To(p, "store")
       \/ s.committed /\ Accepted(s) = Nothing /\ End(p)
       \/ ~s.committed /\ s.answered = 0 /\ End(p)
       \/ ~s.committed /\ Set(p, NextTurn(s)) /\ To(p, "ask")
  /\ UNCHANGED <<folder, ledgerVars, target, spent>>

\* The proposal is inserted as accepted, in a statement of its own.
Store(p) ==
  /\ at[p] = "store"
  /\ LET s == session[p]
         t == Head(s.targets)
     IN  proposals' = Append(proposals, [file |-> t.file, sha |-> t.sha, script |-> s.script])
  /\ To(p, "write")
  /\ UNCHANGED <<folder, ledgerVars, schema, escaped, session, spent>>

\* The script is written beside the forward file, dry run or not; a failure of
\* that is ignored.
WriteScript(p) ==
  /\ at[p] = "write"
  /\ LET s == session[p] IN
       \/ folder' = [folder EXCEPT ![DownFile(Head(s.targets).file)] = s.script]
       \/ UNCHANGED folder
  /\ To(p, "run")
  /\ UNCHANGED <<ledgerVars, target, session, spent>>

Proceed(p) == IF Len(session[p].targets) = 1 THEN End(p)
              ELSE Set(p, NextTarget(session[p])) /\ To(p, "cache")

\* A dry run prints the script.
PrintScript(p) ==
  /\ at[p] = "run" /\ session[p].dry
  /\ Proceed(p)
  /\ UNCHANGED <<folder, ledgerVars, target, spent>>

\* executeDown: the script, the history row and the state of the row in one
\* transaction, rolled back when any of them fails.
ExecuteDown(p, commits) ==
  /\ at[p] = "run" /\ ~session[p].dry
  /\ LET f == Head(session[p].targets).file
         undone == session[p].script.reverts
     IN  IF Arguments = Placeholders
         THEN /\ schema' = Effect(schema, DownFile(undone), session[p].script)
              /\ row' = [row EXCEPT ![f].state = "reverted"]
              /\ Proceed(p) /\ UNCHANGED <<escaped, kills>>
         ELSE /\ schema' = RolledBack(undone, commits) /\ Escape(undone, commits)
              /\ End(p) /\ UNCHANGED row
  /\ UNCHANGED <<folder, order, proposals, downs, upSteps, changes>>

DownStep(p) ==
  \/ LookUp(p) \/ ReadForward(p) \/ Ask(p)
  \/ Look(p) \/ (\E x \in Path : GetFile(p, x))
  \/ (\E f \in Migration : Propose(p, f) \/ (\E commits \in BOOLEAN : Validate(p, f, commits)))
  \/ CommitDown(p) \/ BadCall(p)
  \/ EndTurn(p) \/ Store(p) \/ WriteScript(p) \/ PrintScript(p)
  \/ (\E commits \in BOOLEAN : ExecuteDown(p, commits))

DownNext ==
  \/ \E x \in Path : UpScan(x) \/ UpApply(x)
  \/ \E f \in Migration : Declare(f) \/ (\E t \in Texts \cup {Nothing} : Change(f, t))
  \/ \E p \in Downs :
       \/ \E n \in 1..NMigrations, dry \in BOOLEAN : Begin(p, n, dry)
       \/ Kill(p)
       \/ DownStep(p)

\* A command that runs goes on, and the agent's service answers or times out.
DownFairness == \A p \in Downs : WF_downVars(DownStep(p))

DownSpec == DownInit /\ [][DownNext]_downVars /\ DownFairness

-----------------------------------------------------------------------------
(* Properties *)

Target == [file : Migration, sha : Texts]
Session ==
  [targets : Seq(Target), dry : BOOLEAN,
   staged : [Migration -> Script \cup {Nothing}], text : Texts \cup {Nothing},
   turn : 0..MaxTurns, left : 0..MaxBlocks, answered : 0..MaxBlocks,
   committed : BOOLEAN, script : Script \cup {Nothing}]

\* Types, and what a command has in hand at each step: a target while it runs,
\* the forward text while it is in a session, a script once there is one.
DownTypeOK ==
  /\ folder \in [Path -> Texts \cup Script \cup {Nothing}]
  /\ \A f \in Migration : folder[f] \notin Script /\ folder[DownFile(f)] \notin Texts
  /\ row \in [Path -> [state : {"none", "pending", "applied", "reverted"},
                       sha : Texts \cup Script \cup {Nothing}]]
  /\ \A f \in Migration : row[f].sha \notin Script
  /\ \A x \in Path : row[x].state # "none" => row[x].sha # Nothing
  /\ order \in Seq(Path)
  /\ schema \in [Migration -> Texts \cup {Nothing}] /\ escaped \subseteq Migration
  /\ proposals \in Seq([file : Migration, sha : Texts, script : Script])
  /\ at \in [Downs -> {"idle", "cache", "read", "ask", "tools", "store", "write", "run"}]
  /\ session \in [Downs -> Session]
  /\ \A p \in Downs :
       /\ at[p] # "idle" => session[p].targets # <<>>
       /\ at[p] \in {"ask", "tools"} => session[p].text # Nothing
       /\ at[p] \in {"store", "write", "run"} => session[p].script # Nothing
  /\ downs \in 0..MaxDowns /\ upSteps \in 0..MaxUpSteps
  /\ changes \in 0..MaxChanges /\ kills \in 0..MaxKills

\* The script a command writes, prints or executes was accepted for its target and
\* reverts it: the ledger has it for this file and the sha the target was listed
\* with, whether it came from the cache or from a session, of this command or of
\* another one, although the agent may stage for any path and commit any path and
\* what it staged outlives the session.
RunsWhatWasAccepted ==
  \A p \in Downs : at[p] \in {"write", "run"} =>
    LET s == session[p]
        t == Head(s.targets)
    IN  /\ s.script.reverts = t.file
        /\ \E i \in 1..Len(proposals) :
             proposals[i] = [file |-> t.file, sha |-> t.sha, script |-> s.script]

\* down takes the objects of an applied migration away in one way only, by a script
\* that ends the transaction it is run in: not with any other script it tries, not
\* with one it executes and whose row cannot be written, not when it dies. Where they
\* are gone otherwise, up has applied the script.
OnlyUpTakesAway ==
  \A f \in Migration :
    row[f].state = "applied" =>
      schema[f] # Nothing \/ row[DownFile(f)].state = "applied" \/ f \in escaped

\* Every command comes to an end, whatever the agent does: the turns are counted.
SessionEnds == \A p \in Downs : at[p] # "idle" ~> at[p] = "idle"

\* What the ledger shows as applied is in the database: a migration loses its
\* objects only by a down that says so in its row.
AppliedIsPresent ==
  \A f \in Migration : row[f].state = "applied" => schema[f] # Nothing
=============================================================================
