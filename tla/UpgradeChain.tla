------------------------------ MODULE UpgradeChain ------------------------------
(***************************************************************************)
(* The schema chain of samna_migrate and the gate in front of every        *)
(* command.                                                                *)
(*                                                                         *)
(* upgrade.Chain takes the ledger's own tables through upgrade_to_1 ..     *)
(* upgrade_to_7, each in a transaction of its own, and records the version *)
(* it reached in a statement after that; upgrade.Apply then acknowledges   *)
(* migrate.yml and the tool. bootCheck refuses a command unless version,   *)
(* tool and migrate.yml are the acknowledged ones, and runs the chain      *)
(* itself on a database that has none. No lock is held across the          *)
(* statements of a command.                                                *)
(*                                                                         *)
(* Of the seven steps the model keeps what a later statement may trip      *)
(* over: the columns whose presence the code asks for (step 1 adds         *)
(* schema_version, step 2 yaml_sha256) and the list of action types that   *)
(* history admits, which steps 2, 3, 5 and 7 write. The list of file       *)
(* states is left out: every version of it admits every state the program  *)
(* reaches.                                                                *)
(***************************************************************************)
EXTENDS Integers, FiniteSets

CONSTANTS Procs,        \* commands that may be active at the same time
          Released,     \* tool versions that have ever written to the database
          Tools,        \* those in use now
          Yamls,        \* contents migrate.yml may have
          None,         \* a NULL column
          Forcing,      \* whether operators run upgrade --force
          MaxEdits,     \* bound: edits of migrate.yml
          MaxAborts     \* bound: commands that die

ASSUME UpgradeChainAssumption ==
  /\ Tools \subseteq Released
  /\ None \notin Released /\ None \notin Yamls
  /\ Forcing \in BOOLEAN
  /\ MaxEdits \in Nat /\ MaxAborts \in Nat

VARIABLES
  disk,       \* migrate.yml in the working tree
  built,      \* steps whose SQL was committed at least once
  version,    \* state.schema_version, 0 while there is no such column
  tool,       \* state.tool_version
  yaml,       \* state.yaml_sha256
  admitted,   \* action types history_action_type_check admits
  rows,       \* action types of the rows in history
  pc,         \* pc[p]: the statement command p is about to execute
  local,      \* local[p]: what it holds
  edits, aborts

database == <<built, version, tool, yaml, admitted, rows>>
vars == <<disk, database, pc, local, edits, aborts>>

TargetVersion == 7
Fresh(c, t) == [cmd |-> c, tool |-> t, next |-> 0, sha |-> None, drift |-> FALSE]
NoLocal == Fresh("none", None)

(* Faulty variants of operators below: each is a plausible slip in the code
   that must break a property. *)
FaultyLists(v) == {"apply"} \cup (IF v \in {5, 6} THEN {"rebase"} ELSE {})
                            \cup (IF v >= 7 THEN {"external"} ELSE {})
FaultyFirst == version + 2                       \* off by one: a step is skipped
FaultyBehind(p) == local[p].next <= TargetVersion + 1
FaultyAligned == version <= TargetVersion        \* only a newer schema is refused
FaultyAcknowledge(p) ==                          \* an unchanged file ends it early
  /\ IF local[p].drift THEN yaml' = local[p].sha /\ tool' = local[p].tool
     ELSE UNCHANGED <<yaml, tool>>
  /\ UNCHANGED <<built, version, admitted, rows>>

\* The action types the commands write, by the step whose list admits them
\* first: apply, fold, merge_apply and merge_revert; rebase and rebase_undo;
\* external.
Kinds == {"apply", "rebase", "external"}
Lists(v) == {"apply"} \cup (IF v >= 5 THEN {"rebase"} ELSE {})
                      \cup (IF v >= 7 THEN {"external"} ELSE {})

\* A database without the schema, or one that an earlier release of the program
\* left at the version that was the latest then.
Init ==
  /\ disk \in Yamls
  /\ version \in 0..TargetVersion
  /\ built = 1..version
  /\ tool \in (IF version = 0 THEN {None} ELSE Released)
  /\ yaml \in (IF version < 2 THEN {None} ELSE Yamls \cup {None})
  /\ admitted = (IF version < 2 THEN Kinds ELSE Lists(version))
  /\ rows \in (IF version = 0 THEN {{}} ELSE SUBSET Lists(version))
  /\ pc = [p \in Procs |-> "idle"]
  /\ local = [p \in Procs |-> NoLocal]
  /\ edits = 0 /\ aborts = 0

Goto(p, l) == pc' = [pc EXCEPT ![p] = l]
Stop(p) == Goto(p, "idle") /\ local' = [local EXCEPT ![p] = NoLocal]

\* An operator starts an upgrade, with or without --force, or another command.
Start(p, c, t) ==
  /\ pc[p] = "idle"
  /\ \/ c = "upgrade" /\ Goto(p, "chain")
     \/ c = "upgrade" /\ Forcing /\ Goto(p, "reset")
     \/ c = "other" /\ Goto(p, "boot")
  /\ local' = [local EXCEPT ![p] = Fresh(c, t)]
  /\ UNCHANGED <<disk, database, edits, aborts>>

\* The command dies, or loses its connection.
Abort(p) ==
  /\ pc[p] # "idle" /\ aborts < MaxAborts
  /\ Stop(p)
  /\ aborts' = aborts + 1
  /\ UNCHANGED <<disk, database, edits>>

Edit(y) ==
  /\ disk # y /\ edits < MaxEdits
  /\ disk' = y /\ edits' = edits + 1
  /\ UNCHANGED <<database, pc, local, aborts>>

-----------------------------------------------------------------------------
(* upgrade *)

\* --force: an update that fails while the column is not there.
Reset(p) ==
  /\ pc[p] = "reset"
  /\ IF 1 \in built THEN version' = 0 /\ Goto(p, "chain") /\ UNCHANGED local
     ELSE Stop(p) /\ UNCHANGED version
  /\ UNCHANGED <<disk, built, tool, yaml, admitted, rows, edits, aborts>>

\* Read the version once; the loop counts on from there.
First == version + 1
ReadVersion(p) ==
  /\ pc[p] = "chain"
  /\ local' = [local EXCEPT ![p].next = First]
  /\ Goto(p, "step")
  /\ UNCHANGED <<disk, database, edits, aborts>>

Behind(p) == local[p].next <= TargetVersion

\* Steps 3, 5 and 7 replace the list, 2 adds one if there is none yet.
WritesList(v) == v \in {3, 5, 7} \/ (v = 2 /\ 2 \notin built)
ListAfter(v) == IF WritesList(v) THEN Lists(v) ELSE admitted

\* A list cannot be added over rows it does not admit.
Accepted(v) == rows \subseteq ListAfter(v)

\* Run one step in its transaction, or leave the loop.
RunStep(p) ==
  /\ pc[p] = "step"
  /\ LET v == local[p].next IN
     \/ /\ ~Behind(p)
        /\ Goto(p, "snapshot")
        /\ UNCHANGED <<built, admitted, local>>
     \/ /\ Behind(p) /\ Accepted(v)
        /\ built' = built \cup {v}
        /\ admitted' = ListAfter(v)
        /\ Goto(p, "record")
        /\ UNCHANGED local
     \/ /\ Behind(p) /\ ~Accepted(v)
        /\ Stop(p)
        /\ UNCHANGED <<built, admitted>>
  /\ UNCHANGED <<disk, version, tool, yaml, rows, edits, aborts>>

\* SetSchemaVersion, in a statement of its own.
RecordVersion(p) ==
  /\ pc[p] = "record"
  /\ version' = local[p].next
  /\ tool' = local[p].tool
  /\ local' = [local EXCEPT ![p].next = @ + 1]
  /\ Goto(p, "step")
  /\ UNCHANGED <<disk, built, yaml, admitted, rows, edits, aborts>>

Snapshot(p) ==
  /\ pc[p] = "snapshot"
  /\ local' = [local EXCEPT ![p] = [@ EXCEPT !.sha = disk, !.drift = (disk # yaml)]]
  /\ Goto(p, "acknowledge")
  /\ UNCHANGED <<disk, database, edits, aborts>>

\* The tool is recorded in any case, migrate.yml when it had drifted. The boot
\* check of another command goes on from here.
Acknowledge(p) ==
  /\ tool' = local[p].tool
  /\ yaml' = IF local[p].drift THEN local[p].sha ELSE yaml
  /\ UNCHANGED <<built, version, admitted, rows>>

Finish(p) ==
  /\ pc[p] = "acknowledge"
  /\ Acknowledge(p)
  /\ IF local[p].cmd = "upgrade" THEN Stop(p) ELSE Goto(p, "version") /\ UNCHANGED local
  /\ UNCHANGED <<disk, edits, aborts>>

-----------------------------------------------------------------------------
(* bootCheck, and the command behind it *)

\* Without a schema_version column the chain is run in place.
Boot(p) ==
  /\ pc[p] = "boot"
  /\ Goto(p, IF 1 \in built THEN "version" ELSE "chain")
  /\ UNCHANGED <<disk, database, local, edits, aborts>>

Aligned == version = TargetVersion

CheckVersion(p) ==
  /\ pc[p] = "version"
  /\ IF Aligned THEN Goto(p, "tool") /\ UNCHANGED local ELSE Stop(p)
  /\ UNCHANGED <<disk, database, edits, aborts>>

CheckTool(p) ==
  /\ pc[p] = "tool"
  /\ IF tool = local[p].tool THEN Goto(p, "hash") /\ UNCHANGED local ELSE Stop(p)
  /\ UNCHANGED <<disk, database, edits, aborts>>

HashYaml(p) ==
  /\ pc[p] = "hash"
  /\ local' = [local EXCEPT ![p].sha = disk]
  /\ Goto(p, "yaml")
  /\ UNCHANGED <<disk, database, edits, aborts>>

CheckYaml(p) ==
  /\ pc[p] = "yaml"
  /\ IF yaml = local[p].sha THEN Goto(p, "work") /\ UNCHANGED local ELSE Stop(p)
  /\ UNCHANGED <<disk, database, edits, aborts>>

\* The command appends history rows; one that history does not admit ends it.
Write(p, k) ==
  /\ pc[p] = "work" /\ k \in admitted
  /\ rows' = rows \cup {k}
  /\ UNCHANGED <<disk, built, version, tool, yaml, admitted, pc, local, edits, aborts>>

Leave(p) ==
  /\ pc[p] = "work"
  /\ Stop(p)
  /\ UNCHANGED <<disk, database, edits, aborts>>

-----------------------------------------------------------------------------

Upgrade(p) == Reset(p) \/ ReadVersion(p) \/ RunStep(p) \/ RecordVersion(p)
              \/ Snapshot(p) \/ Finish(p)
Gate(p) == Boot(p) \/ CheckVersion(p) \/ CheckTool(p) \/ HashYaml(p) \/ CheckYaml(p)
Step(p) == Upgrade(p) \/ Gate(p) \/ Leave(p)

Next ==
  \/ \E p \in Procs : \/ Step(p) \/ Abort(p)
                      \/ \E k \in Kinds : Write(p, k)
                      \/ \E c \in {"upgrade", "other"}, t \in Tools : Start(p, c, t)
  \/ \E y \in Yamls : Edit(y)

Spec == Init /\ [][Next]_vars

\* Commands run on and end; an operator who means to upgrade does so between
\* the other commands, in the end.
FairSpec == /\ Spec
            /\ \A p \in Procs : /\ WF_vars(Step(p))
                                /\ SF_vars(\E t \in Tools : Start(p, "upgrade", t))

-----------------------------------------------------------------------------
(* Properties *)

Pcs == {"idle", "reset", "chain", "step", "record", "snapshot", "acknowledge",
        "boot", "version", "tool", "hash", "yaml", "work"}
Locals == [cmd: {"none", "upgrade", "other"}, tool: Tools \cup {None},
           next: 0..(TargetVersion + 1), sha: Yamls \cup {None}, drift: BOOLEAN]

\* The types of the variables. A command about to record a version has run a
\* step of the chain.
TypeOK ==
  /\ disk \in Yamls
  /\ built \subseteq 1..TargetVersion
  /\ version \in 0..TargetVersion
  /\ tool \in Released \cup {None}
  /\ yaml \in Yamls \cup {None}
  /\ admitted \subseteq Kinds
  /\ rows \subseteq Kinds
  /\ pc \in [Procs -> Pcs]
  /\ local \in [Procs -> Locals]
  /\ edits \in Nat /\ aborts \in Nat
  /\ \A p \in Procs : /\ pc[p] = "step" => local[p].next \in 1..(TargetVersion + 1)
                      /\ pc[p] = "record" => local[p].next \in 1..TargetVersion
                      /\ pc[p] # "idle" => local[p].tool \in Tools

\* The recorded version never claims a step that was not committed, although
\* it is written after the step, by any number of commands that each count on
\* from a version they read earlier, and set back by --force.
VersionIsBuilt == 1..version \subseteq built

(* The following hold when commands run one after the other, without --force. *)

\* A plain upgrade can take the database from the version recorded to the
\* target: no step it has left would add a list over rows the list refuses.
\* Each step spells the list out anew, over rows earlier releases have written.
Upgradable == \A v \in (version + 1)..TargetVersion : WritesList(v) => rows \subseteq Lists(v)

\* A command that passed the gate works on an aligned database: the chain is
\* complete, the tool and the migrate.yml it hashed are the acknowledged ones,
\* and every row it may write is admitted, also after a chain that died
\* between a step and the record of its version.
WorksAligned ==
  \A p \in Procs : pc[p] = "work" =>
    /\ version = TargetVersion
    /\ tool = local[p].tool /\ yaml = local[p].sha
    /\ admitted = Kinds

\* Once the operators keep running upgrade, the gate opens in the end for the
\* tool that upgraded last, after any finite number of edits and crashes.
GateOpens == <>[](version = TargetVersion /\ yaml = disk /\ tool \in Tools)
===============================================================================
