-------------------------- MODULE UpgradeChain_proofs --------------------------
(***************************************************************************)
(* Theorems about UpgradeChain. The first part holds for any number of     *)
(* commands, --force included: the version recorded is always backed by    *)
(* committed steps, because a command never counts past the steps it ran   *)
(* itself or found recorded. The second part is about one command at a     *)
(* time without --force: there the chain can always go on, and a command   *)
(* behind the gate finds every row it writes admitted.                     *)
(***************************************************************************)
EXTENDS UpgradeChain, TLAPS

\* Membership of the locals, field by field.
LEMMA LocalFields ==
  ASSUME NEW l \in Locals
  PROVE  /\ l.cmd \in {"none", "upgrade", "other"} /\ l.tool \in Tools \cup {None}
         /\ l.next \in 0..8 /\ l.sha \in Yamls \cup {None} /\ l.drift \in BOOLEAN
BY DEF Locals, TargetVersion

-----------------------------------------------------------------------------
(* Types *)

LEMMA TypesInit == Init => TypeOK
<1>. SUFFICES ASSUME Init PROVE TypeOK
  OBVIOUS
<1>1. version \in 0..7 /\ built = 1..version /\ built \subseteq 1..7
  BY DEF Init, TargetVersion
<1>2. admitted \subseteq Kinds /\ rows \subseteq Kinds
  BY DEF Init, Lists, Kinds
<1>3. tool \in Released \cup {None} /\ yaml \in Yamls \cup {None}
  BY DEF Init
<1>4. pc \in [Procs -> Pcs] /\ local \in [Procs -> Locals]
  BY DEF Init, Pcs, Locals, NoLocal, Fresh, TargetVersion
<1>. QED
  BY <1>1, <1>2, <1>3, <1>4 DEF Init, TypeOK, TargetVersion

\* A command that stops leaves well-typed locals behind.
LEMMA TypesStop ==
  ASSUME TypeOK, NEW p \in Procs, Stop(p), UNCHANGED <<disk, database, edits>>,
         aborts' \in Nat
  PROVE  TypeOK'
<1>1. NoLocal \in Locals
  BY DEF NoLocal, Fresh, Locals, TargetVersion
<1>2. pc' \in [Procs -> Pcs] /\ local' \in [Procs -> Locals]
  BY <1>1 DEF Stop, Goto, TypeOK, Pcs
<1>. QED
  BY <1>1, <1>2 DEF Stop, Goto, TypeOK, database

LEMMA TypesNext == TypeOK /\ [Next]_vars => TypeOK'
<1>. SUFFICES ASSUME TypeOK, [Next]_vars PROVE TypeOK'
  OBVIOUS
<1>. USE UpgradeChainAssumption
<1>a. ASSUME NEW p \in Procs
      PROVE  local[p] \in Locals /\ local[p].next \in 0..8
  BY LocalFields DEF TypeOK
<1>1. CASE UNCHANGED vars
  BY <1>1 DEF vars, database, TypeOK
<1>2. ASSUME NEW p \in Procs, NEW c \in {"upgrade", "other"}, NEW t \in Tools, Start(p, c, t)
      PROVE  TypeOK'
  <2>1. Fresh(c, t) \in Locals
    BY DEF Fresh, Locals, TargetVersion
  <2>2. local' \in [Procs -> Locals]
    BY <1>2, <2>1 DEF Start, TypeOK
  <2>3. pc' \in [Procs -> Pcs] /\ pc'[p] \in {"chain", "reset", "boot"}
    BY <1>2 DEF Start, Goto, TypeOK, Pcs
  <2>4. local'[p].tool = t
    BY <1>2 DEF Start, TypeOK, Fresh
  <2>. QED
    BY <1>2, <2>2, <2>3, <2>4 DEF Start, Goto, TypeOK, database
<1>3. ASSUME NEW p \in Procs, Abort(p) PROVE TypeOK'
  BY <1>3, TypesStop DEF Abort, TypeOK
<1>4. ASSUME NEW y \in Yamls, Edit(y) PROVE TypeOK'
  BY <1>4 DEF Edit, TypeOK, database
<1>5. ASSUME NEW p \in Procs, Reset(p) PROVE TypeOK'
  <2>1. CASE 1 \in built
    BY <1>5, <2>1 DEF Reset, Goto, TypeOK, Pcs, TargetVersion
  <2>2. CASE 1 \notin built
    BY <1>5, <2>2, TypesStop DEF Reset, TypeOK, database
  <2>. QED
    BY <2>1, <2>2
<1>6. ASSUME NEW p \in Procs, ReadVersion(p) PROVE TypeOK'
  <2>1. First \in 1..8
    BY DEF First, TypeOK, TargetVersion
  <2>2. [local[p] EXCEPT !.next = First] \in Locals
    BY <1>a, <2>1 DEF Locals, TargetVersion
  <2>3. local' = [local EXCEPT ![p] = [local[p] EXCEPT !.next = First]]
    BY <1>6 DEF ReadVersion
  <2>4. local' \in [Procs -> Locals]
    BY <2>2, <2>3 DEF TypeOK
  <2>5. local'[p].next \in 1..8 /\ local'[p].tool = local[p].tool
    BY <1>a, <2>1, <2>3 DEF TypeOK, Locals
  <2>. QED
    BY <1>6, <2>3, <2>4, <2>5 DEF ReadVersion, Goto, TypeOK, Pcs, database, TargetVersion
<1>7. ASSUME NEW p \in Procs, RunStep(p) PROVE TypeOK'
  <2>1. local[p].next \in 1..8
    BY <1>7 DEF RunStep, TypeOK, TargetVersion
  <2>2. CASE ~Behind(p)
    BY <1>7, <2>2 DEF RunStep, Goto, TypeOK, Pcs, TargetVersion
  <2>3. CASE Behind(p) /\ Accepted(local[p].next)
    <3>1. ListAfter(local[p].next) \subseteq Kinds
      BY DEF ListAfter, Lists, Kinds, TypeOK
    <3>2. local[p].next \in 1..7
      BY <2>1, <2>3 DEF Behind, TargetVersion
    <3>3. /\ built' = built \cup {local[p].next} /\ admitted' = ListAfter(local[p].next)
          /\ pc' = [pc EXCEPT ![p] = "record"] /\ local' = local
          /\ UNCHANGED <<disk, version, tool, yaml, rows, edits, aborts>>
      BY <1>7, <2>3 DEF RunStep, Goto
    <3>. QED
      BY <3>1, <3>2, <3>3, <1>7 DEF RunStep, TypeOK, Pcs, TargetVersion
  <2>4. CASE Behind(p) /\ ~Accepted(local[p].next)
    BY <1>7, <2>4, TypesStop DEF RunStep, TypeOK, database
  <2>. QED
    BY <2>2, <2>3, <2>4
<1>8. ASSUME NEW p \in Procs, RecordVersion(p) PROVE TypeOK'
  <2>1. local[p].next \in 1..7 /\ local[p].tool \in Tools
    BY <1>8 DEF RecordVersion, TypeOK, TargetVersion
  <2>2. local' = [local EXCEPT ![p] = [local[p] EXCEPT !.next = local[p].next + 1]]
    BY <1>8 DEF RecordVersion
  <2>3. [local[p] EXCEPT !.next = local[p].next + 1] \in Locals
    BY <1>a, <2>1 DEF Locals, TargetVersion
  <2>4. local' \in [Procs -> Locals]
    BY <2>2, <2>3 DEF TypeOK
  <2>5. local'[p].next \in 2..8 /\ local'[p].tool = local[p].tool
    BY <1>a, <2>1, <2>2 DEF TypeOK, Locals
  <2>. QED
    BY <1>8, <2>1, <2>2, <2>4, <2>5 DEF RecordVersion, Goto, TypeOK, Pcs, TargetVersion
<1>9. ASSUME NEW p \in Procs, Snapshot(p) PROVE TypeOK'
  <2>1. [local[p] EXCEPT !.sha = disk, !.drift = (disk # yaml)] \in Locals
    BY <1>a DEF Locals, TypeOK
  <2>2. local' \in [Procs -> Locals] /\ local'[p].tool = local[p].tool
    BY <1>9, <1>a, <2>1 DEF Snapshot, TypeOK, Locals
  <2>. QED
    BY <1>9, <2>2 DEF Snapshot, Goto, TypeOK, Pcs, database
<1>10. ASSUME NEW p \in Procs, Finish(p) PROVE TypeOK'
  <2>1. local[p].tool \in Tools /\ local[p].sha \in Yamls \cup {None}
    BY <1>10, <1>a, LocalFields DEF Finish, TypeOK
  <2>2. NoLocal \in Locals
    BY DEF NoLocal, Fresh, Locals, TargetVersion
  <2>3. /\ tool' \in Released \cup {None} /\ yaml' \in Yamls \cup {None}
        /\ UNCHANGED <<disk, built, version, admitted, rows, edits, aborts>>
    BY <1>10, <2>1 DEF Finish, Acknowledge, TypeOK
  <2>4. \/ pc' = [pc EXCEPT ![p] = "idle"] /\ local' = [local EXCEPT ![p] = NoLocal]
        \/ pc' = [pc EXCEPT ![p] = "version"] /\ local' = local
    BY <1>10 DEF Finish, Stop, Goto
  <2>5. pc' \in [Procs -> Pcs] /\ local' \in [Procs -> Locals]
    BY <2>2, <2>4 DEF TypeOK, Pcs
  <2>. QED
    BY <2>1, <2>2, <2>3, <2>4, <2>5 DEF TypeOK
<1>11. ASSUME NEW p \in Procs, Gate(p) PROVE TypeOK'
  <2>1. CASE Boot(p)
    BY <2>1 DEF Boot, Goto, TypeOK, Pcs, database
  <2>2. CASE HashYaml(p)
    <3>1. [local[p] EXCEPT !.sha = disk] \in Locals
      BY <1>a DEF Locals, TypeOK
    <3>2. local' \in [Procs -> Locals] /\ local'[p].tool = local[p].tool
      BY <2>2, <3>1, <1>a DEF HashYaml, TypeOK, Locals
    <3>. QED
      BY <2>2, <3>2 DEF HashYaml, Goto, TypeOK, Pcs, database
  <2>3. CASE Stop(p) /\ UNCHANGED <<disk, database, edits, aborts>>
    BY <2>3, TypesStop DEF TypeOK
  <2>4. CASE /\ pc[p] # "idle" /\ UNCHANGED <<disk, database, local, edits, aborts>>
             /\ Goto(p, "tool") \/ Goto(p, "hash") \/ Goto(p, "work")
    BY <2>4 DEF Goto, TypeOK, Pcs, database
  <2>. QED
    BY <1>11, <2>1, <2>2, <2>3, <2>4 DEF Gate, CheckVersion, CheckTool, CheckYaml
<1>12. ASSUME NEW p \in Procs, Leave(p) PROVE TypeOK'
  BY <1>12, TypesStop DEF Leave, TypeOK
<1>13. ASSUME NEW p \in Procs, NEW k \in Kinds, Write(p, k) PROVE TypeOK'
  BY <1>13 DEF Write, TypeOK
<1>. QED
  BY <1>1, <1>2, <1>3, <1>4, <1>5, <1>6, <1>7, <1>8, <1>9, <1>10, <1>11, <1>12, <1>13
     DEF Next, Step, Upgrade

\* Every variable keeps its type.
THEOREM ChainTypes == Spec => []TypeOK
BY TypesInit, TypesNext, PTL DEF Spec

-----------------------------------------------------------------------------
(* The version is built *)

\* A command in the loop counts on from steps that are committed.
Counts(p) == /\ pc[p] = "step" => 1..(local[p].next - 1) \subseteq built
             /\ pc[p] = "record" => 1..local[p].next \subseteq built
BuiltInv == TypeOK /\ VersionIsBuilt /\ \A p \in Procs : Counts(p)

LEMMA BuiltInit == Init => BuiltInv
BY TypesInit DEF Init, BuiltInv, VersionIsBuilt, Counts

\* Steps are only ever added: what a waiting command counts on stays there.
LEMMA CountsStay ==
  ASSUME BuiltInv, NEW p \in Procs, pc'[p] = pc[p], local'[p] = local[p], built \subseteq built'
  PROVE  Counts(p)'
BY DEF BuiltInv, Counts

LEMMA BuiltNext == BuiltInv /\ [Next]_vars => BuiltInv'
<1>. SUFFICES ASSUME BuiltInv, [Next]_vars PROVE BuiltInv'
  OBVIOUS
<1>1. TypeOK /\ TypeOK'
  BY TypesNext DEF BuiltInv
<1>2. built \subseteq built'
  BY DEF Next, vars, database, Start, Abort, Edit, Step, Upgrade, Gate, Leave, Write, Reset,
         ReadVersion, RunStep, RecordVersion, Snapshot, Finish, Acknowledge, Boot, CheckVersion,
         CheckTool, HashYaml, CheckYaml
<1>3. CASE UNCHANGED vars
  BY <1>1, <1>2, <1>3, CountsStay DEF vars, database, BuiltInv, VersionIsBuilt
<1>4. ASSUME NEW y \in Yamls, Edit(y) PROVE BuiltInv'
  BY <1>1, <1>2, <1>4, CountsStay DEF Edit, database, BuiltInv, VersionIsBuilt
<1>5. ASSUME NEW p \in Procs,
             \/ Step(p) \/ Abort(p)
             \/ \E k \in Kinds : Write(p, k)
             \/ \E c \in {"upgrade", "other"}, t \in Tools : Start(p, c, t)
      PROVE  BuiltInv'
  <2>1. ASSUME NEW q \in Procs, q # p PROVE pc'[q] = pc[q] /\ local'[q] = local[q]
    BY <1>1, <1>5, <2>1
       DEF TypeOK, Start, Abort, Step, Upgrade, Gate, Leave, Write, Reset, ReadVersion, RunStep,
           RecordVersion, Snapshot, Finish, Boot, CheckVersion, CheckTool, HashYaml, CheckYaml,
           Stop, Goto
  <2>2. SUFFICES VersionIsBuilt' /\ Counts(p)'
    BY <1>1, <1>2, <2>1, CountsStay DEF BuiltInv
  <2>3. CASE RunStep(p)
    <3>1. local[p].next \in 1..8 /\ 1..(local[p].next - 1) \subseteq built
      BY <1>1, <2>3 DEF RunStep, TypeOK, TargetVersion, BuiltInv, Counts
    <3>2. ASSUME pc'[p] = "record"
          PROVE  local'[p].next = local[p].next /\ built' = built \cup {local[p].next}
      BY <1>1, <2>3, <3>2 DEF RunStep, Stop, Goto, TypeOK
    <3>3. pc'[p] # "step"
      BY <1>1, <2>3 DEF RunStep, Stop, Goto, TypeOK
    <3>. QED
      BY <1>2, <2>3, <3>1, <3>2, <3>3 DEF RunStep, BuiltInv, VersionIsBuilt, Counts
  <2>4. CASE RecordVersion(p)
    <3>1. 1..local[p].next \subseteq built /\ local[p].next \in 1..7
      BY <1>1, <2>4 DEF RecordVersion, BuiltInv, Counts, TypeOK, TargetVersion
    <3>2. version' = local[p].next /\ built' = built
      BY <2>4 DEF RecordVersion
    <3>3. local'[p].next = local[p].next + 1 /\ pc'[p] = "step"
      <4>1. local' = [local EXCEPT ![p] = [local[p] EXCEPT !.next = local[p].next + 1]]
        BY <2>4 DEF RecordVersion
      <4>. QED
        BY <1>1, <2>4, <4>1 DEF RecordVersion, Goto, TypeOK, Locals
    <3>4. (local[p].next + 1) - 1 = local[p].next
      BY <3>1
    <3>. QED
      BY <3>1, <3>2, <3>3, <3>4 DEF VersionIsBuilt, Counts
  <2>5. CASE ReadVersion(p)
    <3>1. version' = version /\ built' = built /\ pc'[p] = "step"
      BY <1>1, <2>5 DEF ReadVersion, Goto, database, TypeOK
    <3>2. local'[p].next = version + 1
      <4>1. local' = [local EXCEPT ![p] = [local[p] EXCEPT !.next = First]]
        BY <2>5 DEF ReadVersion
      <4>. QED
        BY <1>1, <4>1 DEF First, TypeOK, Locals
    <3>3. (version + 1) - 1 = version
      BY <1>1 DEF TypeOK, TargetVersion
    <3>. QED
      BY <3>1, <3>2, <3>3 DEF BuiltInv, VersionIsBuilt, Counts
  <2>6. CASE Reset(p)
    <3>1. pc'[p] \in {"chain", "idle"} /\ built' = built /\ (version' = 0 \/ version' = version)
      BY <1>1, <2>6 DEF Reset, Stop, Goto, TypeOK
    <3>. QED
      BY <3>1 DEF BuiltInv, VersionIsBuilt, Counts
  <2>7. CASE ~(RunStep(p) \/ RecordVersion(p) \/ ReadVersion(p) \/ Reset(p))
    <3>1. version' = version /\ built' = built
      BY <1>5, <2>7 DEF Start, Abort, Step, Upgrade, Gate, Leave, Write, Snapshot, Finish,
           Acknowledge, Boot, CheckVersion, CheckTool, HashYaml, CheckYaml, database
    <3>2. pc'[p] \notin {"step", "record"}
      BY <1>1, <1>5, <2>7 DEF TypeOK, Start, Abort, Step, Upgrade, Gate, Leave, Write, Snapshot,
           Finish, Boot, CheckVersion, CheckTool, HashYaml, CheckYaml, Stop, Goto
    <3>. QED
      BY <3>1, <3>2 DEF BuiltInv, VersionIsBuilt, Counts
  <2>. QED
    BY <2>3, <2>4, <2>5, <2>6, <2>7
<1>. QED
  BY <1>3, <1>4, <1>5 DEF Next

\* The version recorded never claims a step that was not committed, for any
\* number of commands, with crashes and --force.
THEOREM VersionStaysBuilt == Spec => []VersionIsBuilt
<1>1. BuiltInv => VersionIsBuilt
  BY DEF BuiltInv
<1>2. QED
  BY <1>1, BuiltInit, BuiltNext, PTL DEF Spec

-----------------------------------------------------------------------------
(* One command at a time, without --force *)

OnePlainCommand == Forcing = FALSE /\ \A p, q \in Procs : p = q

\* What the command at each of its statements may rely on.
Relies(p) == /\ pc[p] # "reset"
             /\ pc[p] \in {"step", "record"} => local[p].next = version + 1
             /\ pc[p] \in {"tool", "hash", "yaml", "work"} => version = TargetVersion
             /\ pc[p] \in {"hash", "yaml", "work"} => tool = local[p].tool
             /\ pc[p] = "work" => yaml = local[p].sha

\* Steps run at most one ahead of the version, the last one leaves the full
\* list, and no row is newer than the version.
PlainInv == /\ BuiltInv
            /\ built \subseteq 1..(version + 1)
            /\ 7 \in built => admitted = Kinds
            /\ rows \subseteq Lists(version)
            /\ \A p \in Procs : Relies(p)

\* A later list admits what an earlier one did.
LEMMA ListsGrow ==
  ASSUME NEW v \in Int, NEW w \in Int, v <= w
  PROVE  Lists(v) \subseteq Lists(w)
BY DEF Lists

LEMMA LastList == Lists(7) = Kinds
BY DEF Lists, Kinds

LEMMA PlainInit == Init => PlainInv
<1>. SUFFICES ASSUME Init PROVE PlainInv
  OBVIOUS
<1>1. version \in 0..7 /\ built = 1..version
  BY DEF Init, TargetVersion
<1>2. rows \subseteq Lists(version)
  BY DEF Init, Lists
<1>3. 7 \in built => admitted = Kinds
  <2>1. 7 \in built => version = 7
    BY <1>1
  <2>. QED
    BY <2>1, LastList DEF Init
<1>4. built \subseteq 1..(version + 1)
  BY <1>1
<1>. QED
  BY <1>2, <1>3, <1>4, BuiltInit DEF Init, PlainInv, Relies

LEMMA PlainNext ==
  ASSUME OnePlainCommand
  PROVE  PlainInv /\ [Next]_vars => PlainInv'
<1>. SUFFICES ASSUME PlainInv, [Next]_vars PROVE PlainInv'
  OBVIOUS
<1>1. TypeOK /\ BuiltInv /\ BuiltInv'
  BY BuiltNext DEF PlainInv, BuiltInv
<1>2. version \in 0..7 /\ version \in Int
  BY <1>1 DEF TypeOK, TargetVersion
<1>3. CASE UNCHANGED vars
  BY <1>1, <1>3 DEF vars, database, PlainInv, Relies
<1>4. ASSUME NEW y \in Yamls, Edit(y) PROVE PlainInv'
  BY <1>1, <1>4 DEF Edit, database, PlainInv, Relies
<1>5. ASSUME NEW p \in Procs,
             \/ Step(p) \/ Abort(p)
             \/ \E k \in Kinds : Write(p, k)
             \/ \E c \in {"upgrade", "other"}, t \in Tools : Start(p, c, t)
      PROVE  PlainInv'
  <2>1. \A q \in Procs : q = p
    BY DEF OnePlainCommand
  <2>2. SUFFICES /\ built' \subseteq 1..(version' + 1)
                 /\ 7 \in built' => admitted' = Kinds
                 /\ rows' \subseteq Lists(version)'
                 /\ Relies(p)'
    BY <1>1, <2>1 DEF PlainInv
  <2>3. CASE RunStep(p)
    <3>1. local[p].next = version + 1
      BY <2>3 DEF RunStep, PlainInv, Relies
    <3>2. version' = version /\ rows' = rows
      BY <2>3 DEF RunStep
    <3>3. \/ built' = built /\ admitted' = admitted
          \/ built' = built \cup {version + 1} /\ admitted' = ListAfter(version + 1)
      BY <2>3, <3>1 DEF RunStep
    <3>4. pc'[p] \in {"idle", "snapshot"} \/ (pc'[p] = "record" /\ local' = local)
      BY <1>1, <2>3 DEF RunStep, Stop, Goto, TypeOK
    <3>5. built' \subseteq 1..(version + 1)
      <4>1. version + 1 \in 1..(version + 1) /\ built \subseteq 1..(version + 1)
        BY <1>2 DEF PlainInv
      <4>2. built' = built \/ built' = built \cup {version + 1}
        BY <3>3
      <4>. QED
        BY <4>1, <4>2
    <3>6. ASSUME 7 \in built' PROVE admitted' = Kinds
      <4>1. CASE built' = built /\ admitted' = admitted
        BY <3>6, <4>1 DEF PlainInv
      <4>2. CASE built' = built \cup {version + 1} /\ admitted' = ListAfter(version + 1)
        <5>1. CASE version = 6
          BY <4>2, <5>1, LastList DEF ListAfter, WritesList
        <5>2. CASE version = 7
          <6>1. ListAfter(8) = admitted
            BY DEF ListAfter, WritesList
          <6>. QED
            BY <1>1, <4>2, <5>2, <6>1 DEF PlainInv, BuiltInv, VersionIsBuilt
        <5>3. CASE version < 6
          BY <1>2, <3>5, <3>6, <5>3
        <5>. QED
          BY <1>2, <5>1, <5>2, <5>3
      <4>. QED
        BY <3>3, <4>1, <4>2
    <3>. QED
      BY <3>1, <3>2, <3>4, <3>5, <3>6 DEF PlainInv, Relies
  <2>4. CASE RecordVersion(p)
    <3>1. version' = version + 1 /\ built' = built /\ admitted' = admitted /\ rows' = rows
      BY <2>4 DEF RecordVersion, PlainInv, Relies
    <3>2. local'[p].next = (version + 1) + 1 /\ pc'[p] = "step"
      <4>1. local' = [local EXCEPT ![p] = [local[p] EXCEPT !.next = local[p].next + 1]]
        BY <2>4 DEF RecordVersion
      <4>2. local[p].next = version + 1
        BY <2>4 DEF RecordVersion, PlainInv, Relies
      <4>. QED
        BY <1>1, <2>4, <4>1, <4>2 DEF RecordVersion, Goto, TypeOK, Locals
    <3>3. rows' \subseteq Lists(version + 1)
      BY <1>2, <3>1, ListsGrow DEF PlainInv
    <3>4. built' \subseteq 1..(version' + 1)
      BY <1>2, <3>1 DEF PlainInv
    <3>. QED
      BY <3>1, <3>2, <3>3, <3>4 DEF PlainInv, Relies
  <2>5. CASE ReadVersion(p)
    <3>1. UNCHANGED database /\ pc'[p] = "step"
      BY <1>1, <2>5 DEF ReadVersion, Goto, TypeOK
    <3>2. local'[p].next = version + 1
      <4>1. local' = [local EXCEPT ![p] = [local[p] EXCEPT !.next = First]]
        BY <2>5 DEF ReadVersion
      <4>. QED
        BY <1>1, <4>1 DEF First, TypeOK, Locals
    <3>. QED
      BY <3>1, <3>2 DEF PlainInv, Relies, database
  <2>6. CASE \E k \in Kinds : Write(p, k)
    <3>1. PICK k \in Kinds : Write(p, k)
      BY <2>6
    <3>2. version = 7 /\ rows' \subseteq Kinds
      BY <1>1, <3>1 DEF Write, PlainInv, Relies, TypeOK, TargetVersion
    <3>3. rows' \subseteq Lists(version)'
      BY <3>1, <3>2, LastList DEF Write
    <3>. QED
      BY <1>1, <3>1, <3>3 DEF Write, PlainInv, Relies
  <2>7. CASE Finish(p)
    BY <1>1, <2>7 DEF Finish, Acknowledge, Stop, Goto, PlainInv, Relies, TypeOK
  <2>8. CASE HashYaml(p)
    <3>1. local' = [local EXCEPT ![p] = [local[p] EXCEPT !.sha = disk]]
      BY <2>8 DEF HashYaml
    <3>2. local'[p].tool = local[p].tool /\ pc'[p] = "yaml" /\ pc[p] = "hash"
      BY <1>1, <2>8, <3>1 DEF HashYaml, Goto, TypeOK, Locals
    <3>. QED
      BY <2>8, <3>2 DEF HashYaml, database, PlainInv, Relies
  <2>9. CASE CheckVersion(p) \/ CheckTool(p) \/ CheckYaml(p) \/ Boot(p)
    BY <1>1, <2>9 DEF CheckVersion, CheckTool, CheckYaml, Boot, Aligned, Stop, Goto, database,
         PlainInv, Relies, TypeOK
  <2>10. CASE Abort(p) \/ Leave(p) \/ Snapshot(p)
    BY <1>1, <2>10 DEF Abort, Leave, Snapshot, Stop, Goto, database, PlainInv, Relies, TypeOK
  <2>11. CASE Reset(p)
    BY <2>11 DEF Reset, PlainInv, Relies
  <2>12. CASE \E c \in {"upgrade", "other"}, t \in Tools : Start(p, c, t)
    BY <1>1, <2>12 DEF Start, Goto, OnePlainCommand, database, PlainInv, Relies, TypeOK
  <2>. QED
    BY <1>5, <2>3, <2>4, <2>5, <2>6, <2>7, <2>8, <2>9, <2>10, <2>11, <2>12
       DEF Step, Upgrade, Gate
<1>. QED
  BY <1>3, <1>4, <1>5 DEF Next

\* No row is newer than the version, so no list a step still has to write
\* refuses one.
LEMMA PlainLeft == PlainInv => Upgradable
<1>. SUFFICES ASSUME PlainInv, NEW v \in (version + 1)..TargetVersion PROVE rows \subseteq Lists(v)
  BY DEF Upgradable
<1>1. version \in Int /\ v \in Int /\ version <= v
  BY DEF PlainInv, BuiltInv, TypeOK, TargetVersion
<1>. QED
  BY <1>1, ListsGrow DEF PlainInv

\* With one command at a time and without --force, a plain upgrade can always
\* take the database to the target version.
THEOREM AlwaysUpgradable ==
  ASSUME OnePlainCommand
  PROVE  Spec => []Upgradable
<1>1. PlainInv /\ [Next]_vars => PlainInv'
  BY PlainNext
<1>2. QED
  BY <1>1, PlainInit, PlainLeft, PTL DEF Spec

\* With one command at a time and without --force, a command behind the gate
\* works on the schema, the tool and the migrate.yml that were acknowledged.
THEOREM AlwaysAligned ==
  ASSUME OnePlainCommand
  PROVE  Spec => []WorksAligned
<1>1. PlainInv => WorksAligned
  <2>. SUFFICES ASSUME PlainInv, NEW p \in Procs, pc[p] = "work"
                PROVE  /\ version = TargetVersion /\ tool = local[p].tool
                       /\ yaml = local[p].sha /\ admitted = Kinds
    BY DEF WorksAligned
  <2>1. version = TargetVersion /\ tool = local[p].tool /\ yaml = local[p].sha
    BY DEF PlainInv, Relies
  <2>2. 7 \in built
    BY <2>1 DEF PlainInv, BuiltInv, VersionIsBuilt, TargetVersion
  <2>. QED
    BY <2>1, <2>2 DEF PlainInv
<1>2. PlainInv /\ [Next]_vars => PlainInv'
  BY PlainNext
<1>3. QED
  BY <1>1, <1>2, PlainInit, PTL DEF Spec
===============================================================================
