---------------------------------- MODULE Gate ----------------------------------
(***************************************************************************)
(* The requirements gate of up: what the SQL of the tree needs the target  *)
(* to provide is collected from the statements, looked up in the target    *)
(* and recorded, before anything runs. Collecting, the three lookups and   *)
(* the record of each requirement are separate; the target and the tree    *)
(* may change and other commands may record in between.                    *)
(*                                                                         *)
(* The order of the lookups is that of a map, so any. A statement counts   *)
(* by the one object it makes or needs; how it is recognised in the text   *)
(* is left out. A tree is the sequence of the statements of its active     *)
(* steps.                                                                  *)
(***************************************************************************)
EXTENDS Integers, Sequences, FiniteSets, SequencesExt

CONSTANTS Gates,        \* the commands that may be at the gate at the same time
          Objects,      \* pairs of a kind (extension, language, role) and a name
          Builtin,      \* builtinLanguages, builtinRoles and the roles called pg_...
          SqlTrees,     \* what the tree may consist of: sequences of statements
          MaxGates,     \* bound: commands started
          MaxShifts     \* bound: changes of the target and of the tree

Kinds == {"extension", "language", "role"}

\* A statement: CREATE EXTENSION, which needs and makes; a routine or a grant,
\* a revoke, a change of owner, which need; CREATE LANGUAGE and CREATE ROLE.
Statements == [does : {"makes", "needs"}, object : Objects]

ASSUME GateAssumption ==
  /\ \A o \in Objects : o.kind \in Kinds
  /\ Builtin \subseteq Objects
  /\ SqlTrees \subseteq Seq(Statements)
  /\ MaxGates \in Nat /\ MaxShifts \in Nat

VARIABLES
  sql,         \* the statements on disk
  provides,    \* the objects the target provides
  recorded,    \* samna_migrate.requirement
  gate,        \* gate[p]: what the command at the gate does next
  found,       \* found[p]: its locals: requirements, lookups left, missing, added
  gates, shifts,          \* how much of the bounds is used
  reported, died,         \* requirements that were reported, that died unreported
  untouched,   \* commands since whose scan nothing changed; not seen by the code
  met          \* requirements a lookup found; not seen by the code

gateVars == <<sql, provides, recorded, gate, found, gates, shifts, reported, died, untouched, met>>

NoFinds == [reqs |-> {}, kinds |-> {}, missing |-> {}, todo |-> {}, added |-> {}]

-----------------------------------------------------------------------------
(* What a tree needs *)

Made(s) == {s[i].object : i \in {j \in 1..Len(s) : s[j].does = "makes"}}
Needed(s) == {s[i].object : i \in {j \in 1..Len(s) : s[j].does = "needs"}}
IsExtension(o) == o.kind = "extension"

\* Provided by the tree itself: the languages and roles it makes, and for every
\* extension a language of its name.
ProvidedByTree(s) ==
  {o \in Made(s) : ~IsExtension(o)}
  \cup {[kind |-> "language", name |-> o.name] : o \in {x \in Made(s) : IsExtension(x)}}

FaultyRequirements(s) == Needed(s) \ (Builtin \cup ProvidedByTree(s))  \* extensions forgotten

\* Every extension, and what is needed, not built in and not provided by the tree.
Requirements(s) ==
  {o \in Made(s) : IsExtension(o)} \cup (Needed(s) \ (Builtin \cup ProvidedByTree(s)))

GateInit ==
  /\ sql \in SqlTrees
  /\ provides \in SUBSET Objects
  /\ Builtin \subseteq provides
  /\ recorded = {} /\ reported = {} /\ died = {} /\ untouched = {} /\ met = {}
  /\ gate = [p \in Gates |-> "idle"]
  /\ found = [p \in Gates |-> NoFinds]
  /\ gates = 0 /\ shifts = 0

GoOn(p, l) == gate' = [gate EXCEPT ![p] = l]
Know(p, f) == found' = [found EXCEPT ![p] = f]

-----------------------------------------------------------------------------
(* The gate *)

\* Scan of the tree. The files are read one after the other; that the tree changes
\* while they are read is left out.
Collect(p) ==
  /\ gate[p] \in {"idle", "passed", "stopped"} /\ gates < MaxGates
  /\ gates' = gates + 1
  /\ Know(p, [NoFinds EXCEPT !.reqs = Requirements(sql),
                             !.kinds = {o.kind : o \in Requirements(sql)}])
  /\ GoOn(p, "verify")
  /\ untouched' = untouched \cup {p}
  /\ UNCHANGED <<sql, provides, recorded, shifts, reported, died, met>>

\* Those of one kind that the target lacks.
Lacking(S) == S \ provides

\* One query per kind that is required.
Verify(p, k) ==
  /\ gate[p] = "verify" /\ k \in found[p].kinds
  /\ LET asked == {o \in found[p].reqs : o.kind = k} IN
       /\ Know(p, [found[p] EXCEPT !.kinds = @ \ {k}, !.missing = @ \cup Lacking(asked)])
       /\ met' = met \cup (asked \cap provides)
  /\ UNCHANGED <<sql, provides, recorded, gate, gates, shifts, reported, died, untouched>>

\* A requirement that is missing stops the deploy, before anything is recorded.
Decide(p) ==
  /\ gate[p] = "verify" /\ found[p].kinds = {}
  /\ IF found[p].missing # {} THEN GoOn(p, "stopped") /\ UNCHANGED found
     ELSE GoOn(p, "record") /\ Know(p, [found[p] EXCEPT !.todo = found[p].reqs])
  /\ UNCHANGED <<sql, provides, recorded, gates, shifts, reported, died, untouched, met>>

FaultyInserted(o) == FALSE

\* The upsert tells whether it inserted.
Inserted(o) == o \notin recorded

\* Each requirement is recorded in a statement of its own.
Record(p, o) ==
  /\ gate[p] = "record" /\ o \in found[p].todo
  /\ recorded' = recorded \cup {o}
  /\ Know(p, [found[p] EXCEPT !.todo = @ \ {o},
                              !.added = IF Inserted(o) THEN @ \cup {o} ELSE @])
  /\ UNCHANGED <<sql, provides, gate, gates, shifts, reported, died, untouched, met>>

Report(p) ==
  /\ gate[p] = "record" /\ found[p].todo = {}
  /\ reported' = reported \cup found[p].added
  /\ GoOn(p, "passed")
  /\ Know(p, [found[p] EXCEPT !.added = {}])
  /\ UNCHANGED <<sql, provides, recorded, gates, shifts, died, untouched, met>>

\* The command dies or a statement fails: what it has recorded stays, unreported.
GateDies(p) ==
  /\ gate[p] \in {"verify", "record"} /\ shifts < MaxShifts
  /\ shifts' = shifts + 1
  /\ died' = died \cup found[p].added
  /\ GoOn(p, "idle") /\ Know(p, NoFinds)
  /\ UNCHANGED <<sql, provides, recorded, gates, reported, untouched, met>>

\* The target changes, or the tree does.
TargetShifts(o) ==
  /\ shifts < MaxShifts /\ o \notin Builtin
  /\ shifts' = shifts + 1
  /\ provides' = IF o \in provides THEN provides \ {o} ELSE provides \cup {o}
  /\ untouched' = {}
  /\ UNCHANGED <<sql, recorded, gate, found, gates, reported, died, met>>

TreeShifts(s) ==
  /\ shifts < MaxShifts /\ s # sql
  /\ shifts' = shifts + 1
  /\ sql' = s
  /\ untouched' = {}
  /\ UNCHANGED <<provides, recorded, gate, found, gates, reported, died, met>>

GateNext ==
  \/ \E p \in Gates :
       \/ Collect(p) \/ Decide(p) \/ Report(p) \/ GateDies(p)
       \/ \E k \in Kinds : Verify(p, k)
       \/ \E o \in Objects : Record(p, o)
  \/ \E o \in Objects : TargetShifts(o)
  \/ \E s \in SqlTrees : TreeShifts(s)

GateSpec == GateInit /\ [][GateNext]_gateVars

-----------------------------------------------------------------------------
(* Properties *)

\* What the database has before statement i of s, on a target that provides P: an
\* extension brings the language of its name.
Has(s, i, P) ==
  LET done == SubSeq(s, 1, i - 1) IN
    P \cup Made(done)
    \cup {[kind |-> "language", name |-> o.name] : o \in {x \in Made(done) : IsExtension(x)}}

\* The statements of s all run on a target that provides P: an extension can be
\* made only when it is available, anything that is needed must be there.
RunsOn(s, P) ==
  \A i \in 1..Len(s) :
    /\ s[i].does = "needs" => s[i].object \in Has(s, i, P)
    /\ s[i].does = "makes" /\ IsExtension(s[i].object) => s[i].object \in P

\* The tree makes what it needs before it needs it, as far as it makes it.
MakesFirst(s) ==
  \A i, j \in 1..Len(s) :
    s[i].does = "needs" /\ s[i].object \in Has(s, Len(s) + 1, {})
      => s[i].object \in Has(s, i, {})

\* The gate lets a deploy through only when its statements will run, and stops only
\* one whose statements would not: no other object is missing on the way, as long
\* as the tree makes things before it uses them and nothing changes meanwhile.
GateDecides ==
  \A p \in untouched :
    /\ gate[p] = "passed" /\ MakesFirst(sql) => RunsOn(sql, provides)
    /\ gate[p] = "stopped" => ~RunsOn(sql, provides)

\* What is on record was seen in a target, so that a deploy that is stopped leaves no
\* requirement behind, and was reported by the command that put it there, unless
\* that one died on the way: two that record the same at once hide nothing.
RecordIsTrue ==
  /\ recorded \subseteq met
  /\ recorded \subseteq reported \cup died \cup UNION {found[p].added : p \in Gates}
=============================================================================
