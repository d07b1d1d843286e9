--------------------------------- MODULE Destroy ---------------------------------
(***************************************************************************)
(* destroy: dropping from the live database what the tree creates.         *)
(*                                                                         *)
(* The tree is built into a throwaway database, whose inventory is the     *)
(* plan: declared schemas other than public as a whole, objects of public  *)
(* one by one, extensions on request, and always the ledger. The plan is   *)
(* printed and confirmed, then executed in one transaction. Between the    *)
(* build, the list of what extensions own, the confirmation and the drops  *)
(* others create and drop objects.                                         *)
(*                                                                         *)
(* The inventory names a materialized view a view and a procedure a        *)
(* function; a DROP that names the wrong kind is refused, and so is one of *)
(* an object an extension owns. Every DROP takes what depends on it along. *)
(***************************************************************************)
EXTENDS Integers, Sequences, FiniteSets, SequencesExt, Listing

CONSTANTS DbObjects,      \* objects, numbered in the order of their identity
          KindOf,         \* [DbObjects -> kind]
          SchemaOf,       \* [DbObjects -> schema]
          NeedsOf,        \* [DbObjects -> SUBSET DbObjects]: what an object depends on
          OwnerOf,        \* [DbObjects -> the extension that creates it, or NoOwner]
          NoOwner,
          Declared,       \* schemas the steps declare, in order
          Creates,        \* what the tree creates
          MaxDestroys,    \* bound: destroy commands
          MaxEvents       \* bound: objects others create or drop, failures

Public(o) == SchemaOf[o] = "public"
Extensions == {o \in DbObjects : KindOf[o] = "extension"}

\* The kinds the inventory lists: a partitioned table, a domain or an aggregate is not
\* seen.
Inventoried == {"view", "matview", "table", "sequence", "function", "procedure", "type", "enum",
                "extension"}

\* What an object cannot be there without.
Under(o) == NeedsOf[o] \cup (IF OwnerOf[o] = NoOwner THEN {} ELSE {OwnerOf[o]})
Whole(S) == \A o \in S : Under(o) \subseteq S

ASSUME DestroyAssumption ==
  /\ DbObjects \subseteq Nat /\ IsFiniteSet(DbObjects)
  /\ \A o \in DbObjects : Under(o) \subseteq DbObjects
  /\ NoOwner \notin DbObjects
  /\ Creates \subseteq DbObjects /\ Whole(Creates)
  /\ Declared \in Seq(STRING)
  /\ MaxDestroys \in Nat /\ MaxEvents \in Nat

VARIABLES
  live,        \* the objects of the live database
  hasLedger,   \* whether it has the schema samna_migrate
  built,       \* the objects of the throwaway database
  complete,    \* no file failed in the build
  plan,        \* the drops, in order
  doing,       \* what the command does next
  opts,        \* its flags: dry run, extensions
  gone,        \* dropped in the transaction that is open
  destroys, events,       \* how much of the bounds is used
  late         \* created by others while the drops run; not seen by the code

destroyVars == <<live, hasLedger, built, complete, plan, doing, opts, gone, destroys, events, late>>

\* S in P with all that depends on it: the least set with what stands on a member.
Cascade(S, P) ==
  LET above == {(S \cap P) \cup Y : Y \in SUBSET (P \ S)}
      closed == {X \in above : \A p \in P \ X : Under(p) \cap X = {}}
  IN  {o \in P : \A X \in closed : o \in X}

-----------------------------------------------------------------------------
(* The plan *)

\* The word the inventory has for an object.
Label(o) == CASE KindOf[o] = "matview" -> "view"
              [] KindOf[o] = "procedure" -> "function"
              [] OTHER -> KindOf[o]

FaultyDropOrder == [view |-> 0, table |-> 1, function |-> 3, type |-> 4, enum |-> 4]
dropOrder == [view |-> 0, table |-> 1, sequence |-> 2, function |-> 3, type |-> 4, enum |-> 4]

\* The list of what extensions own covers functions and types only.
ExtensionOwned(P) ==
  {o \in P : OwnerOf[o] # NoOwner /\ Label(o) \in {"function", "type"}}

\* Every declared schema but public; public is never dropped as a whole.
PlanSchemas ==
  LET kept == Ascending({i \in DOMAIN Declared : Declared[i] # "public"})
  IN  [j \in DOMAIN kept |-> Declared[kept[j]]]

\* The objects of public to drop, when public is declared.
PlanObjects(P) ==
  {o \in P : Public(o) /\ Label(o) \in DOMAIN dropOrder /\ "public" \in Range(Declared)}

InOrder(S) ==
  Listed(S, {e \in S \X S :
    \/ dropOrder[Label(e[1])] < dropOrder[Label(e[2])]
    \/ dropOrder[Label(e[1])] = dropOrder[Label(e[2])] /\ e[1] < e[2]})

Drop(what, S) == [i \in 1..Len(S) |-> [what |-> what, of |-> S[i]]]

\* The extensions the tree created; the inventory lists those in a declared schema.
PlanExtensions(P) == {o \in P \cap Extensions : SchemaOf[o] \in Range(Declared)}

\* PlanDrop of an inventory, the objects extensions own in the live database left
\* out, and on request the extensions.
PlanDrop(P, owned, extensions) ==
  Drop("schema", PlanSchemas)
  \o Drop("object", InOrder(PlanObjects(P) \ owned))
  \o (IF extensions THEN Drop("extension", Ascending(PlanExtensions(P))) ELSE <<>>)

-----------------------------------------------------------------------------
(* The command *)

DestroyInit ==
  /\ live \in {S \in SUBSET DbObjects : Whole(S)}
  /\ hasLedger \in BOOLEAN
  /\ built = {} /\ complete = FALSE /\ plan = <<>> /\ gone = {}
  /\ doing = "idle" /\ opts = [dry |-> FALSE, extensions |-> FALSE]
  /\ destroys = 0 /\ events = 0 /\ late = {}

Leave == doing' = "idle" /\ plan' = <<>> /\ gone' = {}

\* Files that fail are warned about and the build goes on: what they create, and
\* what needs that, is missing from the inventory.
Build(dry, extensions, failed) ==
  /\ doing = "idle" /\ destroys < MaxDestroys
  /\ destroys' = destroys + 1
  /\ opts' = [dry |-> dry, extensions |-> extensions]
  /\ built' = Creates \ Cascade(failed, Creates)
  /\ complete' = (failed = {})
  /\ doing' = "plan"
  /\ UNCHANGED <<live, hasLedger, plan, gone, events, late>>

\* The plan. An empty one ends the command, and the ledger stays.
MakePlan ==
  /\ doing = "plan"
  /\ LET drops == PlanDrop(built, ExtensionOwned(live), opts.extensions) IN
       IF drops = <<>> \/ opts.dry THEN Leave
       ELSE plan' = drops /\ doing' = "confirm" /\ UNCHANGED gone
  /\ UNCHANGED <<live, hasLedger, built, complete, opts, destroys, events, late>>

Confirm ==
  /\ doing = "confirm" /\ doing' = "drop" /\ late' = {}
  /\ UNCHANGED <<live, hasLedger, built, complete, plan, opts, gone, destroys, events>>

\* What a drop names, among P.
Named(d, P) == IF d.what = "schema" THEN {o \in P : SchemaOf[o] = d.of} ELSE {d.of} \cap P

\* A drop of a single object is refused when its kind is another one, or when an
\* extension owns it.
Refused(d) ==
  d.what = "object" /\ d.of \in live \ gone /\ (Label(d.of) # KindOf[d.of] \/ OwnerOf[d.of] # NoOwner)

FaultyShows(P, S) == live' = P \ S                          \* each drop on its own

\* Nothing of the transaction shows before its end.
Shows(P, S) == UNCHANGED live

\* The next statement: a drop, or the end of the command when it fails.
DropNext ==
  /\ doing = "drop" /\ plan # <<>>
  /\ IF Refused(Head(plan)) THEN Leave /\ UNCHANGED live
     ELSE /\ gone' = gone \cup Cascade(Named(Head(plan), live \ gone), live \ gone)
          /\ Shows(live, gone')
          /\ plan' = Tail(plan) /\ UNCHANGED doing
  /\ UNCHANGED <<hasLedger, built, complete, opts, destroys, events, late>>

\* The ledger is dropped last, and the transaction commits.
DropLedger ==
  /\ doing = "drop" /\ plan = <<>>
  /\ live' = live \ gone
  /\ hasLedger' = FALSE
  /\ Leave
  /\ UNCHANGED <<built, complete, opts, destroys, events, late>>

\* A refusal of the prompt, a failing statement, a crash: the transaction is undone.
DestroyDies ==
  /\ doing # "idle" /\ events < MaxEvents
  /\ events' = events + 1
  /\ Leave
  /\ UNCHANGED <<live, hasLedger, built, complete, opts, destroys, late>>

\* Others create and drop objects; what an open transaction has dropped is locked.
Others(o) ==
  /\ events < MaxEvents /\ events' = events + 1
  /\ \/ o \notin live /\ Under(o) \subseteq live \ gone /\ live' = live \cup {o}
     \/ /\ o \in live
        /\ LET falls == Cascade({o}, live) IN falls \cap gone = {} /\ live' = live \ falls
  /\ late' = late \cup (live' \ live)
  /\ UNCHANGED <<hasLedger, built, complete, plan, doing, opts, gone, destroys>>

DestroyNext ==
  \/ \E dry, extensions \in BOOLEAN, failed \in SUBSET Creates : Build(dry, extensions, failed)
  \/ MakePlan \/ Confirm \/ DropNext \/ DropLedger \/ DestroyDies
  \/ \E o \in DbObjects : Others(o)

DestroySpec == DestroyInit /\ [][DestroyNext]_destroyVars

-----------------------------------------------------------------------------
(* Properties *)

\* A destroy is all or nothing: its only step that changes the database drops the
\* ledger with the rest, whatever statement fails, of a materialized view, a
\* procedure or an object an extension owns, and whoever changes what meanwhile.
DestroyIsWhole ==
  [][doing' # doing \/ plan' # plan =>
       \/ UNCHANGED <<live, hasLedger>>
       \/ doing = "drop" /\ plan = <<>> /\ ~hasLedger' /\ live' \cap gone = {}]_destroyVars

\* After a destroy nothing the tree creates is left, when its build was complete, in
\* the declared schemas and in public, but what is of a kind the inventory does not
\* list, what belongs to an extension that stays and what others create meanwhile.
\* Of public something the tree does not create goes only with an object it depends
\* on. That is less than README.md:51 promises, which is that such objects are left
\* untouched: a view of someone else on a table of the tree is lost to the CASCADE.
DropsTheTree ==
  [][doing = "drop" /\ plan = <<>> /\ doing' = "idle" /\ events' = events =>
       /\ complete => \A o \in (Creates \cap live') \ late :
                        \/ SchemaOf[o] \notin Range(Declared)
                        \/ KindOf[o] \notin Inventoried
                        \/ OwnerOf[o] # NoOwner
                        \/ o \in Extensions /\ ~opts.extensions
       /\ \A o \in live \ live' :
            Public(o) /\ o \notin Creates => Under(o) \cap (live \ live') # {}]_destroyVars
=============================================================================
