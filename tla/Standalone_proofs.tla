--------------------------- MODULE Standalone_proofs ---------------------------
(***************************************************************************)
(* What the components that stand alone promise: Gate, Proof, DataFiles    *)
(* and Destroy, for any number of commands, files, tables and objects.     *)
(*                                                                         *)
(* The record of the gate is true because what is left to record was found *)
(* by a lookup, and what was inserted is in the hands of the command that  *)
(* inserted it until it reports or dies. The gate decides right because    *)
(* the requirements are, statement by statement, what a target must        *)
(* provide for the tree to run (two lemmas about the scan), and the        *)
(* lookups of a command during which nothing changed answer for them.      *)
(*                                                                         *)
(* The proof of a tree carries its verdict through ten statements while    *)
(* trees and database may change: SeenOK, CandidateOK and VerdictOK say    *)
(* what is true of it at each. The load carries its file and the triggers  *)
(* of the table from one statement to the next (LoadOK), and what it has   *)
(* passed has the rows of its file (RestoredOK). While destroy drops, what *)
(* no drop that is left names is gone, or was not there (DropsOK), and     *)
(* what is gone of public stands on something that goes (GoneOK).          *)
(***************************************************************************)
EXTENDS Gate, Proof, DataFiles, Destroy, Listing_proofs, SequenceTheorems, TLAPS

-----------------------------------------------------------------------------
(* Gate: the scan *)

\* Requirements are objects.
LEMMA RequirementsType ==
  ASSUME NEW s \in SqlTrees
  PROVE  Requirements(s) \subseteq Objects
<1>1. s \in Seq(Statements)
  BY GateAssumption
<1>2. \A i \in 1..Len(s) : s[i] \in Statements
  BY <1>1
<1>3. Made(s) \subseteq Objects /\ Needed(s) \subseteq Objects
  BY <1>2 DEF Made, Needed, Statements
<1>. QED
  BY <1>3 DEF Requirements

\* What a prefix of a tree makes, the tree makes.
LEMMA MadeBefore ==
  ASSUME NEW s \in SqlTrees, NEW i \in 1..Len(s)
  PROVE  Made(SubSeq(s, 1, i - 1)) \subseteq Made(s)
<1>1. s \in Seq(Statements)
  BY GateAssumption
<1>2. Len(SubSeq(s, 1, i - 1)) = i - 1 /\ \A j \in 1..(i - 1) : SubSeq(s, 1, i - 1)[j] = s[j]
  BY <1>1, SubSeqProperties
<1>3. i - 1 \in Nat /\ i - 1 <= Len(s) /\ Len(s) \in Nat
  BY <1>1
<1>. QED
  BY <1>2, <1>3 DEF Made

\* All that a tree makes is there after its last statement.
LEMMA HasAll ==
  ASSUME NEW s \in SqlTrees
  PROVE  ProvidedByTree(s) \subseteq Has(s, Len(s) + 1, {})
<1>1. s \in Seq(Statements) /\ Len(s) \in Nat
  BY GateAssumption
<1>2. SubSeq(s, 1, (Len(s) + 1) - 1) = s
  <2>1. (Len(s) + 1) - 1 = Len(s)
    BY <1>1
  <2>2. SubSeq(s, 1, Len(s)) = s
    BY <1>1, SubSeqFull
  <2>. QED
    BY <2>1, <2>2
<1>. QED
  BY <1>2 DEF ProvidedByTree, Has

\* A target that provides what is built in and all that is required runs a tree that
\* makes things before it uses them.
LEMMA EnoughToRun ==
  ASSUME NEW s \in SqlTrees, NEW P, Builtin \subseteq P, Requirements(s) \subseteq P,
         MakesFirst(s)
  PROVE  RunsOn(s, P)
<1>1. ASSUME NEW i \in 1..Len(s), s[i].does = "needs"
      PROVE  s[i].object \in Has(s, i, P)
  <2>1. s[i].object \in Needed(s)
    BY <1>1 DEF Needed
  <2>2. CASE s[i].object \in Builtin
    BY <2>2 DEF Has
  <2>3. CASE s[i].object \in ProvidedByTree(s)
    <3>1. s[i].object \in Has(s, Len(s) + 1, {})
      BY <2>3, HasAll
    <3>2. s[i].object \in Has(s, i, {})
      BY <1>1, <3>1 DEF MakesFirst
    <3>. QED
      BY <3>2 DEF Has
  <2>4. CASE s[i].object \notin Builtin \cup ProvidedByTree(s)
    BY <2>1, <2>4 DEF Requirements, Has
  <2>. QED
    BY <2>2, <2>3, <2>4
<1>2. ASSUME NEW i \in 1..Len(s), s[i].does = "makes", IsExtension(s[i].object)
      PROVE  s[i].object \in P
  BY <1>2 DEF Made, Requirements
<1>. QED
  BY <1>1, <1>2 DEF RunsOn

\* On a target that lacks something required the tree does not run.
LEMMA NeededToRun ==
  ASSUME NEW s \in SqlTrees, NEW P, Builtin \subseteq P,
         NEW o \in Requirements(s), o \notin P
  PROVE  ~RunsOn(s, P)
<1>1. CASE o \in Made(s) /\ IsExtension(o)
  <2>1. PICK i \in 1..Len(s) : s[i].does = "makes" /\ s[i].object = o
    BY <1>1 DEF Made
  <2>. QED
    BY <1>1, <2>1 DEF RunsOn
<1>2. CASE ~(o \in Made(s) /\ IsExtension(o))
  <2>1. o \in Needed(s) /\ o \notin ProvidedByTree(s)
    BY <1>2 DEF Requirements
  <2>2. PICK i \in 1..Len(s) : s[i].does = "needs" /\ s[i].object = o
    BY <2>1 DEF Needed
  <2>3. o \notin Has(s, i, P)
    <3>1. Made(SubSeq(s, 1, i - 1)) \subseteq Made(s)
      BY MadeBefore
    <3>2. o \notin Made(s)
      BY <1>2, <2>1 DEF ProvidedByTree
    <3>. QED
      BY <2>1, <3>1, <3>2 DEF Has, ProvidedByTree
  <2>. QED
    BY <2>2, <2>3 DEF RunsOn
<1>. QED
  BY <1>1, <1>2

-----------------------------------------------------------------------------
(* Gate: types *)

Finds == [reqs : SUBSET Objects, kinds : SUBSET Kinds, missing : SUBSET Objects,
          todo : SUBSET Objects, added : SUBSET Objects]

GateTypes ==
  /\ sql \in SqlTrees
  /\ provides \in SUBSET Objects /\ Builtin \subseteq provides
  /\ gate \in [Gates -> {"idle", "verify", "record", "passed", "stopped"}]
  /\ found \in [Gates -> Finds]
  /\ untouched \subseteq Gates

LEMMA GateTypesInit == GateInit => GateTypes
BY DEF GateInit, GateTypes, Finds, NoFinds

LEMMA GateTypesStep == GateTypes /\ [GateNext]_gateVars => GateTypes'
<1>. SUFFICES ASSUME GateTypes, [GateNext]_gateVars PROVE GateTypes'
  OBVIOUS
<1>. USE DEF GateTypes
<1>1. ASSUME NEW p \in Gates, Collect(p) PROVE GateTypes'
  <2>1. Requirements(sql) \subseteq Objects
    BY RequirementsType
  <2>2. {o.kind : o \in Requirements(sql)} \subseteq Kinds
    BY <2>1, GateAssumption
  <2>3. found'[p] \in Finds
    BY <1>1, <2>1, <2>2 DEF Collect, Know, NoFinds, Finds
  <2>. QED
    BY <1>1, <2>3 DEF Collect, Know, GoOn
<1>2. ASSUME NEW p \in Gates, Decide(p) PROVE GateTypes'
  BY <1>2 DEF Decide, Know, GoOn, Finds
<1>3. ASSUME NEW p \in Gates, Report(p) PROVE GateTypes'
  BY <1>3 DEF Report, Know, GoOn, Finds
<1>4. ASSUME NEW p \in Gates, GateDies(p) PROVE GateTypes'
  BY <1>4 DEF GateDies, Know, GoOn, Finds, NoFinds
<1>5. ASSUME NEW p \in Gates, NEW k \in Kinds, Verify(p, k) PROVE GateTypes'
  BY <1>5 DEF Verify, Know, Finds, Lacking
<1>6. ASSUME NEW p \in Gates, NEW o \in Objects, Record(p, o) PROVE GateTypes'
  BY <1>6 DEF Record, Know, Finds, Inserted
<1>7. ASSUME NEW o \in Objects, TargetShifts(o) PROVE GateTypes'
  BY <1>7 DEF TargetShifts
<1>8. ASSUME NEW s \in SqlTrees, TreeShifts(s) PROVE GateTypes'
  BY <1>8 DEF TreeShifts
<1>9. CASE UNCHANGED gateVars
  BY <1>9 DEF gateVars
<1>. QED
  BY <1>1, <1>2, <1>3, <1>4, <1>5, <1>6, <1>7, <1>8, <1>9 DEF GateNext

-----------------------------------------------------------------------------
(* Gate: the record *)

\* Who has what in hand: an object required of a kind that was looked up was found
\* or is missing, what is left to record was found, and only a command that records
\* holds what it inserted.
HandOK(p) ==
  /\ gate[p] = "verify" =>
       \A o \in found[p].reqs : o.kind \in found[p].kinds \/ o \in found[p].missing \/ o \in met
  /\ gate[p] = "record" => found[p].todo \subseteq met
  /\ gate[p] # "record" => found[p].added = {}

Hands ==
  /\ GateTypes
  /\ \A p \in Gates : HandOK(p)
  /\ recorded \subseteq met
  /\ recorded \subseteq reported \cup died \cup UNION {found[p].added : p \in Gates}

LEMMA HandsInit == GateInit => Hands
<1>. SUFFICES ASSUME GateInit PROVE Hands
  OBVIOUS
<1>1. GateTypes
  BY GateTypesInit
<1>2. \A p \in Gates : HandOK(p)
  BY DEF GateInit, HandOK, NoFinds
<1>. QED
  BY <1>1, <1>2 DEF Hands, GateInit

\* What a step of a command does to the hands of the others: nothing, as more is met.
LEMMA OtherHands ==
  ASSUME Hands, NEW p \in Gates, NEW g, NEW f,
         gate' = [gate EXCEPT ![p] = g], found' = [found EXCEPT ![p] = f],
         met \subseteq met', HandOK(p)'
  PROVE  \A q \in Gates : HandOK(q)'
<1>. SUFFICES ASSUME NEW q \in Gates, q # p PROVE HandOK(q)'
  OBVIOUS
<1>1. gate'[q] = gate[q] /\ found'[q] = found[q]
  BY DEF Hands, GateTypes
<1>. QED
  BY <1>1 DEF Hands, HandOK

\* What is in somebody's hands is not lost by a step of p that keeps it or hands
\* it over.
LEMMA NothingLost ==
  ASSUME Hands, NEW p \in Gates, NEW f, found' = [found EXCEPT ![p] = f],
         reported \subseteq reported', died \subseteq died',
         found[p].added \subseteq f.added \cup reported' \cup died',
         NEW o, o \in recorded
  PROVE  o \in reported' \cup died' \cup UNION {found'[q].added : q \in Gates}
<1>1. found'[p] = f /\ \A q \in Gates : q # p => found'[q] = found[q]
  BY DEF Hands, GateTypes
<1>2. CASE o \in reported \cup died
  BY <1>2
<1>3. CASE o \notin reported \cup died
  <2>1. PICK q \in Gates : o \in found[q].added
    BY <1>3 DEF Hands
  <2>2. CASE q = p
    BY <1>1, <2>1, <2>2
  <2>3. CASE q # p
    BY <1>1, <2>1, <2>3
  <2>. QED
    BY <2>2, <2>3
<1>. QED
  BY <1>2, <1>3

LEMMA HandsStep == Hands /\ [GateNext]_gateVars => Hands'
<1>. SUFFICES ASSUME Hands, [GateNext]_gateVars PROVE Hands'
  OBVIOUS
<1>0. GateTypes /\ GateTypes'
  BY GateTypesStep DEF Hands
<1>. DEFINE Kept == UNION {found[q].added : q \in Gates}
<1>1. ASSUME NEW p \in Gates, Collect(p) PROVE Hands'
  <2>1. found'[p] = [NoFinds EXCEPT !.reqs = Requirements(sql),
                       !.kinds = {o.kind : o \in Requirements(sql)}] /\ gate'[p] = "verify"
    BY <1>0, <1>1 DEF GateTypes, Collect, Know, GoOn
  <2>2. HandOK(p)'
    BY <2>1 DEF HandOK, NoFinds
  <2>3. \A q \in Gates : HandOK(q)'
    BY <1>1, <2>2, OtherHands DEF Collect, Know, GoOn
  <2>4. found[p].added = {}
    BY <1>1 DEF Hands, HandOK, Collect
  <2>5. \A o \in recorded : o \in reported' \cup died' \cup Kept'
    BY <1>1, <2>4, NothingLost DEF Collect, Know
  <2>. QED
    BY <1>0, <1>1, <2>3, <2>5 DEF Hands, Collect
<1>2. ASSUME NEW p \in Gates, Decide(p) PROVE Hands'
  <2>1. CASE found[p].missing # {}
    <3>1. gate' = [gate EXCEPT ![p] = "stopped"] /\ found' = found
      BY <1>2, <2>1 DEF Decide, GoOn
    <3>2. \A q \in Gates : HandOK(q)'
      BY <1>0, <1>2, <3>1 DEF Hands, HandOK, GateTypes, Decide
    <3>. QED
      BY <1>0, <1>2, <3>1, <3>2 DEF Hands, Decide
  <2>2. CASE found[p].missing = {}
    <3>1. found' = [found EXCEPT ![p] = [found[p] EXCEPT !.todo = found[p].reqs]]
          /\ gate' = [gate EXCEPT ![p] = "record"]
      BY <1>2, <2>2 DEF Decide, GoOn, Know
    <3>2. found'[p].todo = found[p].reqs /\ found'[p].added = found[p].added /\ gate'[p] = "record"
      BY <1>0, <3>1 DEF GateTypes, Finds
    <3>3. HandOK(p)'
      BY <1>2, <2>2, <3>2 DEF Hands, HandOK, Decide
    <3>4. \A q \in Gates : HandOK(q)'
      BY <1>2, <3>1, <3>3, OtherHands DEF Decide
    <3>5. \A o \in recorded : o \in reported' \cup died' \cup Kept'
      BY <1>0, <1>2, <3>1, NothingLost DEF Decide, GateTypes, Finds
    <3>. QED
      BY <1>0, <1>2, <3>4, <3>5 DEF Hands, Decide
  <2>. QED
    BY <2>1, <2>2
<1>3. ASSUME NEW p \in Gates, Report(p) PROVE Hands'
  <2>1. found'[p] = [found[p] EXCEPT !.added = {}] /\ gate'[p] = "passed"
    BY <1>0, <1>3 DEF GateTypes, Report, Know, GoOn
  <2>2. HandOK(p)'
    BY <1>0, <2>1 DEF HandOK, GateTypes, Finds
  <2>3. \A q \in Gates : HandOK(q)'
    BY <1>3, <2>2, OtherHands DEF Report, Know, GoOn
  <2>4. \A o \in recorded : o \in reported' \cup died' \cup Kept'
    BY <1>3, NothingLost DEF Report, Know
  <2>. QED
    BY <1>0, <1>3, <2>3, <2>4 DEF Hands, Report
<1>4. ASSUME NEW p \in Gates, GateDies(p) PROVE Hands'
  <2>1. found'[p] = NoFinds /\ gate'[p] = "idle"
    BY <1>0, <1>4 DEF GateTypes, GateDies, Know, GoOn
  <2>2. HandOK(p)'
    BY <2>1 DEF HandOK, NoFinds
  <2>3. \A q \in Gates : HandOK(q)'
    BY <1>4, <2>2, OtherHands DEF GateDies, Know, GoOn
  <2>4. \A o \in recorded : o \in reported' \cup died' \cup Kept'
    BY <1>4, NothingLost DEF GateDies, Know
  <2>. QED
    BY <1>0, <1>4, <2>3, <2>4 DEF Hands, GateDies
<1>5. ASSUME NEW p \in Gates, NEW k \in Kinds, Verify(p, k) PROVE Hands'
  <2>. DEFINE asked == {o \in found[p].reqs : o.kind = k}
              f == [found[p] EXCEPT !.kinds = @ \ {k}, !.missing = @ \cup Lacking(asked)]
  <2>1. found' = [found EXCEPT ![p] = f] /\ gate' = gate
        /\ met' = met \cup (asked \cap provides)
    BY <1>5 DEF Verify, Know
  <2>2. found'[p] = f /\ gate' = [gate EXCEPT ![p] = gate[p]] /\ gate'[p] = "verify"
    BY <1>0, <1>5, <2>1 DEF GateTypes, Verify
  <2>3. /\ f.reqs = found[p].reqs /\ f.added = found[p].added
        /\ f.kinds = found[p].kinds \ {k} /\ f.missing = found[p].missing \cup Lacking(asked)
    BY <1>0 DEF GateTypes, Finds
  <2>4. HandOK(p)'
    <3>1. ASSUME NEW o \in found[p].reqs
          PROVE  o.kind \in f.kinds \/ o \in f.missing \/ o \in met'
      <4>1. CASE o.kind = k
        BY <2>1, <2>3, <4>1 DEF Lacking
      <4>2. CASE o.kind # k
        BY <1>5, <2>1, <2>3, <4>2 DEF Hands, HandOK, Verify
      <4>. QED
        BY <4>1, <4>2
    <3>. QED
      BY <1>5, <2>2, <2>3, <3>1 DEF Hands, HandOK, Verify
  <2>5. \A q \in Gates : HandOK(q)'
    BY <2>1, <2>2, <2>4, OtherHands
  <2>6. \A o \in recorded : o \in reported' \cup died' \cup Kept'
    BY <1>5, <2>1, <2>3, NothingLost DEF Verify
  <2>. QED
    BY <1>0, <1>5, <2>1, <2>5, <2>6 DEF Hands, Verify
<1>6. ASSUME NEW p \in Gates, NEW o \in Objects, Record(p, o) PROVE Hands'
  <2>. DEFINE f == [found[p] EXCEPT !.todo = @ \ {o},
                      !.added = IF Inserted(o) THEN @ \cup {o} ELSE @]
  <2>1. found' = [found EXCEPT ![p] = f] /\ gate' = [gate EXCEPT ![p] = "record"]
    BY <1>0, <1>6 DEF Record, Know, GateTypes
  <2>2. found'[p] = f /\ gate'[p] = "record" /\ f.todo = found[p].todo \ {o}
        /\ f.added = IF Inserted(o) THEN found[p].added \cup {o} ELSE found[p].added
    BY <1>0, <2>1 DEF GateTypes, Finds
  <2>3. HandOK(p)' /\ o \in met
    BY <1>6, <2>2 DEF Hands, HandOK, Record
  <2>4. \A q \in Gates : HandOK(q)'
    BY <1>6, <2>1, <2>3, OtherHands DEF Record
  <2>5. \A u \in recorded : u \in reported' \cup died' \cup Kept'
    <3>1. found[p].added \subseteq f.added /\ UNCHANGED <<reported, died>>
      BY <1>6, <2>2 DEF Record
    <3>. HIDE DEF f
    <3>. QED
      BY <2>1, <3>1, NothingLost
  <2>6. o \in recorded \/ o \in found'[p].added
    BY <2>2 DEF Inserted
  <2>. QED
    BY <1>0, <1>6, <2>3, <2>4, <2>5, <2>6 DEF Hands, Record
<1>7. ASSUME NEW o \in Objects, TargetShifts(o) PROVE Hands'
  BY <1>0, <1>7 DEF TargetShifts, Hands, HandOK
<1>8. ASSUME NEW s \in SqlTrees, TreeShifts(s) PROVE Hands'
  BY <1>0, <1>8 DEF TreeShifts, Hands, HandOK
<1>9. CASE UNCHANGED gateVars
  BY <1>0, <1>9 DEF gateVars, Hands, HandOK
<1>. QED
  BY <1>1, <1>2, <1>3, <1>4, <1>5, <1>6, <1>7, <1>8, <1>9 DEF GateNext

\* What is on record was seen in a target and was reported, or its command died.
THEOREM RecordStaysTrue == GateSpec => []RecordIsTrue
<1>1. Hands => RecordIsTrue
  BY DEF Hands, RecordIsTrue
<1>. QED
  BY <1>1, HandsInit, HandsStep, PTL DEF GateSpec

-----------------------------------------------------------------------------
(* Gate: the decision *)

\* What a command during which nothing changed knows of the target.
KnowsOK(p) ==
  /\ gate[p] = "verify" =>
       /\ found[p].reqs = Requirements(sql) /\ found[p].missing \subseteq Requirements(sql) \ provides
       /\ \A o \in Requirements(sql) :
            o \in provides \/ o.kind \in found[p].kinds \/ o \in found[p].missing
  /\ gate[p] \in {"record", "passed"} => Requirements(sql) \subseteq provides
  /\ gate[p] = "stopped" => ~(Requirements(sql) \subseteq provides)

Decisions == GateTypes /\ \A p \in untouched : KnowsOK(p)

LEMMA DecisionsInit == GateInit => Decisions
BY GateTypesInit DEF GateInit, Decisions

\* A step of one command, in which neither the tree nor the target changes, leaves
\* what the others know.
LEMMA OthersKnow ==
  ASSUME Decisions, NEW p \in Gates, NEW g, NEW f,
         gate' = [gate EXCEPT ![p] = g], found' = [found EXCEPT ![p] = f],
         UNCHANGED <<sql, provides>>, untouched' \subseteq untouched \cup {p},
         p \in untouched' => KnowsOK(p)'
  PROVE  \A q \in untouched' : KnowsOK(q)'
<1>. SUFFICES ASSUME NEW q \in untouched', q # p PROVE KnowsOK(q)'
  OBVIOUS
<1>1. q \in untouched /\ q \in Gates
  BY DEF Decisions, GateTypes
<1>2. gate'[q] = gate[q] /\ found'[q] = found[q]
  BY <1>1 DEF Decisions, GateTypes
<1>. QED
  BY <1>1, <1>2 DEF Decisions, KnowsOK

LEMMA DecisionsStep == Decisions /\ [GateNext]_gateVars => Decisions'
<1>. SUFFICES ASSUME Decisions, [GateNext]_gateVars PROVE Decisions'
  OBVIOUS
<1>0. GateTypes /\ GateTypes'
  BY GateTypesStep DEF Decisions
<1>1. ASSUME NEW p \in Gates, Collect(p) PROVE Decisions'
  <2>1. found'[p] = [NoFinds EXCEPT !.reqs = Requirements(sql),
                       !.kinds = {o.kind : o \in Requirements(sql)}] /\ gate'[p] = "verify"
    BY <1>0, <1>1 DEF GateTypes, Collect, Know, GoOn
  <2>2. KnowsOK(p)'
    <3>1. UNCHANGED <<sql, provides>>
      BY <1>1 DEF Collect
    <3>2. /\ found'[p].reqs = Requirements(sql) /\ found'[p].missing = {}
          /\ found'[p].kinds = {o.kind : o \in Requirements(sql)}
      BY <2>1 DEF NoFinds
    <3>3. Requirements(sql)' = Requirements(sql)
      BY <3>1 DEF Requirements, Made, Needed, ProvidedByTree
    <3>. QED
      BY <2>1, <3>1, <3>2, <3>3 DEF KnowsOK
  <2>3. \A q \in untouched' : KnowsOK(q)'
    BY <1>1, <2>2, OthersKnow DEF Collect, Know, GoOn
  <2>. QED
    BY <1>0, <2>3 DEF Decisions
<1>2. ASSUME NEW p \in Gates, Decide(p) PROVE Decisions'
  <2>1. UNCHANGED <<sql, provides, untouched>> /\ gate[p] = "verify" /\ found[p].kinds = {}
    BY <1>2 DEF Decide
  <2>2. PICK g \in {"stopped", "record"}, f \in Finds :
          /\ gate' = [gate EXCEPT ![p] = g] /\ found' = [found EXCEPT ![p] = f]
          /\ g = "stopped" <=> found[p].missing # {}
    <3>1. CASE found[p].missing # {}
      BY <1>0, <1>2, <3>1 DEF Decide, GoOn, GateTypes
    <3>2. CASE found[p].missing = {}
      <4>1. [found[p] EXCEPT !.todo = found[p].reqs] \in Finds
        BY <1>0 DEF GateTypes, Finds
      <4>. QED
        BY <1>2, <3>2, <4>1 DEF Decide, GoOn, Know
    <3>. QED
      BY <3>1, <3>2
  <2>3. gate'[p] = g
    BY <1>0, <2>2 DEF GateTypes
  <2>4. ASSUME p \in untouched PROVE KnowsOK(p)'
    <3>1. KnowsOK(p)
      BY <2>1, <2>4 DEF Decisions
    <3>2. Requirements(sql)' = Requirements(sql)
      BY <2>1 DEF Requirements, Made, Needed, ProvidedByTree
    <3>3. CASE g = "stopped"
      <4>1. ~(Requirements(sql) \subseteq provides)
        BY <2>1, <2>2, <3>1, <3>3 DEF KnowsOK
      <4>. QED
        BY <2>1, <2>3, <3>2, <3>3, <4>1 DEF KnowsOK
    <3>4. CASE g = "record"
      <4>1. Requirements(sql) \subseteq provides
        BY <2>1, <2>2, <3>1, <3>4 DEF KnowsOK
      <4>. QED
        BY <2>1, <2>3, <3>2, <3>4, <4>1 DEF KnowsOK
    <3>. QED
      BY <3>3, <3>4
  <2>5. \A q \in untouched' : KnowsOK(q)'
    BY <2>1, <2>2, <2>4, OthersKnow
  <2>. QED
    BY <1>0, <2>5 DEF Decisions
<1>3. ASSUME NEW p \in Gates, Report(p) PROVE Decisions'
  <2>1. UNCHANGED <<sql, provides, untouched>> /\ gate[p] = "record" /\ gate'[p] = "passed"
    BY <1>0, <1>3 DEF GateTypes, Report, GoOn
  <2>2. Requirements(sql)' = Requirements(sql)
    BY <2>1 DEF Requirements, Made, Needed, ProvidedByTree
  <2>3. p \in untouched => KnowsOK(p)'
    BY <2>1, <2>2 DEF Decisions, KnowsOK
  <2>4. \A q \in untouched' : KnowsOK(q)'
    BY <1>3, <2>1, <2>3, OthersKnow DEF Report, Know, GoOn
  <2>. QED
    BY <1>0, <2>4 DEF Decisions
<1>4. ASSUME NEW p \in Gates, GateDies(p) PROVE Decisions'
  <2>1. UNCHANGED <<sql, provides, untouched>> /\ gate'[p] = "idle"
    BY <1>0, <1>4 DEF GateTypes, GateDies, GoOn
  <2>2. \A q \in untouched' : KnowsOK(q)'
    BY <1>4, <2>1, OthersKnow DEF GateDies, Know, GoOn, KnowsOK
  <2>. QED
    BY <1>0, <2>2 DEF Decisions
<1>5. ASSUME NEW p \in Gates, NEW k \in Kinds, Verify(p, k) PROVE Decisions'
  <2>. DEFINE asked == {o \in found[p].reqs : o.kind = k}
              f == [found[p] EXCEPT !.kinds = @ \ {k}, !.missing = @ \cup Lacking(asked)]
  <2>1. found' = [found EXCEPT ![p] = f] /\ UNCHANGED <<sql, provides, gate, untouched>>
    BY <1>5 DEF Verify, Know
  <2>2. gate' = [gate EXCEPT ![p] = gate[p]] /\ gate'[p] = "verify"
    BY <1>0, <1>5, <2>1 DEF GateTypes, Verify
  <2>3. /\ found'[p].reqs = found[p].reqs /\ found'[p].kinds = found[p].kinds \ {k}
        /\ found'[p].missing = found[p].missing \cup (asked \ provides)
    BY <1>0, <2>1 DEF GateTypes, Finds, Lacking
  <2>4. ASSUME p \in untouched PROVE KnowsOK(p)'
    <3>1. KnowsOK(p) /\ gate[p] = "verify"
      BY <1>5, <2>4 DEF Decisions, Verify
    <3>2. Requirements(sql)' = Requirements(sql)
      BY <2>1 DEF Requirements, Made, Needed, ProvidedByTree
    <3>3. found'[p].missing \subseteq Requirements(sql) \ provides
      BY <2>3, <3>1 DEF KnowsOK
    <3>4. ASSUME NEW o \in Requirements(sql)
          PROVE  o \in provides \/ o.kind \in found'[p].kinds \/ o \in found'[p].missing
      BY <2>3, <3>1 DEF KnowsOK
    <3>. QED
      BY <2>1, <2>2, <2>3, <3>1, <3>2, <3>3, <3>4 DEF KnowsOK
  <2>5. \A q \in untouched' : KnowsOK(q)'
    BY <2>1, <2>2, <2>4, OthersKnow
  <2>. QED
    BY <1>0, <2>5 DEF Decisions
<1>6. ASSUME NEW p \in Gates, NEW o \in Objects, Record(p, o) PROVE Decisions'
  <2>1. UNCHANGED <<sql, provides, gate, untouched>> /\ gate' = [gate EXCEPT ![p] = gate[p]]
        /\ gate[p] = "record"
    BY <1>0, <1>6 DEF GateTypes, Record
  <2>2. Requirements(sql)' = Requirements(sql)
    BY <2>1 DEF Requirements, Made, Needed, ProvidedByTree
  <2>3. p \in untouched => KnowsOK(p)'
    BY <2>1, <2>2 DEF Decisions, KnowsOK
  <2>4. \A q \in untouched' : KnowsOK(q)'
    BY <1>6, <2>1, <2>3, OthersKnow DEF Record, Know
  <2>. QED
    BY <1>0, <2>4 DEF Decisions
<1>7. ASSUME NEW o \in Objects, TargetShifts(o) PROVE Decisions'
  BY <1>0, <1>7 DEF TargetShifts, Decisions
<1>8. ASSUME NEW s \in SqlTrees, TreeShifts(s) PROVE Decisions'
  BY <1>0, <1>8 DEF TreeShifts, Decisions
<1>9. CASE UNCHANGED gateVars
  <2>1. Requirements(sql)' = Requirements(sql)
    BY <1>9 DEF gateVars, Requirements, Made, Needed, ProvidedByTree
  <2>. QED
    BY <1>0, <1>9, <2>1 DEF gateVars, Decisions, KnowsOK
<1>. QED
  BY <1>1, <1>2, <1>3, <1>4, <1>5, <1>6, <1>7, <1>8, <1>9 DEF GateNext

\* A deploy the gate lets through runs as far as the target goes, and one it stops
\* would not have, when nothing changed meanwhile.
THEOREM GateDecidesRight == GateSpec => []GateDecides
<1>1. Decisions => GateDecides
  <2>. SUFFICES ASSUME Decisions, NEW p \in untouched
                PROVE  /\ gate[p] = "passed" /\ MakesFirst(sql) => RunsOn(sql, provides)
                       /\ gate[p] = "stopped" => ~RunsOn(sql, provides)
    BY DEF GateDecides
  <2>1. sql \in SqlTrees /\ Builtin \subseteq provides
    BY DEF Decisions, GateTypes
  <2>2. ASSUME gate[p] = "passed", MakesFirst(sql) PROVE RunsOn(sql, provides)
    <3>1. Requirements(sql) \subseteq provides
      BY <2>2 DEF Decisions, KnowsOK
    <3>. QED
      BY <2>1, <2>2, <3>1, EnoughToRun
  <2>3. ASSUME gate[p] = "stopped" PROVE ~RunsOn(sql, provides)
    <3>1. PICK o \in Requirements(sql) : o \notin provides
      BY <2>3 DEF Decisions, KnowsOK
    <3>. QED
      BY <2>1, <3>1, NeededToRun
  <2>. QED
    BY <2>2, <2>3
<1>. QED
  BY <1>1, DecisionsInit, DecisionsStep, PTL DEF GateSpec

-----------------------------------------------------------------------------
(* Proof: types *)

ProofStates == {"idle", "copy", "build", "live", "rebuild", "hash", "manifest",
                "passed", "failed"}
TreeTexts == SqlText \cup {Empty, Absent}
Inventories == [TreeFile -> Definitions \cup {Absent}]
ProofLocals ==
  [off: SUBSET TreeFile, unseen: SUBSET TreeFile, listed: SUBSET TreeFile, overlay: BOOLEAN,
   liveInv: Inventories, candInv: Inventories, equal: BOOLEAN, hash: [TreeFile -> TreeTexts], dry: BOOLEAN, keep: BOOLEAN]

ProofTypeOK ==
  /\ source \in [TreeFile -> SqlText \cup {Absent}]
  /\ upgraded \in [TreeFile -> TreeTexts]
  /\ liveDb \in Inventories
  /\ proving \in ProofStates
  /\ candidate \in [TreeFile -> TreeTexts]
  /\ copied \in Nat
  /\ has \in ProofLocals
  /\ proofs \in Nat /\ touched \in BOOLEAN

\* The assignments the actions make to the locals keep their type.
LEMMA LocalFields ==
  ASSUME NEW h \in ProofLocals
  PROVE  /\ \A inv \in Inventories :
              /\ [h EXCEPT !.candInv = inv] \in ProofLocals
              /\ \A e \in BOOLEAN : [h EXCEPT !.liveInv = inv, !.equal = e] \in ProofLocals
         /\ \A t \in [TreeFile -> TreeTexts] : [h EXCEPT !.hash = t] \in ProofLocals
BY DEF ProofLocals

LEMMA FreshLocals ==
  ASSUME NEW k \in BOOLEAN, NEW d \in BOOLEAN, NEW o \in BOOLEAN, NEW S \in SUBSET TreeFile,
         NEW off \in SUBSET TreeFile, NEW unseen \in SUBSET TreeFile
  PROVE  [NoLocals EXCEPT !.keep = k, !.dry = d, !.off = off, !.unseen = unseen,
                          !.overlay = o, !.listed = S] \in ProofLocals
BY DEF ProofLocals, NoLocals, NoTree, Inventories, TreeTexts

LEMMA ProofTypesInit == ProofInit => ProofTypeOK
<1>. SUFFICES ASSUME ProofInit PROVE ProofTypeOK
  OBVIOUS
<1>1. NoTree \in [TreeFile -> TreeTexts] /\ NoTree \in Inventories
  BY DEF NoTree, TreeTexts, Inventories
<1>2. NoLocals \in ProofLocals
  BY <1>1 DEF NoLocals, ProofLocals
<1>3. source \in [TreeFile -> SqlText \cup {Absent}] /\ upgraded \in [TreeFile -> TreeTexts]
  BY DEF ProofInit, TreeTexts
<1>4. liveDb \in Inventories
  BY DEF ProofInit, Inventories
<1>5. QED
  BY <1>1, <1>2, <1>3, <1>4 DEF ProofInit, ProofTypeOK, ProofStates

LEMMA ProofTypesNext == ProofTypeOK /\ [ProofNext]_proofVars => ProofTypeOK'
<1>. SUFFICES ASSUME ProofTypeOK, [ProofNext]_proofVars PROVE ProofTypeOK'
  OBVIOUS
<1>. USE ProofAssumption DEF ProofTypeOK, ProofStates
<1>1. ASSUME NEW keep \in BOOLEAN, NEW dry \in BOOLEAN, NEW off \in SUBSET Optional,
             NEW unseen \in SUBSET off, ProofBegin(keep, dry, off, unseen)
      PROVE  ProofTypeOK'
  <2>1. has' \in ProofLocals
    <3>1. off \in SUBSET TreeFile /\ unseen \in SUBSET TreeFile
      OBVIOUS
    <3>. QED
      BY <1>1, <3>1, FreshLocals DEF ProofBegin
  <2>2. candidate' \in [TreeFile -> TreeTexts]
    BY <1>1 DEF ProofBegin, NoTree, TreeTexts
  <2>3. /\ proving' = "copy" /\ copied' = 0 /\ proofs' = proofs + 1 /\ touched' = FALSE
        /\ UNCHANGED <<source, upgraded, liveDb>>
    BY <1>1 DEF ProofBegin
  <2>4. touched' \in BOOLEAN
    BY <2>3
  <2>5. copied' \in Nat /\ proofs' \in Nat
    BY <2>3
  <2>6. /\ source' \in [TreeFile -> SqlText \cup {Absent}] /\ liveDb' \in Inventories
        /\ upgraded' \in [TreeFile -> TreeTexts] /\ proving' \in ProofStates
    BY <2>3
  <2>7. QED
    BY <2>1, <2>2, <2>4, <2>5, <2>6
<1>2. CASE CopySource
  <2>1. \A x \in TreeFile : Overlaid(x) \in TreeTexts
    BY DEF Overlaid, TreeTexts
  <2>2. candidate' \in [TreeFile -> TreeTexts]
    BY <1>2, <2>1 DEF CopySource
  <2>3. QED
    BY <1>2, <2>2 DEF CopySource, ProofEnds, Untouched
<1>3. CASE CopyExtra
  <2>1. candidate' \in [TreeFile -> TreeTexts]
    BY <1>3 DEF CopyExtra
  <2>2. QED
    BY <1>3, <2>1 DEF CopyExtra, Untouched
<1>4. CASE StartFirst
  BY <1>4 DEF StartFirst, Untouched
<1>5. CASE BuildFirst
  <2>1. has' \in ProofLocals
    <3>1. CASE UNCHANGED has
      BY <3>1
    <3>2. CASE \E inv \in Builds(Built) : has' = [has EXCEPT !.candInv = inv]
      <4>1. Builds(Built) \subseteq Inventories
        BY DEF Builds, Inventories
      <4>2. QED
        BY <3>2, <4>1, LocalFields
    <3>3. QED
      BY <1>5, <3>1, <3>2 DEF BuildFirst
  <2>2. QED
    BY <1>5, <2>1 DEF BuildFirst, ProofEnds, Untouched
<1>6. CASE CompareLive
  <2>1. SameInventory(Seen(liveDb), has.candInv) \in BOOLEAN /\ Seen(liveDb) \in Inventories
    BY DEF SameInventory, Seen, Inventories
  <2>2. has' \in ProofLocals
    BY <1>6, <2>1, LocalFields DEF CompareLive
  <2>3. QED
    BY <1>6, <2>2 DEF CompareLive, Untouched
<1>7. CASE BuildSecond
  BY <1>7 DEF BuildSecond, ProofEnds, Untouched
<1>8. CASE TakeHash
  <2>1. has' \in ProofLocals
    BY <1>8, LocalFields DEF TakeHash
  <2>2. QED
    BY <1>8, <2>1 DEF TakeHash, Untouched
<1>9. CASE WriteManifest \/ ProofFails \/ ProofKilled
  BY <1>9 DEF WriteManifest, ProofFails, ProofKilled, ProofEnds, Untouched
<1>10. ASSUME NEW x \in TreeFile, NEW t \in SqlText \cup {Empty, Absent}, Edit(x, t)
       PROVE  ProofTypeOK'
  BY <1>10 DEF Edit, TreeTexts
<1>11. ASSUME NEW x \in TreeFile, NEW t \in Definitions \cup {Absent}, LiveChanges(x, t)
       PROVE  ProofTypeOK'
  BY <1>11 DEF LiveChanges, Inventories
<1>12. CASE UNCHANGED proofVars
  BY <1>12 DEF proofVars
<1>. HIDE DEF ProofTypeOK, ProofStates
<1>13. QED
  BY <1>1, <1>2, <1>3, <1>4, <1>5, <1>6, <1>7, <1>8, <1>9, <1>10, <1>11, <1>12 DEF ProofNext

-----------------------------------------------------------------------------
(* Proof: what passes is proved *)

\* What CopySource makes of file x; CopyExtra makes Proved(x) of it.
FirstCopy(x) == IF source[x] # Absent THEN Overlaid(x) ELSE Absent
Proved(x) == IF x \in Covered THEN Merged(x) ELSE Absent

\* As long as nobody touched the trees: what the command saw of them is so, and each
\* file of a step that is on that it has passed is in the candidate with the text it
\* should have.
SeenOK ==
  Proving /\ ~touched =>
    /\ has.listed = {x \in TreeFile \ has.off : source[x] # Absent}
    /\ ~has.overlay => upgraded = NoTree
CandidateOK ==
  ~touched =>
    /\ proving = "copy" =>
         \A x \in TreeFile \ has.off :
           candidate[x] = IF x + NTree <= copied THEN Proved(x)
                          ELSE IF x <= copied THEN FirstCopy(x) ELSE Absent
    /\ Proving /\ proving # "copy" => \A x \in TreeFile \ has.off : candidate[x] = Proved(x)

\* The verdicts so far, about what was built of the candidate.
VerdictOK ==
  /\ proving \in {"live", "rebuild", "hash", "manifest"} =>
       \A x \in TreeFile : Built[x] # Broken /\ has.candInv[x] \in Outcome(Built[x])
  /\ proving = "rebuild" /\ has.equal => has.liveInv = has.candInv
  /\ proving \in {"hash", "manifest"} => has.liveInv = has.candInv
  /\ proving = "manifest" /\ ~touched => has.hash = upgraded

ProvedInv == ProofTypeOK /\ SeenOK /\ CandidateOK /\ VerdictOK /\ PassedIsProved

\* With nothing in .upgraded the tree stays what it is.
LEMMA MergedCases ==
  ASSUME ProofTypeOK, NEW x \in TreeFile \ has.off, ~has.overlay => upgraded = NoTree
  PROVE  /\ source[x] # Absent => FirstCopy(x) = Proved(x)
         /\ source[x] = Absent =>
              Proved(x) = IF has.overlay /\ upgraded[x] \in SqlText /\ x \notin Reviewed
                          THEN upgraded[x] ELSE Absent
<1>. USE DEF ProofTypeOK, TreeTexts, SqlText
<1>1. /\ upgraded[x] \in SqlText \cup {Empty, Absent} /\ Empty # Absent
      /\ Empty \notin SqlText /\ Absent \notin SqlText
  BY ProofAssumption
<1>2. ~has.overlay => upgraded[x] = Absent
  BY DEF NoTree
<1>3. QED
  BY <1>1, <1>2 DEF FirstCopy, Overlaid, Merged, Proved, Covered

LEMMA ProvedInit == ProofInit => ProvedInv
BY ProofTypesInit DEF ProofInit, ProvedInv, SeenOK, CandidateOK, VerdictOK, PassedIsProved, Proving

LEMMA ProvedNext == ProvedInv /\ [ProofNext]_proofVars => ProvedInv'
<1>. SUFFICES ASSUME ProvedInv, [ProofNext]_proofVars PROVE ProvedInv'
  OBVIOUS
<1>0. ProofTypeOK'
  BY ProofTypesNext DEF ProvedInv
<1>. DEFINE Goal == SeenOK' /\ CandidateOK' /\ VerdictOK' /\ PassedIsProved'
<1>. USE ProofAssumption DEF ProvedInv
<1>. SUFFICES Goal
  BY <1>0
\* A command that fails or dies claims nothing; neither do trees that changed.
<1>1. CASE proving' = "failed"
  BY <1>1 DEF SeenOK, CandidateOK, VerdictOK, PassedIsProved, Proving
<1>2. ASSUME NEW x \in TreeFile, NEW t \in SqlText \cup {Empty, Absent}, Edit(x, t)
      PROVE  Goal
  <2>1. touched' = TRUE /\ UNCHANGED <<proving, candidate, has>>
    BY <1>2 DEF Edit
  <2>2. SeenOK' /\ CandidateOK' /\ PassedIsProved'
    BY <2>1 DEF SeenOK, CandidateOK, PassedIsProved
  <2>3. VerdictOK'
    BY <2>1 DEF VerdictOK, Built
  <2>4. QED
    BY <2>2, <2>3
<1>3. CASE UNCHANGED <<source, upgraded, manifest, proving, candidate, copied, has, touched>>
  BY <1>3 DEF SeenOK, CandidateOK, VerdictOK, PassedIsProved, Proving, Merged, Covered,
              Proved, Built, FirstCopy, Overlaid
<1>4. ASSUME NEW keep \in BOOLEAN, NEW dry \in BOOLEAN, NEW off, NEW unseen,
             ProofBegin(keep, dry, off, unseen)
      PROVE  Goal
  <2>1. /\ proving' = "copy" /\ copied' = 0 /\ candidate' = NoTree
        /\ UNCHANGED <<source, upgraded, manifest>>
    BY <1>4 DEF ProofBegin
  <2>2. /\ has'.listed = {x \in TreeFile \ off : source[x] # Absent} /\ has'.off = off
        /\ has'.overlay = (upgraded # NoTree \/ manifest # NoManifest)
    BY <1>4 DEF ProofBegin, NoLocals
  <2>3. SeenOK'
    BY <2>1, <2>2 DEF SeenOK, NoTree
  <2>4. CandidateOK'
    BY <2>1 DEF CandidateOK, NoTree, TreeFile
  <2>5. QED
    BY <2>1, <2>3, <2>4 DEF VerdictOK, PassedIsProved
<1>5. CASE CopySource /\ proving' # "failed"
  <2>. DEFINE x == copied + 1
  <2>1. /\ proving = "copy" /\ proving' = "copy" /\ copied < NTree /\ copied' = x
        /\ candidate' = IF x \in has.listed THEN [candidate EXCEPT ![x] = Overlaid(x)]
                        ELSE candidate
        /\ UNCHANGED <<source, upgraded, has, touched>>
    BY <1>5 DEF CopySource, ProofEnds, Untouched
  <2>2. x \in TreeFile /\ candidate \in [TreeFile -> TreeTexts]
    BY <2>1 DEF ProofTypeOK, TreeFile
  <2>3. ASSUME ~touched, NEW y \in TreeFile \ has.off
        PROVE  candidate'[y] = IF y + NTree <= copied' THEN Proved(y)
                               ELSE IF y <= copied' THEN FirstCopy(y) ELSE Absent
    <3>1. candidate[y] = IF y <= copied THEN FirstCopy(y) ELSE Absent
      BY <2>1, <2>3 DEF CandidateOK, ProofTypeOK, TreeFile
    <3>2. x \in has.listed <=> x \notin has.off /\ source[x] # Absent
      BY <2>1, <2>2, <2>3 DEF SeenOK, Proving
    <3>3. CASE y = x
      BY <2>1, <2>2, <3>1, <3>2, <3>3 DEF FirstCopy, ProofTypeOK, TreeFile
    <3>4. CASE y # x
      BY <2>1, <2>2, <3>1, <3>4 DEF ProofTypeOK, TreeFile
    <3>5. QED
      BY <3>3, <3>4
  <2>4. \A y : Proved(y)' = Proved(y) /\ FirstCopy(y)' = FirstCopy(y)
    BY <2>1 DEF Proved, Covered, Merged, FirstCopy, Overlaid
  <2>5. CandidateOK'
    BY <2>1, <2>3, <2>4 DEF CandidateOK
  <2>6. QED
    BY <2>1, <2>5 DEF SeenOK, VerdictOK, PassedIsProved, Proving
<1>6. CASE CopyExtra
  <2>. DEFINE x == copied + 1 - NTree
  <2>1. /\ proving = "copy" /\ proving' = "copy" /\ copied' = copied + 1
        /\ copied >= NTree /\ copied < 2 * NTree
        /\ candidate' = IF Extra(x) THEN [candidate EXCEPT ![x] = upgraded[x]] ELSE candidate
        /\ UNCHANGED <<source, upgraded, has, touched>>
    BY <1>6 DEF CopyExtra, Untouched
  <2>2. x \in TreeFile /\ candidate \in [TreeFile -> TreeTexts] /\ copied \in Nat
    BY <2>1 DEF ProofTypeOK, TreeFile
  <2>3. ASSUME ~touched, NEW y \in TreeFile \ has.off
        PROVE  candidate'[y] = IF y + NTree <= copied' THEN Proved(y)
                               ELSE IF y <= copied' THEN FirstCopy(y) ELSE Absent
    <3>1. candidate[y] = IF y + NTree <= copied THEN Proved(y) ELSE FirstCopy(y)
      <4>1. y <= copied
        BY <2>1, <2>2 DEF TreeFile
      <4>2. QED
        BY <2>1, <2>3, <4>1 DEF CandidateOK
    <3>2. CASE y = x
      <4>1. candidate[x] = FirstCopy(x) /\ x + NTree = copied'
        BY <2>1, <2>2, <3>1, <3>2
      <4>2. ~has.overlay => upgraded = NoTree
        BY <2>1, <2>3 DEF SeenOK, Proving
      <4>3. /\ source[x] # Absent => FirstCopy(x) = Proved(x)
            /\ source[x] = Absent =>
                 Proved(x) = IF has.overlay /\ upgraded[x] \in SqlText /\ x \notin Reviewed
                             THEN upgraded[x] ELSE Absent
        BY <2>2, <3>2, <4>2, MergedCases
      <4>4. CASE source[x] = Absent
        <5>1. candidate[x] = Absent
          BY <4>1, <4>4 DEF FirstCopy
        <5>2. Extra(x) <=> has.overlay /\ upgraded[x] \in SqlText /\ x \notin Reviewed
          BY <5>1 DEF Extra
        <5>3. candidate'[x] = Proved(x)
          BY <2>1, <2>2, <4>3, <4>4, <5>1, <5>2
        <5>4. QED
          BY <3>2, <4>1, <5>3, <2>2
      <4>5. CASE source[x] # Absent
        <5>1. candidate[x] = Proved(x) /\ FirstCopy(x) = Overlaid(x)
          BY <4>1, <4>3, <4>5 DEF FirstCopy
        <5>2. Extra(x) => upgraded[x] = Proved(x)
          BY <4>1, <5>1 DEF Extra, Overlaid, SqlText
        <5>3. candidate'[x] = Proved(x)
          BY <2>1, <2>2, <5>1, <5>2
        <5>4. QED
          BY <3>2, <4>1, <5>3, <2>2
      <4>6. QED
        BY <4>4, <4>5
    <3>3. CASE y # x
      <4>1. candidate'[y] = candidate[y]
        BY <2>1, <2>2, <3>3
      <4>2. /\ y + NTree <= copied' <=> y + NTree <= copied
            /\ y <= copied'
        BY <2>1, <2>2, <3>3 DEF TreeFile
      <4>3. QED
        BY <3>1, <4>1, <4>2
    <3>4. QED
      BY <3>2, <3>3
  <2>4. \A y : Proved(y)' = Proved(y) /\ FirstCopy(y)' = FirstCopy(y)
    BY <2>1 DEF Proved, Covered, Merged, FirstCopy, Overlaid
  <2>5. CandidateOK'
    BY <2>1, <2>3, <2>4 DEF CandidateOK
  <2>6. QED
    BY <2>1, <2>5 DEF SeenOK, VerdictOK, PassedIsProved, Proving
\* From here on the candidate stays.
<1>7. CASE StartFirst
  <2>1. /\ proving = "copy" /\ proving' = "build" /\ copied = 2 * NTree
        /\ UNCHANGED <<source, upgraded, candidate, has, touched>>
    BY <1>7 DEF StartFirst, Untouched
  <2>2. \A y : Proved(y)' = Proved(y)
    BY <2>1 DEF Proved, Covered, Merged
  <2>3. CandidateOK'
    BY <2>1, <2>2 DEF CandidateOK, TreeFile
  <2>4. QED
    BY <2>1, <2>3 DEF SeenOK, VerdictOK, PassedIsProved, Proving
<1>8. ASSUME Proving, proving # "copy", Proving', proving' # "copy",
             UNCHANGED <<source, upgraded, candidate, touched>>,
             has'.listed = has.listed, has'.overlay = has.overlay, has'.off = has.off
      PROVE  SeenOK' /\ CandidateOK' /\ PassedIsProved' /\ Built' = Built
  BY <1>8 DEF SeenOK, CandidateOK, PassedIsProved, Proving, Proved, Covered, Merged, Built
<1>9. CASE BuildFirst /\ proving' # "failed"
  <2>1. PICK inv \in Builds(Built) : has' = [has EXCEPT !.candInv = inv]
    BY <1>9 DEF BuildFirst, ProofEnds
  <2>2. /\ proving = "build" /\ proving' = "live" /\ Bootstraps(Built)
        /\ UNCHANGED <<source, upgraded, candidate, touched>>
    BY <1>9 DEF BuildFirst, ProofEnds, Untouched
  <2>3. /\ has'.candInv = inv /\ has'.listed = has.listed /\ has'.overlay = has.overlay
        /\ has'.off = has.off
    BY <2>1 DEF ProofTypeOK, ProofLocals
  <2>4. \A x \in TreeFile : Built[x] # Broken /\ inv[x] \in Outcome(Built[x])
    BY <2>1, <2>2 DEF Builds, Bootstraps
  <2>7. Built' = Built
    BY <1>8, <2>2, <2>3 DEF Proving
  <2>5. VerdictOK'
    BY <2>2, <2>3, <2>4, <2>7 DEF VerdictOK, Outcome
  <2>6. QED
    BY <1>8, <2>2, <2>3, <2>5 DEF Proving
<1>10. CASE CompareLive
  <2>1. /\ proving = "live" /\ proving' = "rebuild"
        /\ UNCHANGED <<source, upgraded, candidate, touched>>
    BY <1>10 DEF CompareLive, Untouched
  <2>2. /\ has'.liveInv = Seen(liveDb) /\ has'.equal = (Seen(liveDb) = has.candInv)
        /\ has'.candInv = has.candInv /\ has'.listed = has.listed /\ has'.overlay = has.overlay
        /\ has'.off = has.off
    BY <1>10 DEF CompareLive, SameInventory, ProofTypeOK, ProofLocals
  <2>5. Built' = Built
    BY <1>8, <2>1, <2>2 DEF Proving
  <2>3. VerdictOK'
    BY <2>1, <2>2, <2>5 DEF VerdictOK, Outcome
  <2>4. QED
    BY <1>8, <2>1, <2>2, <2>3 DEF Proving
\* The claims about the candidate are claims about the tree at hand.
<1>11. ASSUME proving \in {"rebuild", "manifest"}, has.liveInv = has.candInv, ~touched
       PROVE  /\ \A x \in Covered : Merged(x) # Broken /\ has.liveInv[x] \in Outcome(Merged(x))
              /\ \A x \in TreeFile \ Covered : has.liveInv[x] = Absent
  <2>1. \A x \in TreeFile : Built[x] = Proved(x)
    BY <1>11 DEF CandidateOK, Proving, Built, Proved, Covered
  <2>2. \A x \in TreeFile : Proved(x) # Broken /\ has.liveInv[x] \in Outcome(Proved(x))
    BY <1>11, <2>1 DEF VerdictOK
  <2>3. Outcome(Absent) = {Absent} /\ Covered \subseteq TreeFile
    BY DEF Outcome, Covered
  <2>4. QED
    BY <2>2, <2>3 DEF Proved
<1>12. CASE BuildSecond /\ proving' # "failed"
  <2>1. /\ proving = "rebuild" /\ has.equal /\ proving' \in {"passed", "hash"}
        /\ proving' = "passed" => has.dry \/ ~has.overlay
        /\ UNCHANGED <<source, upgraded, candidate, has, touched, manifest>>
    BY <1>12 DEF BuildSecond, ProofEnds, Untouched
  <2>2. has.liveInv = has.candInv
    BY <2>1 DEF VerdictOK
  <2>3. VerdictOK'
    BY <2>1, <2>2 DEF VerdictOK, Outcome, Built
  <2>4. CASE proving' = "hash"
    BY <1>8, <2>1, <2>3, <2>4 DEF Proving
  <2>5. CASE proving' = "passed"
    <3>1. (\A x : Merged(x)' = Merged(x)) /\ Covered' = Covered /\ \A t : Outcome(t)' = Outcome(t)
      BY <2>1 DEF Merged, Covered, Outcome
    <3>2. PassedIsProved'
      BY <1>11, <2>1, <2>2, <2>5, <3>1 DEF PassedIsProved
    <3>3. QED
      BY <2>3, <2>5, <3>2 DEF SeenOK, CandidateOK, Proving
  <2>6. QED
    BY <2>1, <2>4, <2>5
<1>13. CASE TakeHash
  <2>1. /\ proving = "hash" /\ proving' = "manifest"
        /\ UNCHANGED <<source, upgraded, candidate, touched>>
    BY <1>13 DEF TakeHash, Untouched
  <2>2. /\ has'.hash = upgraded /\ has'.liveInv = has.liveInv /\ has'.candInv = has.candInv
        /\ has'.listed = has.listed /\ has'.overlay = has.overlay /\ has'.off = has.off
    BY <1>13 DEF TakeHash, ProofTypeOK, ProofLocals
  <2>5. Built' = Built
    BY <1>8, <2>1, <2>2 DEF Proving
  <2>3. VerdictOK'
    BY <2>1, <2>2, <2>5 DEF VerdictOK, Outcome
  <2>4. QED
    BY <1>8, <2>1, <2>2, <2>3 DEF Proving
<1>14. CASE WriteManifest
  <2>1. /\ proving = "manifest" /\ proving' = "passed" /\ manifest' = has.hash
        /\ UNCHANGED <<source, upgraded, candidate, has, touched>>
    BY <1>14 DEF WriteManifest, ProofEnds, Untouched
  <2>2. has.liveInv = has.candInv /\ (~touched => has.hash = upgraded)
    BY <2>1 DEF VerdictOK
  <2>3. (\A x : Merged(x)' = Merged(x)) /\ Covered' = Covered /\ \A t : Outcome(t)' = Outcome(t)
    BY <2>1 DEF Merged, Covered, Outcome
  <2>4. PassedIsProved'
    BY <1>11, <2>1, <2>2, <2>3 DEF PassedIsProved
  <2>5. QED
    BY <2>1, <2>4 DEF SeenOK, CandidateOK, VerdictOK, Proving
<1>15. QED
  <2>1. CASE CopySource \/ BuildFirst \/ BuildSecond \/ ProofFails \/ ProofKilled
    BY <1>1, <1>5, <1>9, <1>12, <2>1 DEF ProofFails, ProofKilled, ProofEnds
  <2>2. CASE UNCHANGED proofVars \/ \E x \in TreeFile, t \in Definitions \cup {Absent} :
                                      LiveChanges(x, t)
    BY <1>3, <2>2 DEF LiveChanges, proofVars
  <2>3. QED
    BY <1>2, <1>4, <1>6, <1>7, <1>10, <1>13, <1>14, <2>1, <2>2 DEF ProofNext

\* A proof that passes is about the tree at hand, and so is its manifest, for any
\* number of files and of proofs, whatever changes, fails or is killed.
THEOREM PassedProves == ProofSpec => []PassedIsProved
<1>1. ProvedInv => PassedIsProved
  BY DEF ProvedInv
<1>2. QED
  BY <1>1, ProvedInit, ProvedNext, PTL DEF ProofSpec

-----------------------------------------------------------------------------
(* Proof: nothing is left behind *)

ThingKinds == {"directory", "first", "second"}
MadeThings == {<<n, k>> : n \in 1..proofs, k \in ThingKinds}
Own == {Thing(k) : k \in ThingKinds}

\* Beside what earlier commands abandoned there is only what the command at work made.
ThingsOK ==
  /\ proofs \in Nat /\ abandoned \subseteq MadeThings
  /\ NothingLeftBehind
  /\ Proving => proofs >= 1 /\ things \ abandoned \subseteq Own /\ abandoned \cap Own = {}

LEMMA ThingsInit == ProofInit => ThingsOK
BY DEF ProofInit, ThingsOK, NothingLeftBehind, Proving

\* The clean-up of a command that ends, or that it was told to spare.
LEMMA ThingsEnd ==
  ASSUME ThingsOK, Proving, UNCHANGED <<has, proofs>>, NEW as \in {"passed", "failed"},
         ProofEnds(as)
  PROVE  ThingsOK'
<1>1. ~Proving'
  BY DEF ProofEnds, Proving
<1>2. CASE has.keep
  <2>1. things' = things /\ abandoned' = abandoned \cup things
    BY <1>2 DEF ProofEnds, Removed
  <2>2. Own \subseteq MadeThings
    BY DEF ThingsOK, Own, MadeThings, Thing
  <2>3. abandoned' = things /\ things \subseteq MadeThings
    BY <2>1, <2>2 DEF ThingsOK, NothingLeftBehind
  <2>4. QED
    BY <1>1, <2>1, <2>3 DEF ThingsOK, NothingLeftBehind, MadeThings
<1>3. CASE ~has.keep
  <2>1. things' = things \ Own /\ abandoned' = abandoned
    BY <1>3 DEF ProofEnds, Removed, Own, ThingKinds
  <2>2. things' = abandoned
    BY <2>1 DEF ThingsOK, NothingLeftBehind
  <2>3. QED
    BY <1>1, <2>1, <2>2 DEF ThingsOK, NothingLeftBehind, MadeThings
<1>4. QED
  BY <1>2, <1>3

LEMMA ThingsNext == ThingsOK /\ [ProofNext]_proofVars => ThingsOK'
<1>. SUFFICES ASSUME ThingsOK, [ProofNext]_proofVars PROVE ThingsOK'
  OBVIOUS
<1>1. ASSUME NEW keep \in BOOLEAN, NEW dry \in BOOLEAN, NEW off \in SUBSET Optional,
             NEW unseen \in SUBSET off, ProofBegin(keep, dry, off, unseen)
      PROVE  ThingsOK'
  <2>1. /\ ~Proving /\ Proving' /\ proofs' = proofs + 1 /\ abandoned' = abandoned
        /\ things' = things \cup {<<proofs + 1, "directory">>}
    BY <1>1 DEF ProofBegin, Proving
  <2>2. things = abandoned /\ abandoned \subseteq MadeThings /\ proofs \in Nat
    BY <2>1 DEF ThingsOK, NothingLeftBehind
  <2>3. MadeThings \subseteq MadeThings' /\ abandoned \cap Own' = {}
    BY <2>1, <2>2 DEF MadeThings, Own, Thing
  <2>4. <<proofs + 1, "directory">> \in Own'
    BY <2>1 DEF Own, Thing, ThingKinds
  <2>5. QED
    BY <2>1, <2>2, <2>3, <2>4 DEF ThingsOK, NothingLeftBehind
<1>2. CASE \/ CopySource /\ ProofEnds("failed")
           \/ BuildFirst /\ ProofEnds("failed")
           \/ BuildSecond /\ (ProofEnds("failed") \/ ProofEnds("passed"))
           \/ WriteManifest \/ ProofFails
  <2>1. Proving /\ UNCHANGED <<has, proofs>>
    BY <1>2 DEF CopySource, BuildFirst, BuildSecond, WriteManifest, ProofFails, ProofEnds,
                Proving, Untouched
  <2>2. ProofEnds("failed") \/ ProofEnds("passed")
    BY <1>2 DEF WriteManifest, ProofFails
  <2>3. QED
    BY <2>1, <2>2, ThingsEnd
<1>3. CASE ProofKilled
  <2>1. /\ Proving /\ ~Proving' /\ abandoned' = abandoned \cup things
        /\ UNCHANGED <<things, proofs>>
    BY <1>3 DEF ProofKilled, Proving
  <2>2. Own \subseteq MadeThings
    BY <2>1 DEF ThingsOK, Own, MadeThings, Thing
  <2>3. abandoned' = things /\ things \subseteq MadeThings
    BY <2>1, <2>2 DEF ThingsOK, NothingLeftBehind
  <2>4. QED
    BY <2>1, <2>3 DEF ThingsOK, NothingLeftBehind, MadeThings
<1>4. CASE StartFirst \/ CompareLive
  <2>1. /\ Proving /\ Proving' /\ UNCHANGED <<proofs, abandoned>>
        /\ \E k \in ThingKinds : things' = things \cup {Thing(k)}
    BY <1>4 DEF StartFirst, CompareLive, Proving, ThingKinds
  <2>2. QED
    BY <2>1 DEF ThingsOK, NothingLeftBehind, Own, MadeThings, Thing
<1>5. CASE UNCHANGED <<things, abandoned, proofs>> /\ (Proving' <=> Proving)
  BY <1>5 DEF ThingsOK, NothingLeftBehind, Own, MadeThings, Thing
<1>6. QED
  <2>1. CASE \/ CopySource \/ CopyExtra \/ BuildFirst \/ BuildSecond \/ TakeHash
             \/ UNCHANGED proofVars
             \/ \E x \in TreeFile :
                  \/ \E t \in SqlText \cup {Empty, Absent} : Edit(x, t)
                  \/ \E t \in Definitions \cup {Absent} : LiveChanges(x, t)
    BY <1>2, <1>5, <2>1 DEF CopySource, CopyExtra, BuildFirst, BuildSecond, TakeHash, Edit,
                            LiveChanges, Proving, proofVars
  <2>2. QED
    BY <1>1, <1>2, <1>3, <1>4, <2>1 DEF ProofNext

\* Whichever step fails, only a command that was killed or told to keep them leaves
\* directories and containers behind, for any number of files and of proofs.
THEOREM NothingStays == ProofSpec => []NothingLeftBehind
<1>1. ThingsOK => NothingLeftBehind
  BY DEF ThingsOK
<1>2. QED
  BY <1>1, ThingsInit, ThingsNext, PTL DEF ProofSpec

-----------------------------------------------------------------------------
(* DataFiles: a file is loaded whole *)

\* What the load holds of its file and of the triggers of the table.
LoadOK ==
  /\ rows = [t \in Tables |-> rows[t]] /\ triggers = [t \in Tables |-> triggers[t]]
  /\ tx = [adds |-> tx.adds, on |-> tx.on]
  /\ loading \in {"disable", "insert", "enable", "commit"} => body = jsonFiles[Head(todo)]
  /\ loading \in {"enable", "commit"} => tx.adds = body
  /\ loading \in {"disable", "enable"} => quiet
  /\ loading = "insert" /\ ~quiet => tx.on = triggers[Head(todo)]
  /\ loading = "commit" => (triggers[Head(todo)] => tx.on)

LEMMA LoadInit == DataInit => LoadOK
BY DEF DataInit, LoadOK, NoLoad

\* A command that ends, or that nobody has started loading, holds nothing.
LEMMA LoadRests ==
  ASSUME LoadOK, rows' = [t \in Tables |-> rows'[t]],
         triggers' = [t \in Tables |-> triggers'[t]], tx' = tx \/ tx' = NoLoad,
         loading' \notin {"disable", "insert", "enable", "commit"}
  PROVE  LoadOK'
BY DEF LoadOK, NoLoad

LEMMA LoadNext == LoadOK /\ [DataNext]_dataVars => LoadOK'
<1>. SUFFICES ASSUME LoadOK, [DataNext]_dataVars PROVE LoadOK'
  OBVIOUS
<1>0. rows = [t \in Tables |-> rows[t]] /\ triggers = [t \in Tables |-> triggers[t]]
  BY DEF LoadOK
<1>1. CASE \/ \E S \in (SUBSET Tables) \ {{}} : DumpBegin(S)
           \/ ReadTable \/ \E q \in BOOLEAN : LoadBegin(q)
  BY <1>0, <1>1, LoadRests DEF DumpBegin, ReadTable, LoadBegin
<1>2. CASE WriteJson
  BY <1>0, <1>2, LoadRests DEF WriteJson, LoadEnds
<1>3. CASE DataDies
  BY <1>0, <1>3, LoadRests DEF DataDies, LoadEnds
<1>4. CASE ReadJson
  <2>1. /\ tx' = [adds |-> {}, on |-> triggers[Head(todo)]] /\ body' = jsonFiles[Head(todo)]
        /\ loading' = IF quiet THEN "disable" ELSE "insert"
        /\ UNCHANGED <<rows, triggers, jsonFiles, todo, quiet>>
    BY <1>4 DEF ReadJson
  <2>2. QED
    BY <1>0, <2>1 DEF LoadOK
<1>5. CASE Disable
  BY <1>0, <1>5 DEF Disable, LoadOK
<1>6. CASE Insert
  <2>1. CASE LoadEnds
    BY <1>0, <1>6, <2>1, LoadRests DEF Insert, LoadEnds
  <2>2. CASE /\ tx' = [tx EXCEPT !.adds = body]
             /\ loading' = IF quiet THEN "enable" ELSE "commit"
             /\ UNCHANGED <<todo, body>>
    BY <1>0, <1>6, <2>2 DEF Insert, LoadOK
  <2>3. QED
    BY <1>6, <2>1, <2>2 DEF Insert, Admitted
<1>7. CASE Enable
  BY <1>0, <1>7 DEF Enable, Enabled, LoadOK
<1>8. CASE CommitLoad
  <2>1. /\ rows' = [t \in Tables |-> rows'[t]]
        /\ triggers' = [t \in Tables |-> triggers'[t]]
    BY <1>0, <1>8 DEF CommitLoad, LoadOK
  <2>2. QED
    BY <1>0, <1>8, <2>1, LoadRests DEF CommitLoad
<1>9. ASSUME NEW t \in Tables, NEW S \in SUBSET Rows, OthersWrite(t, S)
      PROVE  LoadOK'
  BY <1>0, <1>9 DEF OthersWrite, LoadOK
<1>10. CASE UNCHANGED dataVars
  BY <1>10 DEF dataVars, LoadOK
<1>11. QED
  BY <1>1, <1>2, <1>3, <1>4, <1>5, <1>6, <1>7, <1>8, <1>9, <1>10 DEF DataNext

\* A file is loaded whole or not at all and no load leaves triggers off that were on,
\* for any number of tables, rows and commands, whoever writes meanwhile.
THEOREM LoadsAreWhole == DataSpec => LoadIsWhole
<1>. DEFINE Loaded ==
       \A t \in Tables : /\ rows'[t] # rows[t] => rows'[t] = rows[t] \cup jsonFiles[t]
                         /\ triggers[t] => triggers'[t]
<1>1. LoadOK /\ [DataNext]_dataVars => [loading' # loading => Loaded]_dataVars
  <2>. SUFFICES ASSUME LoadOK, DataNext, loading' # loading PROVE Loaded
    OBVIOUS
  <2>1. CASE CommitLoad
    BY <2>1 DEF CommitLoad, LoadOK
  <2>2. CASE ~CommitLoad
    BY <2>2 DEF DataNext, DumpBegin, ReadTable, WriteJson, LoadBegin, ReadJson, Disable, Insert,
                Enable, DataDies, OthersWrite
  <2>3. QED
    BY <2>1, <2>2
<1>2. QED
  BY <1>1, LoadInit, LoadNext, PTL DEF DataSpec, LoadIsWhole

-----------------------------------------------------------------------------
(* DataFiles: what a dump wrote comes back *)

DataPlaces == {"idle", "read", "write", "open", "disable", "insert", "enable", "commit", "loaded"}
Inserting == {"open", "disable", "insert", "enable", "commit"}

DataTypeOK ==
  /\ rows \in [Tables -> SUBSET Rows]
  /\ jsonFiles \in [Tables -> (SUBSET Rows) \cup {NoFile, CutOff}]
  /\ dumped \in [Tables -> SUBSET Rows]
  /\ loading \in DataPlaces
  /\ todo \in Seq(Tables)

\* What is left to do is there once; nothing is left when a load has succeeded.
TodoOK ==
  /\ \A i, j \in 1..Len(todo) : todo[i] = todo[j] => i = j
  /\ loading \notin {"idle", "loaded"} => todo # <<>>
  /\ loading \in {"idle", "loaded"} => todo = <<>>

\* A file that was written whole has what the dump read, and no file means that
\* nothing was dumped.
FilesOK ==
  /\ \A t \in Tables : /\ jsonFiles[t] = NoFile => dumped[t] = {}
                       /\ jsonFiles[t] \notin {NoFile, CutOff} => jsonFiles[t] = dumped[t]
  /\ loading = "write" => body \in SUBSET Rows

\* What is about to be committed is the content of a file that is whole.
InsertsOK == loading \in {"enable", "commit"} => body \in SUBSET Rows

\* A load on empty tables: those it has passed have the rows of their file, those it
\* has not, and those that have no file, are still empty.
Passed(t) == jsonFiles[t] # NoFile /\ \A i \in 1..Len(todo) : todo[i] # t
RestoredOK ==
  loading \in Inserting \cup {"loaded"} /\ onEmpty =>
    \A t \in Tables : rows[t] = IF Passed(t) THEN jsonFiles[t] ELSE {}

DataInv == DataTypeOK /\ TodoOK /\ FilesOK /\ InsertsOK /\ RestoredOK /\ LoadOK

\* A list of tables: each once, and all of them.
LEMMA TablesListed ==
  ASSUME NEW S \in SUBSET Tables
  PROVE  /\ Ascending(S) \in Seq(Tables)
         /\ S # {} => Ascending(S) # <<>>
         /\ \A i, j \in 1..Len(Ascending(S)) : Ascending(S)[i] = Ascending(S)[j] => i = j
         /\ \A t \in S : \E i \in 1..Len(Ascending(S)) : Ascending(S)[i] = t
<1>. DEFINE n == Cardinality(S)
            A == Ascending(S)
<1>1. IsFiniteSet(S) /\ S \subseteq Int
  <2>1. IsFiniteSet(Tables) /\ Tables \subseteq Nat \ {0}
    BY DataAssumption
  <2>2. IsFiniteSet(S)
    BY <2>1, FS_Subset
  <2>3. QED
    BY <2>1, <2>2
<1>2. /\ n \in Nat /\ A \in [1..n -> S]
      /\ \A x \in S : \E i \in 1..n : A[i] = x
      /\ \A i, j \in 1..n : A[i] = A[j] => i = j
  BY <1>1, AscendingLists
<1>. HIDE DEF n, A
<1>3. A \in Seq(S) /\ Len(A) = n
  BY <1>2
<1>4. A \in Seq(Tables)
  BY <1>3
<1>5. S # {} => A # <<>>
  <2>. SUFFICES ASSUME S # {} PROVE Len(A) # 0
    BY <1>3
  <2>1. PICK x \in S : TRUE
    OBVIOUS
  <2>2. \E i \in 1..n : A[i] = x
    BY <1>2
  <2>3. QED
    BY <1>2, <1>3, <2>2
<1>6. QED
  BY <1>2, <1>3, <1>4, <1>5 DEF A

\* What is left of a list whose first is done.
LEMMA TailOfTables ==
  ASSUME NEW s \in Seq(Tables), s # <<>>,
         \A i, j \in 1..Len(s) : s[i] = s[j] => i = j
  PROVE  /\ Head(s) \in Tables /\ Head(s) = s[1] /\ Tail(s) \in Seq(Tables)
         /\ Len(s) # 1 => Tail(s) # <<>>
         /\ \A i, j \in 1..Len(Tail(s)) : Tail(s)[i] = Tail(s)[j] => i = j
         /\ \A t : (\E i \in 1..Len(s) : s[i] = t) <=>
                     t = Head(s) \/ \E i \in 1..Len(Tail(s)) : Tail(s)[i] = t
         /\ \A i \in 1..Len(Tail(s)) : Tail(s)[i] # Head(s)
<1>. DEFINE n == Len(s)
            r == Tail(s)
<1>1. /\ n \in Nat /\ n >= 1 /\ r \in Seq(Tables) /\ Len(r) = n - 1
      /\ Head(s) \in Tables /\ Head(s) = s[1]
  OBVIOUS
<1>2. \A i \in 1..(n - 1) : r[i] = s[i + 1] /\ i + 1 \in 1..n
  BY <1>1
<1>. HIDE DEF n, r
<1>3. \A i, j \in 1..(n - 1) : r[i] = r[j] => i = j
  <2>. SUFFICES ASSUME NEW i \in 1..(n - 1), NEW j \in 1..(n - 1), r[i] = r[j] PROVE i = j
    OBVIOUS
  <2>1. s[i + 1] = s[j + 1] /\ i + 1 \in 1..n /\ j + 1 \in 1..n
    BY <1>2
  <2>2. i + 1 = j + 1
    BY <2>1 DEF n
  <2>3. QED
    BY <1>1, <2>2
<1>4. \A i \in 1..(n - 1) : r[i] # s[1]
  <2>. SUFFICES ASSUME NEW i \in 1..(n - 1), r[i] = s[1] PROVE FALSE
    OBVIOUS
  <2>1. s[i + 1] = s[1] /\ i + 1 \in 1..n /\ 1 \in 1..n
    BY <1>1, <1>2
  <2>2. i + 1 = 1
    BY <2>1 DEF n
  <2>3. QED
    BY <1>1, <2>2
<1>5. ASSUME NEW t
      PROVE  (\E i \in 1..n : s[i] = t) <=> t = s[1] \/ \E i \in 1..(n - 1) : r[i] = t
  <2>1. ASSUME NEW i \in 1..n, s[i] = t PROVE t = s[1] \/ \E j \in 1..(n - 1) : r[j] = t
    <3>1. CASE i = 1
      BY <2>1, <3>1
    <3>2. CASE i # 1
      <4>1. i - 1 \in 1..(n - 1) /\ (i - 1) + 1 = i
        BY <1>1, <3>2
      <4>2. r[i - 1] = t
        BY <1>2, <2>1, <4>1
      <4>3. QED
        BY <4>1, <4>2
    <3>3. QED
      BY <3>1, <3>2
  <2>2. 1 \in 1..n
    BY <1>1
  <2>3. QED
    BY <1>2, <2>1, <2>2
<1>6. Len(s) # 1 => r # <<>>
  BY <1>1 DEF n
<1>7. QED
  BY <1>1, <1>3, <1>4, <1>5, <1>6 DEF n, r

LEMMA DataInvInit == DataInit => DataInv
<1>. SUFFICES ASSUME DataInit PROVE DataInv
  OBVIOUS
<1>1. LoadOK
  BY LoadInit
<1>2. DataTypeOK
  BY DEF DataInit, DataTypeOK, DataPlaces
<1>. TodoOK /\ FilesOK
  BY DEF DataInit, TodoOK, FilesOK
<1>3. InsertsOK /\ RestoredOK
  BY DEF DataInit, InsertsOK, RestoredOK, Inserting
<1>4. QED
  BY <1>1, <1>2, <1>3 DEF DataInv

\* A command that ends, or is not a load, has nothing to restore.
LEMMA EndsClean ==
  ASSUME DataInv, loading' = "idle", todo' = <<>>, UNCHANGED rows,
         jsonFiles' \in [Tables -> (SUBSET Rows) \cup {NoFile, CutOff}],
         dumped' \in [Tables -> SUBSET Rows],
         \A t \in Tables : /\ jsonFiles'[t] = NoFile => dumped'[t] = {}
                           /\ jsonFiles'[t] \notin {NoFile, CutOff} => jsonFiles'[t] = dumped'[t],
         LoadOK'
  PROVE  DataInv'
<1>1. DataTypeOK' /\ TodoOK' /\ FilesOK'
  BY DEF DataInv, DataTypeOK, TodoOK, FilesOK, DataPlaces
<1>2. InsertsOK' /\ RestoredOK'
  BY DEF InsertsOK, RestoredOK, Inserting
<1>3. QED
  BY <1>1, <1>2 DEF DataInv

\* A step from one statement of a load to the next.
LEMMA LoadGoesOn ==
  ASSUME DataInv, loading \in Inserting, loading' \in Inserting, LoadOK',
         UNCHANGED <<rows, jsonFiles, todo, dumped, onEmpty>>,
         loading' \in {"enable", "commit"} => body' \in SUBSET Rows
  PROVE  DataInv'
<1>1. DataTypeOK' /\ TodoOK' /\ FilesOK'
  BY DEF DataInv, DataTypeOK, TodoOK, FilesOK, DataPlaces, Inserting
<1>2. InsertsOK' /\ RestoredOK'
  BY DEF DataInv, InsertsOK, RestoredOK, Inserting, Passed
<1>3. QED
  BY <1>1, <1>2 DEF DataInv

LEMMA DataInvNext == DataInv /\ [DataNext]_dataVars => DataInv'
<1>. SUFFICES ASSUME DataInv, [DataNext]_dataVars PROVE DataInv'
  OBVIOUS
<1>0. LoadOK'
  BY LoadNext DEF DataInv
<1>1. /\ DataTypeOK /\ TodoOK /\ FilesOK /\ InsertsOK /\ RestoredOK /\ LoadOK
  BY DEF DataInv
<1>2. ASSUME NEW S \in (SUBSET Tables) \ {{}}, DumpBegin(S)
      PROVE  DataInv'
  <2>1. /\ loading' = "read" /\ todo' = Ascending(S)
        /\ UNCHANGED <<rows, jsonFiles, body, dumped, onEmpty>>
    BY <1>2 DEF DumpBegin
  <2>2. /\ todo' \in Seq(Tables) /\ todo' # <<>>
        /\ \A i, j \in 1..Len(todo') : todo'[i] = todo'[j] => i = j
    <3>1. S \in SUBSET Tables /\ S # {}
      OBVIOUS
    <3>2. /\ Ascending(S) \in Seq(Tables) /\ Ascending(S) # <<>>
          /\ \A i, j \in 1..Len(Ascending(S)) : Ascending(S)[i] = Ascending(S)[j] => i = j
      BY <3>1, TablesListed
    <3>3. QED
      BY <2>1, <3>2
  <2>3. DataTypeOK' /\ TodoOK' /\ FilesOK'
    BY <1>1, <2>1, <2>2 DEF DataTypeOK, TodoOK, FilesOK, DataPlaces
  <2>4. InsertsOK' /\ RestoredOK'
    BY <2>1 DEF InsertsOK, RestoredOK, Inserting
  <2>5. QED
    BY <1>0, <2>3, <2>4 DEF DataInv
<1>3. CASE ReadTable
  <2>1. /\ loading = "read" /\ loading' = "write" /\ body' = rows[Head(todo)]
        /\ UNCHANGED <<rows, jsonFiles, todo, dumped, onEmpty>>
    BY <1>3 DEF ReadTable
  <2>2. Head(todo) \in Tables
    BY <1>1, <2>1, TailOfTables DEF DataTypeOK, TodoOK
  <2>3. body' \in SUBSET Rows
    BY <1>1, <2>1, <2>2 DEF DataTypeOK
  <2>4. DataTypeOK' /\ TodoOK' /\ FilesOK'
    BY <1>1, <2>1, <2>3 DEF DataTypeOK, TodoOK, FilesOK, DataPlaces
  <2>5. InsertsOK' /\ RestoredOK'
    BY <2>1 DEF InsertsOK, RestoredOK, Inserting
  <2>6. QED
    BY <1>0, <2>4, <2>5 DEF DataInv
<1>4. CASE WriteJson
  <2>. DEFINE t == Head(todo)
  <2>1. /\ loading = "write" /\ jsonFiles' = [jsonFiles EXCEPT ![t] = body]
        /\ dumped' = [dumped EXCEPT ![t] = body] /\ UNCHANGED <<rows, onEmpty>>
        /\ \/ Len(todo) = 1 /\ todo' = <<>> /\ loading' = "idle"
           \/ Len(todo) # 1 /\ todo' = Tail(todo) /\ loading' = "read"
    BY <1>4 DEF WriteJson, FileOf, LoadEnds
  <2>2. /\ t \in Tables /\ body \in SUBSET Rows
        /\ Tail(todo) \in Seq(Tables) /\ (Len(todo) # 1 => Tail(todo) # <<>>)
        /\ \A i, j \in 1..Len(Tail(todo)) : Tail(todo)[i] = Tail(todo)[j] => i = j
    BY <1>1, <2>1, TailOfTables DEF DataTypeOK, TodoOK, FilesOK
  <2>. HIDE DEF t
  <2>3. /\ jsonFiles' \in [Tables -> (SUBSET Rows) \cup {NoFile, CutOff}]
        /\ dumped' \in [Tables -> SUBSET Rows]
    BY <1>1, <2>1, <2>2 DEF DataTypeOK
  <2>4. ASSUME NEW u \in Tables
        PROVE  /\ jsonFiles'[u] = NoFile => dumped'[u] = {}
               /\ jsonFiles'[u] \notin {NoFile, CutOff} => jsonFiles'[u] = dumped'[u]
    <3>1. CASE u = t
      <4>1. jsonFiles'[u] = body /\ dumped'[u] = body
        BY <1>1, <2>1, <2>2, <3>1 DEF DataTypeOK
      <4>2. body # NoFile
        BY <2>2, DataAssumption
      <4>3. QED
        BY <4>1, <4>2
    <3>2. CASE u # t
      <4>1. jsonFiles'[u] = jsonFiles[u] /\ dumped'[u] = dumped[u]
        BY <1>1, <2>1, <3>2 DEF DataTypeOK
      <4>2. QED
        BY <1>1, <4>1 DEF FilesOK
    <3>3. QED
      BY <3>1, <3>2
  <2>5. CASE Len(todo) = 1
    BY <1>0, <2>1, <2>3, <2>4, <2>5, EndsClean
  <2>6. CASE Len(todo) # 1
    <3>1. loading' = "read" /\ todo' = Tail(todo)
      BY <2>1, <2>6
    <3>2. DataTypeOK' /\ TodoOK' /\ FilesOK'
      BY <1>1, <2>1, <2>2, <2>3, <2>4, <2>6, <3>1 DEF DataTypeOK, TodoOK, FilesOK, DataPlaces
    <3>3. InsertsOK' /\ RestoredOK'
      BY <3>1 DEF InsertsOK, RestoredOK, Inserting
    <3>4. QED
      BY <1>0, <3>2, <3>3 DEF DataInv
  <2>7. QED
    BY <2>5, <2>6
<1>5. ASSUME NEW q \in BOOLEAN, LoadBegin(q)
      PROVE  DataInv'
  <2>. DEFINE S == {t \in Tables : jsonFiles[t] # NoFile}
  <2>1. /\ loading' = "open" /\ todo' = Ascending(S) /\ todo' # <<>>
        /\ onEmpty' = (\A t \in Tables : rows[t] = {})
        /\ UNCHANGED <<rows, jsonFiles, dumped>>
    BY <1>5 DEF LoadBegin, Collected
  <2>2. /\ todo' \in Seq(Tables)
        /\ \A i, j \in 1..Len(todo') : todo'[i] = todo'[j] => i = j
        /\ \A t \in S : \E i \in 1..Len(todo') : todo'[i] = t
    BY <2>1, TablesListed
  <2>3. DataTypeOK' /\ TodoOK' /\ FilesOK'
    BY <1>1, <2>1, <2>2 DEF DataTypeOK, TodoOK, FilesOK, DataPlaces
  <2>4. InsertsOK'
    BY <2>1 DEF InsertsOK
  <2>5. \A t \in Tables : ~Passed(t)'
    BY <2>1, <2>2 DEF Passed
  <2>6. RestoredOK'
    BY <2>1, <2>5 DEF RestoredOK
  <2>7. QED
    BY <1>0, <2>3, <2>4, <2>6 DEF DataInv
<1>6. CASE ReadJson \/ Disable
  <2>1. /\ loading \in Inserting /\ loading' \in {"disable", "insert"}
        /\ UNCHANGED <<rows, jsonFiles, todo, dumped, onEmpty>>
    BY <1>6 DEF ReadJson, Disable, Inserting
  <2>2. QED
    BY <1>0, <2>1, LoadGoesOn DEF Inserting
<1>7. CASE Insert
  <2>1. loading = "insert" /\ UNCHANGED <<rows, jsonFiles, dumped, onEmpty>>
    BY <1>7 DEF Insert
  <2>2. CASE LoadEnds
    <3>1. loading' = "idle" /\ todo' = <<>>
      BY <2>2 DEF LoadEnds
    <3>2. QED
      BY <1>0, <1>1, <2>1, <3>1, EndsClean DEF DataTypeOK, FilesOK
  <2>3. CASE ~LoadEnds
    <3>. DEFINE new == IF body = CutOff THEN NoFile ELSE Admitted(Head(todo), body)
    <3>1. /\ new # NoFile /\ loading' \in {"enable", "commit"} /\ UNCHANGED <<todo, body>>
      BY <1>7, <2>3 DEF Insert
    <3>2. body # CutOff /\ body # NoFile
      BY <3>1 DEF Admitted
    <3>3. Head(todo) \in Tables /\ body = jsonFiles[Head(todo)]
      <4>1. Head(todo) \in Tables
        BY <1>1, <2>1, TailOfTables DEF DataTypeOK, TodoOK
      <4>2. body = jsonFiles[Head(todo)]
        BY <1>1, <2>1 DEF LoadOK
      <4>3. QED
        BY <4>1, <4>2
    <3>4. body \in SUBSET Rows
      <4>1. jsonFiles[Head(todo)] \in (SUBSET Rows) \cup {NoFile, CutOff}
        BY <1>1, <3>3 DEF DataTypeOK
      <4>2. QED
        BY <3>2, <3>3, <4>1
    <3>5. QED
      BY <1>0, <2>1, <3>1, <3>4, LoadGoesOn DEF Inserting
  <2>4. QED
    BY <2>2, <2>3
<1>8. CASE Enable
  <2>1. /\ loading = "enable" /\ loading' = "commit"
        /\ UNCHANGED <<rows, jsonFiles, todo, dumped, onEmpty, body>>
    BY <1>8 DEF Enable
  <2>2. QED
    BY <1>0, <1>1, <2>1, LoadGoesOn DEF Inserting, InsertsOK
<1>9. CASE CommitLoad
  <2>. DEFINE t == Head(todo)
  <2>1. /\ loading = "commit" /\ rows' = [rows EXCEPT ![t] = @ \cup tx.adds]
        /\ UNCHANGED <<jsonFiles, dumped, onEmpty>>
        /\ \/ Len(todo) = 1 /\ todo' = <<>> /\ loading' = "loaded"
           \/ Len(todo) # 1 /\ todo' = Tail(todo) /\ loading' = "open"
    BY <1>9 DEF CommitLoad
  <2>2. /\ t \in Tables /\ t = todo[1] /\ todo # <<>> /\ todo \in Seq(Tables)
        /\ Tail(todo) \in Seq(Tables) /\ (Len(todo) # 1 => Tail(todo) # <<>>)
        /\ \A i, j \in 1..Len(Tail(todo)) : Tail(todo)[i] = Tail(todo)[j] => i = j
    BY <1>1, <2>1, TailOfTables DEF DataTypeOK, TodoOK
  <2>3. /\ \A u : (\E i \in 1..Len(todo) : todo[i] = u) <=>
                    u = t \/ \E i \in 1..Len(Tail(todo)) : Tail(todo)[i] = u
        /\ \A i \in 1..Len(Tail(todo)) : Tail(todo)[i] # t
    BY <1>1, <2>1, TailOfTables DEF DataTypeOK, TodoOK
  <2>4. tx.adds = jsonFiles[t] /\ jsonFiles[t] \in SUBSET Rows
    BY <1>1, <2>1 DEF LoadOK, InsertsOK
  <2>. HIDE DEF t
  <2>5. jsonFiles[t] # NoFile
    BY <2>4, DataAssumption
  <2>6. rows' \in [Tables -> SUBSET Rows]
    BY <1>1, <2>1, <2>2, <2>4 DEF DataTypeOK
  <2>7. DataTypeOK' /\ TodoOK' /\ FilesOK'
    <3>1. CASE Len(todo) = 1
      BY <1>1, <2>1, <2>6, <3>1 DEF DataTypeOK, TodoOK, FilesOK, DataPlaces
    <3>2. CASE Len(todo) # 1
      BY <1>1, <2>1, <2>2, <2>6, <3>2 DEF DataTypeOK, TodoOK, FilesOK, DataPlaces
    <3>3. QED
      BY <3>1, <3>2
  <2>8. \A u \in Tables : (\E i \in 1..Len(todo') : todo'[i] = u) <=>
                            \E i \in 1..Len(Tail(todo)) : Tail(todo)[i] = u
    <3>1. CASE Len(todo) = 1
      <4>1. todo' = <<>> /\ Len(Tail(todo)) = 0
        BY <2>1, <2>2, <3>1
      <4>2. QED
        BY <4>1
    <3>2. CASE Len(todo) # 1
      BY <2>1, <3>2
    <3>3. QED
      BY <3>1, <3>2
  <2>9. ASSUME onEmpty, NEW u \in Tables
        PROVE  rows'[u] = IF Passed(u)' THEN jsonFiles'[u] ELSE {}
    <3>1. rows[u] = IF Passed(u) THEN jsonFiles[u] ELSE {}
      BY <1>1, <2>1, <2>9 DEF RestoredOK, Inserting
    <3>2. CASE u = t
      <4>1. ~Passed(u)
        BY <2>3, <3>2 DEF Passed
      <4>2. rows'[u] = rows[u] \cup tx.adds
        BY <1>1, <2>1, <2>2, <3>2 DEF DataTypeOK
      <4>3. rows'[u] = jsonFiles[u]
        BY <2>4, <3>1, <3>2, <4>1, <4>2
      <4>4. Passed(u)'
        BY <2>1, <2>3, <2>5, <2>8, <3>2 DEF Passed
      <4>5. QED
        BY <2>1, <4>3, <4>4
    <3>3. CASE u # t
      <4>1. rows'[u] = rows[u]
        BY <1>1, <2>1, <3>3 DEF DataTypeOK
      <4>2. Passed(u)' <=> Passed(u)
        BY <2>1, <2>3, <2>8, <3>3 DEF Passed
      <4>3. QED
        BY <2>1, <3>1, <4>1, <4>2
    <3>4. QED
      BY <3>2, <3>3
  <2>10. RestoredOK'
    BY <2>1, <2>9 DEF RestoredOK
  <2>11. InsertsOK'
    BY <2>1 DEF InsertsOK
  <2>12. QED
    BY <1>0, <2>7, <2>10, <2>11 DEF DataInv
<1>10. CASE DataDies
  <2>1. /\ loading \notin {"idle", "loaded"} /\ loading' = "idle" /\ todo' = <<>>
        /\ UNCHANGED <<rows, dumped>>
        /\ \/ UNCHANGED jsonFiles
           \/ jsonFiles' = [jsonFiles EXCEPT ![Head(todo)] = CutOff]
    BY <1>10 DEF DataDies, LoadEnds, FileOf
  <2>2. jsonFiles' \in [Tables -> (SUBSET Rows) \cup {NoFile, CutOff}]
    <3>1. jsonFiles \in [Tables -> (SUBSET Rows) \cup {NoFile, CutOff}]
      BY <1>1 DEF DataTypeOK
    <3>2. CASE UNCHANGED jsonFiles
      BY <3>1, <3>2
    <3>3. CASE jsonFiles' = [jsonFiles EXCEPT ![Head(todo)] = CutOff]
      BY <3>1, <3>3
    <3>4. QED
      BY <2>1, <3>2, <3>3
  <2>3. ASSUME NEW u \in Tables
        PROVE  jsonFiles'[u] = jsonFiles[u] \/ jsonFiles'[u] = CutOff
    BY <1>1, <2>1 DEF DataTypeOK
  <2>4. ASSUME NEW u \in Tables
        PROVE  /\ jsonFiles'[u] = NoFile => dumped'[u] = {}
               /\ jsonFiles'[u] \notin {NoFile, CutOff} => jsonFiles'[u] = dumped'[u]
    BY <1>1, <2>1, <2>3, DataAssumption DEF FilesOK
  <2>5. dumped' \in [Tables -> SUBSET Rows]
    BY <1>1, <2>1 DEF DataTypeOK
  <2>6. QED
    BY <1>0, <2>1, <2>2, <2>4, <2>5, EndsClean
<1>11. ASSUME NEW t \in Tables, NEW S \in SUBSET Rows, OthersWrite(t, S)
       PROVE  DataInv'
  <2>1. /\ rows' = [rows EXCEPT ![t] = S] /\ onEmpty' = (onEmpty /\ loading = "idle")
        /\ UNCHANGED <<jsonFiles, loading, todo, body, dumped>>
    BY <1>11 DEF OthersWrite
  <2>2. DataTypeOK' /\ TodoOK' /\ FilesOK'
    BY <1>1, <2>1 DEF DataTypeOK, TodoOK, FilesOK
  <2>3. InsertsOK' /\ RestoredOK'
    BY <1>1, <2>1 DEF InsertsOK, RestoredOK, Inserting
  <2>4. QED
    BY <1>0, <2>2, <2>3 DEF DataInv
<1>12. CASE UNCHANGED dataVars
  <2>1. UNCHANGED <<rows, jsonFiles, loading, todo, body, dumped, onEmpty>>
    BY <1>12 DEF dataVars
  <2>2. QED
    BY <1>0, <1>1, <2>1 DEF DataInv, DataTypeOK, TodoOK, FilesOK, InsertsOK, RestoredOK, Passed
<1>13. QED
  BY <1>2, <1>3, <1>4, <1>5, <1>6, <1>7, <1>8, <1>9, <1>10, <1>11, <1>12 DEF DataNext

\* A load that succeeds on empty tables brings back what the dump read, for any
\* tables, rows, files and number of commands, and whoever writes meanwhile.
THEOREM DumpComesBack == DataSpec => []RestoresTheDump
<1>1. DataInv => RestoresTheDump
  <2>. SUFFICES ASSUME DataInv, loading = "loaded", onEmpty, NEW t \in Tables
                PROVE  rows[t] = dumped[t]
    BY DEF RestoresTheDump
  <2>1. todo = <<>>
    BY DEF DataInv, TodoOK
  <2>2. Passed(t) <=> jsonFiles[t] # NoFile
    BY <2>1 DEF Passed
  <2>3. rows[t] = IF jsonFiles[t] # NoFile THEN jsonFiles[t] ELSE {}
    BY <2>2 DEF DataInv, RestoredOK
  <2>4. CASE jsonFiles[t] = NoFile
    BY <2>3, <2>4 DEF DataInv, FilesOK
  <2>5. CASE jsonFiles[t] # NoFile
    <3>1. rows[t] = jsonFiles[t] /\ rows[t] \in SUBSET Rows
      BY <2>3, <2>5 DEF DataInv, DataTypeOK
    <3>2. jsonFiles[t] # CutOff
      BY <3>1, DataAssumption
    <3>3. QED
      BY <2>5, <3>1, <3>2 DEF DataInv, FilesOK
  <2>6. QED
    BY <2>4, <2>5
<1>2. QED
  BY <1>1, DataInvInit, DataInvNext, PTL DEF DataSpec

-----------------------------------------------------------------------------
(* Destroy: the least set with what stands on a member *)

\* X has the members of S that are in P, and with a member of P what stands on it.
Closed(X, S, P) == S \cap P \subseteq X /\ \A p \in P : Under(p) \cap X # {} => p \in X

\* A cascade is in all closed sets.
LEMMA CascadeIsLeast ==
  \A S, P : Cascade(S, P) = {o \in P : \A X \in SUBSET P : Closed(X, S, P) => o \in X}
<1>. TAKE S, P
<1>. DEFINE above == {(S \cap P) \cup Y : Y \in SUBSET (P \ S)}
            closed == {X \in above : \A p \in P \ X : Under(p) \cap X = {}}
<1>1. Cascade(S, P) = {o \in P : \A X \in closed : o \in X}
  BY DEF Cascade
<1>2. ASSUME NEW X \in SUBSET P, Closed(X, S, P) PROVE X \in closed
  <2>1. X \ S \in SUBSET (P \ S) /\ X = (S \cap P) \cup (X \ S)
    BY <1>2 DEF Closed
  <2>2. X \in above
    BY <2>1
  <2>3. QED
    BY <1>2, <2>2 DEF Closed
<1>3. ASSUME NEW X \in closed PROVE X \in SUBSET P /\ Closed(X, S, P)
  BY DEF Closed
<1>. HIDE DEF closed
<1>4. QED
  BY <1>1, <1>2, <1>3

\* A cascade takes its roots and what stands on a member, and no more than P.
LEMMA CascadeCloses ==
  ASSUME NEW S, NEW P
  PROVE  /\ Cascade(S, P) \subseteq P
         /\ S \cap P \subseteq Cascade(S, P)
         /\ \A p \in P : Under(p) \cap Cascade(S, P) # {} => p \in Cascade(S, P)
<1>. DEFINE C == Cascade(S, P)
<1>1. C = {o \in P : \A X \in SUBSET P : Closed(X, S, P) => o \in X}
  BY CascadeIsLeast
<1>2. ASSUME NEW p \in P, Under(p) \cap C # {} PROVE p \in C
  <2>. SUFFICES ASSUME NEW X \in SUBSET P, Closed(X, S, P) PROVE p \in X
    BY <1>1
  <2>1. C \subseteq X
    BY <1>1
  <2>2. Under(p) \cap X # {}
    BY <1>2, <2>1
  <2>3. QED
    BY <2>2 DEF Closed
<1>3. QED
  BY <1>1, <1>2 DEF Closed

\* What a cascade takes beside its roots stands on something it takes.
LEMMA CascadeHasReasons ==
  ASSUME NEW S, NEW P, NEW o \in Cascade(S, P), o \notin S
  PROVE  Under(o) \cap Cascade(S, P) # {}
<1>. DEFINE C == Cascade(S, P)
            X == C \ {o}
<1>. SUFFICES ASSUME Under(o) \cap C = {} PROVE FALSE
  OBVIOUS
<1>1. C \subseteq P /\ S \cap P \subseteq C /\ \A p \in P : Under(p) \cap C # {} => p \in C
  BY CascadeCloses
<1>2. X \in SUBSET P /\ S \cap P \subseteq X
  BY <1>1
<1>3. ASSUME NEW p \in P, Under(p) \cap X # {} PROVE p \in X
  <2>1. Under(p) \cap C # {}
    BY <1>3
  <2>2. p \in C
    BY <1>1, <2>1
  <2>3. p # o
    BY <2>1
  <2>4. QED
    BY <2>2, <2>3
<1>4. o \in X
  <2>1. \A Y \in SUBSET P : Closed(Y, S, P) => o \in Y
    BY CascadeIsLeast
  <2>2. Closed(X, S, P)
    BY <1>2, <1>3 DEF Closed
  <2>. HIDE DEF X
  <2>3. QED
    BY <1>2, <2>1, <2>2
<1>5. QED
  BY <1>4

\* Nothing fails, nothing goes.
LEMMA CascadeOfNothing == \A P : Cascade({}, P) = {}
<1>. TAKE P
<1>1. {} \in SUBSET P /\ {} \cap P \subseteq {} /\ \A p \in P : Under(p) \cap {} # {} => p \in {}
  OBVIOUS
<1>2. Closed({}, {}, P)
  BY <1>1 DEF Closed
<1>3. QED
  BY <1>1, <1>2, CascadeIsLeast

-----------------------------------------------------------------------------
(* Destroy: what the drops cover *)

\* d names o.
Targets(d, o) == IF d.what = "schema" THEN SchemaOf[o] = d.of ELSE d.of = o

\* What a destroy with these flags promises to drop.
Wanted(o, extensions) ==
  /\ SchemaOf[o] \in Range(Declared) /\ KindOf[o] \in Inventoried
  /\ OwnerOf[o] = NoOwner /\ (o \in Extensions => extensions)

\* A drop names a schema other than public, or something the tree creates.
Drops ==
  {d \in [what : {"schema", "object", "extension"}, of : STRING \cup DbObjects] :
     IF d.what = "schema" THEN d.of # "public" ELSE d.of \in Creates}

\* The entries of two lists, one after the other.
LEMMA Joined ==
  ASSUME NEW X, NEW s \in Seq(X), NEW t \in Seq(X)
  PROVE  /\ s \o t \in Seq(X)
         /\ \A i \in 1..Len(s) : \E k \in 1..Len(s \o t) : (s \o t)[k] = s[i]
         /\ \A i \in 1..Len(t) : \E k \in 1..Len(s \o t) : (s \o t)[k] = t[i]
<1>1. /\ s \o t \in Seq(X) /\ Len(s \o t) = Len(s) + Len(t)
      /\ \A k \in 1..(Len(s) + Len(t)) :
           (s \o t)[k] = IF k <= Len(s) THEN s[k] ELSE t[k - Len(s)]
  BY ConcatProperties
<1>2. Len(s) \in Nat /\ Len(t) \in Nat
  OBVIOUS
<1>3. ASSUME NEW i \in 1..Len(s) PROVE \E k \in 1..Len(s \o t) : (s \o t)[k] = s[i]
  <2>1. i \in 1..(Len(s) + Len(t)) /\ i <= Len(s)
    BY <1>2
  <2>2. QED
    BY <1>1, <2>1
<1>4. ASSUME NEW i \in 1..Len(t) PROVE \E k \in 1..Len(s \o t) : (s \o t)[k] = t[i]
  <2>1. /\ Len(s) + i \in 1..(Len(s) + Len(t)) /\ ~(Len(s) + i <= Len(s))
        /\ (Len(s) + i) - Len(s) = i
    BY <1>2
  <2>2. (s \o t)[Len(s) + i] = t[i]
    BY <1>1, <2>1
  <2>3. QED
    BY <1>1, <2>1, <2>2
<1>5. QED
  BY <1>1, <1>3, <1>4

\* A list of drops has one for each entry of what it is made from.
LEMMA DropsOfList ==
  ASSUME NEW what, NEW X, NEW S \in Seq(X), \A x \in X : [what |-> what, of |-> x] \in Drops
  PROVE  /\ Drop(what, S) \in Seq(Drops)
         /\ \A i \in 1..Len(S) :
              \E k \in 1..Len(Drop(what, S)) : Drop(what, S)[k] = [what |-> what, of |-> S[i]]
<1>1. Len(S) \in Nat /\ \A i \in 1..Len(S) : S[i] \in X
  OBVIOUS
<1>2. Drop(what, S) = [i \in 1..Len(S) |-> [what |-> what, of |-> S[i]]]
  BY DEF Drop
<1>3. Drop(what, S) \in [1..Len(S) -> Drops]
  BY <1>1, <1>2
<1>4. Drop(what, S) \in Seq(Drops) /\ Len(Drop(what, S)) = Len(S)
  BY <1>1, <1>3
<1>5. QED
  BY <1>2, <1>4

LEMMA Members ==
  ASSUME NEW S \in SUBSET DbObjects
  PROVE  /\ Ascending(S) \in Seq(S)
         /\ \A x \in S : \E i \in 1..Len(Ascending(S)) : Ascending(S)[i] = x
<1>. DEFINE n == Cardinality(S)
            A == Ascending(S)
<1>1. IsFiniteSet(DbObjects) /\ DbObjects \subseteq Nat
  BY DestroyAssumption
<1>2. IsFiniteSet(S) /\ S \subseteq Int
  <2>1. S \subseteq DbObjects
    OBVIOUS
  <2>2. IsFiniteSet(S)
    BY <1>1, <2>1, FS_Subset
  <2>3. QED
    BY <1>1, <2>1, <2>2
<1>3. n \in Nat /\ A \in [1..n -> S] /\ \A x \in S : \E i \in 1..n : A[i] = x
  BY <1>2, AscendingLists
<1>. HIDE DEF n, A
<1>4. A \in Seq(S) /\ Len(A) = n
  BY <1>3
<1>5. QED
  BY <1>3, <1>4 DEF A

\* The order of the drops of public is one: rank, then identity.
LEMMA DropsInOrder ==
  ASSUME NEW S \in SUBSET DbObjects, \A o \in S : Label(o) \in DOMAIN dropOrder
  PROVE  /\ InOrder(S) \in Seq(S)
         /\ \A o \in S : \E i \in 1..Len(InOrder(S)) : InOrder(S)[i] = o
<1>. DEFINE rank(o) == dropOrder[Label(o)]
            R == {e \in S \X S : \/ rank(e[1]) < rank(e[2])
                                 \/ rank(e[1]) = rank(e[2]) /\ e[1] < e[2]}
            n == Cardinality(S)
            L == Listed(S, R)
<1>1. IsFiniteSet(DbObjects) /\ DbObjects \subseteq Nat
  BY DestroyAssumption
<1>2. IsFiniteSet(S) /\ S \subseteq Nat
  BY <1>1, FS_Subset
<1>3. \A o \in S : rank(o) \in Nat
  BY DEF dropOrder
<1>4. \A x, y \in S : <<x, y>> \in R <=> (rank(x) < rank(y) \/ (rank(x) = rank(y) /\ x < y))
  OBVIOUS
<1>. HIDE DEF rank, R
<1>5. Orders(R, S)
  <2>1. ASSUME NEW x \in S PROVE <<x, x>> \notin R
    BY <1>2, <1>3, <1>4
  <2>2. ASSUME NEW x \in S, NEW y \in S, x # y PROVE <<x, y>> \in R \/ <<y, x>> \in R
    <3>1. x \in Nat /\ y \in Nat /\ rank(x) \in Nat /\ rank(y) \in Nat
      BY <1>2, <1>3
    <3>2. QED
      BY <1>4, <2>2, <3>1
  <2>3. ASSUME NEW x \in S, NEW y \in S, NEW z \in S, <<x, y>> \in R, <<y, z>> \in R
        PROVE  <<x, z>> \in R
    <3>1. /\ x \in Nat /\ y \in Nat /\ z \in Nat
          /\ rank(x) \in Nat /\ rank(y) \in Nat /\ rank(z) \in Nat
      BY <1>2, <1>3
    <3>2. /\ rank(x) < rank(y) \/ (rank(x) = rank(y) /\ x < y)
          /\ rank(y) < rank(z) \/ (rank(y) = rank(z) /\ y < z)
      BY <1>4, <2>3
    <3>3. rank(x) < rank(z) \/ (rank(x) = rank(z) /\ x < z)
      BY <3>1, <3>2
    <3>4. QED
      BY <1>4, <3>3
  <2>4. QED
    BY <2>1, <2>2, <2>3 DEF Orders
<1>6. n \in Nat /\ L \in [1..n -> S] /\ \A x \in S : \E i \in 1..n : L[i] = x
  BY <1>2, <1>5, ListedLists
<1>7. InOrder(S) = L
  BY DEF InOrder, R, rank
<1>. HIDE DEF L, n
<1>8. L \in Seq(S) /\ Len(L) = n
  BY <1>6
<1>9. QED
  BY <1>6, <1>7, <1>8

\* Every declared schema but public is dropped, and public is not.
LEMMA SchemasListed ==
  /\ PlanSchemas \in Seq(STRING \ {"public"})
  /\ \A s \in Range(Declared) \ {"public"} : \E i \in 1..Len(PlanSchemas) : PlanSchemas[i] = s
<1>. DEFINE D == {i \in DOMAIN Declared : Declared[i] # "public"}
            n == Cardinality(D)
            A == Ascending(D)
<1>1. Declared \in Seq(STRING) /\ Len(Declared) \in Nat /\ DOMAIN Declared = 1..Len(Declared)
  BY DestroyAssumption
<1>2. IsFiniteSet(1..Len(Declared)) /\ D \subseteq 1..Len(Declared)
  BY <1>1, FS_Interval
<1>3. IsFiniteSet(D) /\ D \subseteq Int
  BY <1>2, FS_Subset
<1>4. \A i \in D : Declared[i] \in STRING \ {"public"}
  BY <1>1
<1>5. \A s \in Range(Declared) \ {"public"} : \E i \in D : Declared[i] = s
  BY <1>1 DEF Range
<1>. HIDE DEF D
<1>6. n \in Nat /\ A \in [1..n -> D] /\ \A x \in D : \E i \in 1..n : A[i] = x
  BY <1>3, AscendingLists
<1>. HIDE DEF n
<1>7. PlanSchemas = [j \in 1..n |-> Declared[A[j]]]
  BY <1>6 DEF PlanSchemas, D
<1>. HIDE DEF A
<1>8. PlanSchemas \in [1..n -> STRING \ {"public"}]
  BY <1>4, <1>6, <1>7
<1>9. PlanSchemas \in Seq(STRING \ {"public"}) /\ Len(PlanSchemas) = n
  BY <1>6, <1>8
<1>10. QED
  BY <1>5, <1>6, <1>7, <1>9

\* The plan names only other schemas than public and what the tree creates, and names
\* all that it promises, whatever is left out because an extension owns it.
LEMMA PlanCovers ==
  ASSUME NEW P \in SUBSET Creates, NEW owned, \A o \in owned : OwnerOf[o] # NoOwner,
         NEW extensions \in BOOLEAN
  PROVE  LET drops == PlanDrop(P, owned, extensions) IN
           /\ drops \in Seq(Drops)
           /\ \A o \in P : Wanted(o, extensions) =>
                \E i \in 1..Len(drops) : Targets(drops[i], o)
<1>. DEFINE one == Drop("schema", PlanSchemas)
            S == PlanObjects(P) \ owned
            two == Drop("object", InOrder(S))
            E == PlanExtensions(P)
            three == IF extensions THEN Drop("extension", Ascending(E)) ELSE <<>>
            drops == (one \o two) \o three
<1>1. P \subseteq DbObjects /\ P \subseteq Creates
  BY DestroyAssumption
<1>2. /\ one \in Seq(Drops)
      /\ \A i \in 1..Len(PlanSchemas) :
           \E k \in 1..Len(one) : one[k] = [what |-> "schema", of |-> PlanSchemas[i]]
  <2>1. \A s \in STRING \ {"public"} : [what |-> "schema", of |-> s] \in Drops
    BY DEF Drops
  <2>2. PlanSchemas \in Seq(STRING \ {"public"})
    BY SchemasListed
  <2>3. QED
    BY <2>1, <2>2, DropsOfList
<1>3. S \in SUBSET DbObjects /\ S \subseteq Creates /\ \A o \in S : Label(o) \in DOMAIN dropOrder
  BY <1>1 DEF PlanObjects
<1>4. /\ two \in Seq(Drops)
      /\ \A o \in S : \E k \in 1..Len(two) : two[k] = [what |-> "object", of |-> o]
  <2>. HIDE DEF S
  <2>1. InOrder(S) \in Seq(S) /\ \A o \in S : \E i \in 1..Len(InOrder(S)) : InOrder(S)[i] = o
    BY <1>3, DropsInOrder
  <2>2. \A x \in S : [what |-> "object", of |-> x] \in Drops
    BY <1>3 DEF Drops
  <2>3. /\ Drop("object", InOrder(S)) \in Seq(Drops)
        /\ \A i \in 1..Len(InOrder(S)) : \E k \in 1..Len(Drop("object", InOrder(S))) :
             Drop("object", InOrder(S))[k] = [what |-> "object", of |-> InOrder(S)[i]]
    BY <2>1, <2>2, DropsOfList
  <2>4. QED
    BY <2>1, <2>3
<1>5. E \in SUBSET DbObjects /\ E \subseteq Creates
  BY <1>1 DEF PlanExtensions
<1>6. /\ three \in Seq(Drops)
      /\ extensions =>
           \A o \in E : \E k \in 1..Len(three) : three[k] = [what |-> "extension", of |-> o]
  <2>. HIDE DEF E
  <2>1. Ascending(E) \in Seq(E) /\ \A o \in E : \E i \in 1..Len(Ascending(E)) : Ascending(E)[i] = o
    BY <1>5, Members
  <2>2. \A x \in E : [what |-> "extension", of |-> x] \in Drops
    BY <1>5 DEF Drops
  <2>3. /\ Drop("extension", Ascending(E)) \in Seq(Drops)
        /\ \A i \in 1..Len(Ascending(E)) : \E k \in 1..Len(Drop("extension", Ascending(E))) :
             Drop("extension", Ascending(E))[k] = [what |-> "extension", of |-> Ascending(E)[i]]
    BY <2>1, <2>2, DropsOfList
  <2>4. CASE extensions
    BY <2>1, <2>3, <2>4
  <2>5. CASE ~extensions
    BY <2>5
  <2>6. QED
    BY <2>4, <2>5
<1>7. PlanDrop(P, owned, extensions) = drops
  BY DEF PlanDrop
<1>8. /\ drops \in Seq(Drops)
      /\ \A i \in 1..Len(one) : \E k \in 1..Len(drops) : drops[k] = one[i]
      /\ \A i \in 1..Len(two) : \E k \in 1..Len(drops) : drops[k] = two[i]
      /\ \A i \in 1..Len(three) : \E k \in 1..Len(drops) : drops[k] = three[i]
  <2>. HIDE DEF one, two, three
  <2>. DEFINE both == one \o two
  <2>1. /\ both \in Seq(Drops)
        /\ \A i \in 1..Len(one) : \E k \in 1..Len(both) : both[k] = one[i]
        /\ \A i \in 1..Len(two) : \E k \in 1..Len(both) : both[k] = two[i]
    BY <1>2, <1>4, Joined
  <2>2. drops = both \o three
    OBVIOUS
  <2>. HIDE DEF both, drops
  <2>3. /\ both \o three \in Seq(Drops)
        /\ \A i \in 1..Len(both) : \E k \in 1..Len(both \o three) : (both \o three)[k] = both[i]
        /\ \A i \in 1..Len(three) : \E k \in 1..Len(both \o three) : (both \o three)[k] = three[i]
    BY <1>6, <2>1, Joined
  <2>4. /\ drops \in Seq(Drops)
        /\ \A i \in 1..Len(both) : \E k \in 1..Len(drops) : drops[k] = both[i]
        /\ \A i \in 1..Len(three) : \E k \in 1..Len(drops) : drops[k] = three[i]
    BY <2>2, <2>3, Zenon
  <2>5. ASSUME NEW i \in 1..Len(one) PROVE \E k \in 1..Len(drops) : drops[k] = one[i]
    <3>1. PICK j \in 1..Len(both) : both[j] = one[i]
      BY <2>1
    <3>2. PICK k \in 1..Len(drops) : drops[k] = both[j]
      BY <2>4
    <3>3. QED
      BY <3>1, <3>2
  <2>6. ASSUME NEW i \in 1..Len(two) PROVE \E k \in 1..Len(drops) : drops[k] = two[i]
    <3>1. PICK j \in 1..Len(both) : both[j] = two[i]
      BY <2>1
    <3>2. PICK k \in 1..Len(drops) : drops[k] = both[j]
      BY <2>4
    <3>3. QED
      BY <3>1, <3>2
  <2>7. QED
    BY <2>4, <2>5, <2>6
<1>9. ASSUME NEW o \in P, Wanted(o, extensions)
      PROVE  \E i \in 1..Len(drops) : Targets(drops[i], o)
  <2>1. /\ SchemaOf[o] \in Range(Declared) /\ KindOf[o] \in Inventoried
        /\ OwnerOf[o] = NoOwner /\ (o \in Extensions => extensions)
    BY <1>9 DEF Wanted
  <2>2. CASE SchemaOf[o] # "public"
    <3>1. PICK i \in 1..Len(PlanSchemas) : PlanSchemas[i] = SchemaOf[o]
      BY <2>1, <2>2, SchemasListed
    <3>2. PICK k \in 1..Len(one) : one[k] = [what |-> "schema", of |-> SchemaOf[o]]
      BY <1>2, <3>1
    <3>3. PICK j \in 1..Len(drops) : drops[j] = one[k]
      BY <1>8
    <3>4. Targets(one[k], o)
      BY <3>2 DEF Targets
    <3>5. QED
      BY <3>3, <3>4
  <2>3. CASE o \in Extensions
    <3>1. extensions /\ o \in E
      BY <2>1, <2>3 DEF PlanExtensions
    <3>2. PICK k \in 1..Len(three) : three[k] = [what |-> "extension", of |-> o]
      BY <1>6, <3>1
    <3>3. PICK j \in 1..Len(drops) : drops[j] = three[k]
      BY <1>8
    <3>4. Targets(three[k], o)
      BY <3>2 DEF Targets
    <3>5. QED
      BY <3>3, <3>4
  <2>4. CASE SchemaOf[o] = "public" /\ o \notin Extensions
    <3>1. KindOf[o] # "extension"
      BY <1>1, <2>4 DEF Extensions
    <3>2. Label(o) \in DOMAIN dropOrder
      BY <2>1, <3>1 DEF Inventoried, Label, dropOrder
    <3>3. o \in S
      BY <2>1, <2>4, <3>2 DEF PlanObjects, Public
    <3>4. PICK k \in 1..Len(two) : two[k] = [what |-> "object", of |-> o]
      BY <1>4, <3>3
    <3>5. PICK j \in 1..Len(drops) : drops[j] = two[k]
      BY <1>8
    <3>6. Targets(two[k], o)
      BY <3>4 DEF Targets
    <3>7. QED
      BY <3>5, <3>6
  <2>5. QED
    BY <2>2, <2>3, <2>4
<1>10. QED
  BY <1>7, <1>8, <1>9

-----------------------------------------------------------------------------
(* Destroy: the command *)

\* A plan that is confirmed names all it promises. While it runs, what no drop that is
\* left names is gone, or was not there, or others have created it since.
DropsOK ==
  /\ plan \in Seq(Drops)
  /\ doing = "confirm" =>
       \A o \in built : Wanted(o, opts.extensions) => \E i \in 1..Len(plan) : Targets(plan[i], o)
  /\ doing = "drop" =>
       \A o \in built : Wanted(o, opts.extensions) =>
         o \notin live \/ o \in gone \cup late \/ \E i \in 1..Len(plan) : Targets(plan[i], o)

\* Of public, what is gone is of the tree or depends on something that is gone.
GoneOK ==
  /\ gone \subseteq live
  /\ doing # "drop" => gone = {}
  /\ \A o \in gone : Public(o) /\ o \notin Creates => Under(o) \cap gone # {}

FlagsOK == opts.extensions \in BOOLEAN /\ events \in Nat
BuiltOK == built \subseteq Creates /\ (complete => built = Creates)

DestroyInv == FlagsOK /\ BuiltOK /\ DropsOK /\ GoneOK

LEMMA DestroyInvInit == DestroyInit => DestroyInv
BY DEF DestroyInit, DestroyInv, FlagsOK, BuiltOK, DropsOK, GoneOK

LEMMA FlagsKept == FlagsOK /\ [DestroyNext]_destroyVars => FlagsOK'
<1>. SUFFICES ASSUME FlagsOK, [DestroyNext]_destroyVars PROVE FlagsOK'
  OBVIOUS
<1>1. \/ UNCHANGED opts
      \/ \E dry, extensions \in BOOLEAN : opts' = [dry |-> dry, extensions |-> extensions]
  BY DEF DestroyNext, Build, MakePlan, Confirm, DropNext, DropLedger, DestroyDies, Others, destroyVars
<1>2. UNCHANGED events \/ events' = events + 1
  BY DEF DestroyNext, Build, MakePlan, Confirm, DropNext, DropLedger, DestroyDies, Others, destroyVars
<1>3. QED
  BY <1>1, <1>2 DEF FlagsOK

\* A command that ends, or has yet to plan, has no drops.
LEMMA NothingPlanned ==
  ASSUME FlagsOK', BuiltOK', plan' = <<>>, gone' = {}, doing' \in {"idle", "plan"}
  PROVE  DestroyInv'
<1>1. plan' \in Seq(Drops)
  OBVIOUS
<1>2. QED
  BY <1>1 DEF DestroyInv, DropsOK, GoneOK

\* What is dropped of public is of the tree, or stands on what is dropped.
LEMMA DropTakes ==
  ASSUME NEW d \in Drops, NEW P, NEW o \in Cascade(Named(d, P), P), Public(o), o \notin Creates
  PROVE  Under(o) \cap Cascade(Named(d, P), P) # {}
<1>1. o \notin Named(d, P)
  <2>. SUFFICES ASSUME o \in Named(d, P) PROVE FALSE
    OBVIOUS
  <2>1. CASE d.what = "schema"
    <3>1. SchemaOf[o] = d.of /\ d.of # "public"
      BY <2>1 DEF Named, Drops
    <3>2. QED
      BY <3>1 DEF Public
  <2>2. CASE d.what # "schema"
    BY <2>2 DEF Named, Drops
  <2>3. QED
    BY <2>1, <2>2
<1>2. QED
  BY <1>1, CascadeHasReasons

LEMMA DestroyInvNext == DestroyInv /\ [DestroyNext]_destroyVars => DestroyInv'
<1>. SUFFICES ASSUME DestroyInv, [DestroyNext]_destroyVars PROVE DestroyInv'
  OBVIOUS
<1>0. FlagsOK'
  BY FlagsKept DEF DestroyInv
<1>1. FlagsOK /\ BuiltOK /\ DropsOK /\ GoneOK
  BY DEF DestroyInv
<1>2. ASSUME NEW dry \in BOOLEAN, NEW extensions \in BOOLEAN, NEW failed \in SUBSET Creates,
             Build(dry, extensions, failed)
      PROVE  DestroyInv'
  <2>1. /\ doing = "idle" /\ doing' = "plan" /\ built' = Creates \ Cascade(failed, Creates)
        /\ complete' = (failed = {}) /\ UNCHANGED <<plan, gone>>
    BY <1>2 DEF Build
  <2>2. BuiltOK'
    BY <2>1, CascadeOfNothing DEF BuiltOK
  <2>3. gone' = {}
    BY <1>1, <2>1 DEF GoneOK
  <2>4. plan' \in Seq(Drops)
    BY <1>1, <2>1 DEF DropsOK
  <2>5. QED
    BY <1>0, <2>1, <2>2, <2>3, <2>4 DEF DestroyInv, DropsOK, GoneOK
<1>3. CASE MakePlan
  <2>. DEFINE drops == PlanDrop(built, ExtensionOwned(live), opts.extensions)
  <2>1. /\ doing = "plan" /\ UNCHANGED <<live, built, complete, opts>>
        /\ \/ doing' = "idle" /\ plan' = <<>> /\ gone' = {}
           \/ plan' = drops /\ doing' = "confirm" /\ UNCHANGED gone
    BY <1>3 DEF MakePlan, Leave
  <2>2. BuiltOK' /\ gone = {}
    BY <1>1, <2>1 DEF BuiltOK, GoneOK
  <2>3. CASE doing' = "idle" /\ plan' = <<>> /\ gone' = {}
    BY <2>2, <2>3, <1>0, NothingPlanned
  <2>4. CASE plan' = drops /\ doing' = "confirm" /\ UNCHANGED gone
    <3>1. built \in SUBSET Creates /\ \A o \in ExtensionOwned(live) : OwnerOf[o] # NoOwner
      BY <1>1 DEF BuiltOK, ExtensionOwned
    <3>2. opts.extensions \in BOOLEAN
      BY <1>1 DEF FlagsOK
    <3>3. /\ drops \in Seq(Drops)
          /\ \A o \in built : Wanted(o, opts.extensions) =>
               \E i \in 1..Len(drops) : Targets(drops[i], o)
      BY <3>1, <3>2, PlanCovers
    <3>. HIDE DEF drops
    <3>4. DropsOK'
      BY <2>1, <2>4, <3>3 DEF DropsOK
    <3>5. GoneOK'
      BY <2>2, <2>4 DEF GoneOK
    <3>6. QED
      BY <1>0, <2>2, <3>4, <3>5 DEF DestroyInv
  <2>5. QED
    BY <2>1, <2>3, <2>4
<1>4. CASE Confirm
  <2>1. /\ doing = "confirm" /\ doing' = "drop" /\ UNCHANGED <<live, built, complete, plan, opts, gone>>
    BY <1>4 DEF Confirm
  <2>2. BuiltOK' /\ GoneOK'
    BY <1>1, <2>1 DEF BuiltOK, GoneOK
  <2>3. DropsOK'
    BY <1>1, <2>1 DEF DropsOK
  <2>4. QED
    BY <1>0, <2>2, <2>3 DEF DestroyInv
<1>5. CASE DropNext
  <2>. DEFINE d == Head(plan)
              P == live \ gone
              C == Cascade(Named(d, P), P)
  <2>1. /\ doing = "drop" /\ plan # <<>> /\ UNCHANGED <<live, built, complete, opts, late>>
        /\ \/ doing' = "idle" /\ plan' = <<>> /\ gone' = {}
           \/ gone' = gone \cup C /\ plan' = Tail(plan) /\ UNCHANGED doing
    BY <1>5 DEF DropNext, Leave, Shows
  <2>2. BuiltOK'
    BY <1>1, <2>1 DEF BuiltOK
  <2>3. CASE doing' = "idle" /\ plan' = <<>> /\ gone' = {}
    BY <2>2, <2>3, <1>0, NothingPlanned
  <2>4. CASE gone' = gone \cup C /\ plan' = Tail(plan) /\ UNCHANGED doing
    <3>1. /\ plan \in Seq(Drops) /\ d \in Drops /\ d = plan[1] /\ Tail(plan) \in Seq(Drops)
          /\ Len(plan) \in Nat /\ Len(Tail(plan)) = Len(plan) - 1
          /\ \A i \in 1..Len(Tail(plan)) : Tail(plan)[i] = plan[i + 1]
      BY <1>1, <2>1 DEF DropsOK
    <3>. HIDE DEF d
    <3>2. C \subseteq P /\ Named(d, P) \cap P \subseteq C
      BY CascadeCloses
    <3>3. \A o \in C : Public(o) /\ o \notin Creates => Under(o) \cap C # {}
      BY <3>1, DropTakes
    <3>. HIDE DEF C
    <3>4. GoneOK'
      <4>1. gone' \subseteq live'
        BY <1>1, <2>1, <2>4, <3>2 DEF GoneOK
      <4>2. ASSUME NEW o \in gone', Public(o), o \notin Creates
            PROVE  Under(o) \cap gone' # {}
        <5>1. CASE o \in gone
          BY <1>1, <2>4, <4>2, <5>1 DEF GoneOK
        <5>2. CASE o \in C
          BY <2>4, <3>3, <4>2, <5>2
        <5>3. QED
          BY <2>4, <5>1, <5>2
      <4>3. QED
        BY <2>1, <2>4, <4>1, <4>2 DEF GoneOK
    <3>5. ASSUME NEW o \in built, Wanted(o, opts.extensions)
          PROVE  \/ o \notin live \/ o \in gone' \cup late
                 \/ \E i \in 1..Len(Tail(plan)) : Targets(Tail(plan)[i], o)
      <4>1. \/ o \notin live \/ o \in gone \cup late
            \/ \E i \in 1..Len(plan) : Targets(plan[i], o)
        BY <1>1, <2>1, <3>5 DEF DropsOK
      <4>2. CASE o \notin live \/ o \in gone \cup late
        BY <2>4, <4>2
      <4>3. ASSUME NEW i \in 1..Len(plan), Targets(plan[i], o), o \in live, o \notin gone
            PROVE  o \in gone' \/ \E j \in 1..Len(Tail(plan)) : Targets(Tail(plan)[j], o)
        <5>1. CASE i = 1
          <6>1. Targets(d, o) /\ o \in P
            BY <3>1, <4>3, <5>1
          <6>2. o \in Named(d, P)
            BY <6>1 DEF Targets, Named
          <6>3. QED
            BY <2>4, <3>2, <6>1, <6>2
        <5>2. CASE i # 1
          <6>1. i - 1 \in 1..Len(Tail(plan)) /\ (i - 1) + 1 = i
            BY <3>1, <5>2
          <6>2. Tail(plan)[i - 1] = plan[i]
            BY <3>1, <6>1
          <6>3. QED
            BY <4>3, <6>1, <6>2
        <5>3. QED
          BY <5>1, <5>2
      <4>4. QED
        BY <4>1, <4>2, <4>3
    <3>6. DropsOK'
      BY <2>1, <2>4, <3>1, <3>5 DEF DropsOK
    <3>7. QED
      BY <1>0, <2>2, <3>4, <3>6 DEF DestroyInv
  <2>5. QED
    BY <2>1, <2>3, <2>4
<1>6. CASE DropLedger \/ DestroyDies
  <2>1. doing' = "idle" /\ plan' = <<>> /\ gone' = {} /\ UNCHANGED <<built, complete>>
    BY <1>6 DEF DropLedger, DestroyDies, Leave
  <2>2. BuiltOK'
    BY <1>1, <2>1 DEF BuiltOK
  <2>3. QED
    BY <2>1, <2>2, <1>0, NothingPlanned
<1>7. ASSUME NEW o \in DbObjects, Others(o) PROVE DestroyInv'
  <2>1. /\ UNCHANGED <<built, complete, plan, doing, opts, gone>>
        /\ late' = late \cup (live' \ live)
        /\ \/ live' = live \cup {o}
           \/ Cascade({o}, live) \cap gone = {} /\ live' = live \ Cascade({o}, live)
    BY <1>7 DEF Others
  <2>2. BuiltOK'
    BY <1>1, <2>1 DEF BuiltOK
  <2>3. GoneOK'
    BY <1>1, <2>1 DEF GoneOK
  <2>4. ASSUME NEW x, x \notin live \/ x \in gone \cup late
        PROVE  x \notin live' \/ x \in gone' \cup late'
    BY <2>1, <2>4
  <2>5. DropsOK'
    BY <1>1, <2>1, <2>4 DEF DropsOK
  <2>6. QED
    BY <1>0, <2>2, <2>3, <2>5 DEF DestroyInv
<1>8. CASE UNCHANGED destroyVars
  BY <1>0, <1>1, <1>8 DEF destroyVars, DestroyInv, BuiltOK, DropsOK, GoneOK
<1>9. QED
  BY <1>2, <1>3, <1>4, <1>5, <1>6, <1>7, <1>8 DEF DestroyNext

\* A destroy is all or nothing, for any objects and whatever fails or changes.
THEOREM DestroysWhole == DestroySpec => DestroyIsWhole
<1>. DEFINE All == \/ UNCHANGED <<live, hasLedger>>
                   \/ doing = "drop" /\ plan = <<>> /\ ~hasLedger' /\ live' \cap gone = {}
<1>1. [DestroyNext]_destroyVars => [doing' # doing \/ plan' # plan => All]_destroyVars
  <2>. SUFFICES ASSUME DestroyNext, doing' # doing \/ plan' # plan PROVE All
    OBVIOUS
  <2>1. CASE DropLedger
    BY <2>1 DEF DropLedger
  <2>2. CASE DropNext
    BY <2>2 DEF DropNext, Shows
  <2>3. CASE ~DropLedger /\ ~DropNext
    BY <2>3 DEF DestroyNext, Build, MakePlan, Confirm, DestroyDies, Others
  <2>4. QED
    BY <2>1, <2>2, <2>3
<1>2. QED
  BY <1>1, PTL DEF DestroySpec, DestroyIsWhole

\* A destroy drops what the tree creates and takes of public only what depends on
\* what goes, for any tree, any dependencies and whatever others do meanwhile.
THEOREM DestroyDropsTheTree == DestroySpec => DropsTheTree
<1>. DEFINE Ends == doing = "drop" /\ plan = <<>> /\ doing' = "idle" /\ events' = events
            Left == complete => \A o \in (Creates \cap live') \ late :
                      \/ SchemaOf[o] \notin Range(Declared)
                      \/ KindOf[o] \notin Inventoried
                      \/ OwnerOf[o] # NoOwner
                      \/ o \in Extensions /\ ~opts.extensions
            Spared == \A o \in live \ live' :
                        Public(o) /\ o \notin Creates => Under(o) \cap (live \ live') # {}
<1>1. DestroyInv /\ [DestroyNext]_destroyVars => [Ends => Left /\ Spared]_destroyVars
  <2>. SUFFICES ASSUME DestroyInv, DestroyNext, Ends PROVE Left /\ Spared
    OBVIOUS
  <2>1. DropLedger
    <3>1. ~DestroyDies
      <4>1. events \in Nat => events + 1 # events
        OBVIOUS
      <4>2. QED
        BY <4>1 DEF DestroyDies, DestroyInv, FlagsOK
    <3>2. QED
      BY <3>1 DEF DestroyNext, Build, MakePlan, Confirm, DropNext, Others
  <2>2. live' = live \ gone /\ gone \subseteq live
    BY <2>1 DEF DropLedger, DestroyInv, GoneOK
  <2>3. live \ live' = gone
    BY <2>2
  <2>4. Spared
    BY <2>3 DEF DestroyInv, GoneOK
  <2>5. ASSUME complete, NEW o \in (Creates \cap live') \ late, Wanted(o, opts.extensions)
        PROVE  FALSE
    <3>1. o \in built /\ o \in live /\ o \notin gone \cup late
      BY <2>2, <2>5 DEF DestroyInv, BuiltOK
    <3>2. Len(plan) = 0
      OBVIOUS
    <3>3. QED
      BY <2>5, <3>1, <3>2 DEF DestroyInv, DropsOK
  <2>6. Left
    BY <2>5 DEF Wanted
  <2>7. QED
    BY <2>4, <2>6
<1>2. QED
  BY <1>1, DestroyInvInit, DestroyInvNext, PTL DEF DestroySpec, DropsTheTree

===============================================================================
