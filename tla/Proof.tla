---------------------------------- MODULE Proof ----------------------------------
(***************************************************************************)
(* The reconcile proof before an apply of a merge: the tree, overlaid with *)
(* .upgraded, is copied file by file, linted, built in a throwaway         *)
(* database and compared with the live one, then built a second time and   *)
(* compared with the first. Only when all of that holds a manifest with    *)
(* the hash of .upgraded is written there.                                 *)
(*                                                                         *)
(* The trees and the live database may change at any time, every step may  *)
(* fail, and the command may be killed. What a command made, a directory   *)
(* and two containers, it removes at its end, however that comes about,    *)
(* unless it was asked to keep it.                                         *)
(*                                                                         *)
(* A step with an `if` may be off in the environment of a command (it is   *)
(* taken to stay so until the command ends): its files are neither copied  *)
(* nor built, and schemas that only such steps list are not compared.      *)
(*                                                                         *)
(* A file makes one object, whose definition its text decides; an unstable *)
(* text gives one of two at every build, and a broken text fails the build *)
(* (what the build does is Ledger and apply: MigrateUp).                   *)
(***************************************************************************)
EXTENDS Integers, Sequences, FiniteSets

CONSTANTS NTree,          \* number of files, numbered in the order of the tree
          Reviewed,       \* files under migrations/ and dropped/
          Optional,       \* files of steps with an `if`
          Definitions,    \* what a stable text may say; also what its object is then
          Unstable,       \* a text that builds to any definition
          Broken,         \* a text that does not build
          Empty, Absent,  \* an empty file, no file (no object)
          MaxProofs,      \* bound: proofs started
          MaxTouches      \* bound: changes by others, failures and kills

TreeFile == 1..NTree
SqlText == Definitions \cup {Unstable, Broken}

ASSUME ProofAssumption ==
  /\ NTree \in Nat /\ Reviewed \subseteq TreeFile /\ Optional \subseteq TreeFile
  /\ Unstable # Broken /\ Empty # Absent /\ {Unstable, Broken} \cap {Empty, Absent} = {}
  /\ Definitions \cap {Unstable, Broken, Empty, Absent} = {}
  /\ MaxProofs \in Nat /\ MaxTouches \in Nat

VARIABLES
  source,      \* source[x]: the text of file x under the db directory
  upgraded,    \* upgraded[x]: the text of file x under .upgraded
  liveDb,      \* liveDb[x]: the definition of the object of file x
  manifest,    \* the tree whose hash reconcile.json holds, or NoManifest
  things,      \* directories and containers on the machine, by proof and kind
  proving,     \* what the command does next
  candidate,   \* candidate[x]: the text of file x in its directory
  copied,      \* files it has passed while copying
  has,         \* its locals: files off, of those the ones not compared, files listed,
               \* overlay used, inventories, hash, flags
  proofs, touches,        \* how much of the bounds is used
  abandoned,   \* things of commands that were killed or told to keep; not seen
  touched      \* the trees changed since the command began; not seen by the code

proofVars == <<source, upgraded, liveDb, manifest, things, proving, candidate, copied, has,
               proofs, touches, abandoned, touched>>

NoTree == [x \in TreeFile |-> Absent]
NoManifest == <<>>
NoLocals == [off |-> {}, unseen |-> {}, listed |-> {}, overlay |-> FALSE,
             liveInv |-> NoTree, candInv |-> NoTree, equal |-> FALSE, hash |-> NoTree, dry |-> FALSE, keep |-> FALSE]

ProofInit ==
  /\ source \in [TreeFile -> SqlText \cup {Absent}]
  /\ upgraded \in [TreeFile -> SqlText \cup {Empty, Absent}]
  /\ liveDb \in [TreeFile -> Definitions \cup {Absent}]
  /\ manifest = NoManifest /\ things = {} /\ proving = "idle"
  /\ candidate = NoTree /\ copied = 0 /\ has = NoLocals
  /\ proofs = 0 /\ touches = 0 /\ abandoned = {} /\ touched = FALSE

Thing(kind) == <<proofs, kind>>

FaultyRemoved ==                       \* the second container is not deferred
  IF has.keep THEN {} ELSE {Thing("directory"), Thing("first")}

\* The deferred clean-up of a command that ends: what it made is removed.
Removed == IF has.keep THEN {} ELSE {Thing("directory"), Thing("first"), Thing("second")}

ProofEnds(as) ==
  /\ proving' = as
  /\ things' = things \ Removed
  /\ abandoned' = abandoned \cup (IF has.keep THEN things ELSE {})

Untouched == UNCHANGED <<source, upgraded, liveDb, touches, touched>>

-----------------------------------------------------------------------------
(* The candidate tree *)

\* Run begins: is there a .upgraded, which steps are off, which files do the others
\* list. The steps are listed one after the other; that the tree changes between two
\* is left out.
ProofBegin(keep, dry, off, unseen) ==
  /\ proving \in {"idle", "passed", "failed"} /\ proofs < MaxProofs
  /\ proofs' = proofs + 1
  /\ has' = [NoLocals EXCEPT !.keep = keep, !.dry = dry, !.off = off, !.unseen = unseen,
                             !.overlay = (upgraded # NoTree \/ manifest # NoManifest),
                             !.listed = {x \in TreeFile \ off : source[x] # Absent}]
  /\ candidate' = NoTree /\ copied' = 0
  /\ things' = things \cup {<<proofs + 1, "directory">>}
  /\ proving' = "copy"
  /\ touched' = FALSE
  /\ UNCHANGED <<source, upgraded, liveDb, manifest, touches, abandoned>>

FaultyOverlaid(x) ==                          \* an empty overlay does not count
  IF has.overlay /\ upgraded[x] \notin {Absent, Empty} THEN upgraded[x] ELSE source[x]

\* The text a listed file goes into the candidate with: the overlay's when there is
\* one, and an empty one folds the file away.
Overlaid(x) ==
  IF has.overlay /\ upgraded[x] # Absent
  THEN (IF upgraded[x] = Empty THEN Absent ELSE upgraded[x])
  ELSE source[x]

\* A listed file that has gone fails the copy.
CopySource ==
  /\ proving = "copy" /\ copied < NTree
  /\ LET x == copied + 1
         gone == x \in has.listed /\ source[x] = Absent /\ (has.overlay => upgraded[x] = Absent)
     IN  /\ candidate' = IF x \in has.listed THEN [candidate EXCEPT ![x] = Overlaid(x)]
                         ELSE candidate
         /\ copied' = x
         /\ IF gone THEN ProofEnds("failed") ELSE UNCHANGED <<proving, things, abandoned>>
  /\ Untouched /\ UNCHANGED <<manifest, has, proofs>>

\* Files of .upgraded that have no counterpart, the review folders left out; also
\* those of steps that are off, which nothing builds.
Extra(x) ==
  has.overlay /\ upgraded[x] \in SqlText /\ x \notin Reviewed /\ candidate[x] = Absent

CopyExtra ==
  /\ proving = "copy" /\ copied >= NTree /\ copied < 2 * NTree
  /\ LET x == copied + 1 - NTree IN
       candidate' = IF Extra(x) THEN [candidate EXCEPT ![x] = upgraded[x]] ELSE candidate
  /\ copied' = copied + 1
  /\ Untouched /\ UNCHANGED <<manifest, things, proving, has, proofs, abandoned>>

\* The lint is clean (its errors are ProofFails), and a container is started.
StartFirst ==
  /\ proving = "copy" /\ copied = 2 * NTree
  /\ things' = things \cup {Thing("first")}
  /\ proving' = "build"
  /\ Untouched /\ UNCHANGED <<manifest, candidate, copied, has, proofs, abandoned>>

-----------------------------------------------------------------------------
(* The verdicts *)

Outcome(t) == CASE t = Unstable -> Definitions
                [] t = Absent -> {Absent}
                [] OTHER -> {t}

\* What a bootstrap of the candidate builds, and the inventories that may give.
Built == [x \in TreeFile |-> IF x \in has.off THEN Absent ELSE candidate[x]]
Builds(t) ==
  {inv \in [TreeFile -> Definitions \cup {Absent}] : \A x \in TreeFile : inv[x] \in Outcome(t[x])}

Bootstraps(t) == \A x \in TreeFile : t[x] # Broken

\* Bootstrap: a file that fails ends the proof, the other verdicts are skipped.
BuildFirst ==
  /\ proving = "build"
  /\ IF Bootstraps(Built)
     THEN /\ \E inv \in Builds(Built) : has' = [has EXCEPT !.candInv = inv]
          /\ proving' = "live" /\ UNCHANGED <<things, abandoned>>
     ELSE ProofEnds("failed") /\ UNCHANGED has
  /\ Untouched /\ UNCHANGED <<manifest, candidate, copied, proofs>>

\* Inventory reads the schemas of the steps that are on.
Seen(db) == [x \in TreeFile |-> IF x \in has.unseen THEN Absent ELSE db[x]]

\* CompareInventories: none missing, none extra, none different.
SameInventory(want, got) == want = got

\* Equality: the live inventory is read and compared. What differs is reported and
\* the proof goes on to the second container.
CompareLive ==
  /\ proving = "live"
  /\ has' = [has EXCEPT !.liveInv = Seen(liveDb),
                        !.equal = SameInventory(Seen(liveDb), has.candInv)]
  /\ things' = things \cup {Thing("second")}
  /\ proving' = "rebuild"
  /\ Untouched /\ UNCHANGED <<manifest, candidate, copied, proofs, abandoned>>

\* Determinism, and the end of it: a failed verdict, a dry run, a tree without
\* .upgraded; otherwise the hash of .upgraded is taken.
BuildSecond ==
  /\ proving = "rebuild"
  /\ \E inv \in Builds(Built) :
       IF ~has.equal \/ ~SameInventory(has.candInv, inv) THEN ProofEnds("failed")
       ELSE IF has.dry \/ ~has.overlay THEN ProofEnds("passed")
       ELSE proving' = "hash" /\ UNCHANGED <<things, abandoned>>
  /\ Untouched /\ UNCHANGED <<manifest, candidate, copied, has, proofs>>

TakeHash ==
  /\ proving = "hash"
  /\ has' = [has EXCEPT !.hash = upgraded]
  /\ proving' = "manifest"
  /\ Untouched /\ UNCHANGED <<manifest, things, candidate, copied, proofs, abandoned>>

WriteManifest ==
  /\ proving = "manifest"
  /\ manifest' = has.hash
  /\ ProofEnds("passed")
  /\ Untouched /\ UNCHANGED <<candidate, copied, has, proofs>>

-----------------------------------------------------------------------------
(* Failures and others *)

Proving == proving \notin {"idle", "passed", "failed"}

\* A copy, the lint, the container, a query, the hash or the write fails.
ProofFails ==
  /\ Proving /\ touches < MaxTouches
  /\ touches' = touches + 1
  /\ ProofEnds("failed")
  /\ UNCHANGED <<source, upgraded, liveDb, manifest, candidate, copied, has, proofs, touched>>

\* Killed: nothing deferred runs.
ProofKilled ==
  /\ Proving /\ touches < MaxTouches
  /\ touches' = touches + 1
  /\ proving' = "failed" /\ abandoned' = abandoned \cup things
  /\ UNCHANGED <<source, upgraded, liveDb, manifest, things, candidate, copied, has, proofs, touched>>

Edit(x, t) ==
  /\ touches < MaxTouches /\ touches' = touches + 1 /\ touched' = TRUE
  /\ \/ t # Empty /\ source' = [source EXCEPT ![x] = t] /\ UNCHANGED upgraded
     \/ upgraded' = [upgraded EXCEPT ![x] = t] /\ UNCHANGED source
  /\ UNCHANGED <<liveDb, manifest, things, proving, candidate, copied, has, proofs, abandoned>>

LiveChanges(x, t) ==
  /\ touches < MaxTouches /\ touches' = touches + 1
  /\ liveDb' = [liveDb EXCEPT ![x] = t]
  /\ UNCHANGED <<source, upgraded, manifest, things, proving, candidate, copied, has, proofs,
                 abandoned, touched>>

ProofNext ==
  \/ \E keep, dry \in BOOLEAN, off \in SUBSET Optional :
       \E unseen \in SUBSET off : ProofBegin(keep, dry, off, unseen)
  \/ CopySource \/ CopyExtra \/ StartFirst \/ BuildFirst \/ CompareLive \/ BuildSecond
  \/ TakeHash \/ WriteManifest \/ ProofFails \/ ProofKilled
  \/ \E x \in TreeFile :
       \/ \E t \in SqlText \cup {Empty, Absent} : Edit(x, t)
       \/ \E t \in Definitions \cup {Absent} : LiveChanges(x, t)

ProofSpec == ProofInit /\ [][ProofNext]_proofVars

-----------------------------------------------------------------------------
(* Properties *)

\* The tree a merge leaves behind: .upgraded where it has a file, none for an empty
\* one, the source elsewhere.
Merged(x) ==
  CASE upgraded[x] \in SqlText -> upgraded[x]
    [] upgraded[x] = Empty -> Absent
    [] OTHER -> source[x]

\* The files of it that the proof is about. It is not about those of steps that are
\* off, nor about migrations and dropped statements that only .upgraded has, all of
\* which an apply moves into the tree unproven.
Covered == {x \in TreeFile : x \notin has.off /\ (x \in Reviewed => source[x] # Absent)}

\* A proof that passes, and whose trees nobody changed, is about the tree at hand:
\* each file it covers builds to what the live database had when it was read, and
\* in the schemas it looked at the live database had nothing else. The hash in the
\* manifest is of that tree.
PassedIsProved ==
  proving = "passed" /\ ~touched =>
    /\ \A x \in Covered : Merged(x) # Broken /\ has.liveInv[x] \in Outcome(Merged(x))
    /\ \A x \in TreeFile \ Covered : has.liveInv[x] = Absent
    /\ ~has.dry /\ has.overlay => manifest = upgraded

\* Only a command that was killed or told to keep them leaves directories and
\* containers behind, whichever step failed.
NothingLeftBehind ==
  /\ ~Proving => things = abandoned
  /\ abandoned \subseteq things
=============================================================================
