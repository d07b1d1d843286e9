---------------------------- MODULE LedgerPromise ----------------------------
(***************************************************************************)
(* What the ledger promises about every file of the step tree, whoever     *)
(* runs smig and however its runs interleave or die:                       *)
(*   - a file is marked applied only after its body was run at least once; *)
(*   - an applied migration file is never queued again;                    *)
(*   - an applied base or seed file may be queued again, to be replayed.   *)
(* MigrateUp implements this specification.                                *)
(***************************************************************************)
CONSTANTS Files,        \* the files of the step tree
          Migrations    \* those that belong to a step of type migration

VARIABLES status,       \* status[f]: what the ledger says of f
          ran           \* the files whose body was run at least once

promiseVars == <<status, ran>>

PromiseInit == /\ status = [f \in Files |-> "none"]
               /\ ran = {}

\* A file nobody has seen yet gets a row.
Discover(f) == /\ status[f] = "none"
               /\ status' = [status EXCEPT ![f] = "pending"]
               /\ UNCHANGED ran

\* The body of a known file is run and committed on the target database.
Perform(f) == /\ status[f] # "none"
              /\ ran' = ran \cup {f}
              /\ UNCHANGED status

\* The ledger learns of it.
Confirm(f) == /\ status[f] = "pending"
              /\ f \in ran
              /\ status' = [status EXCEPT ![f] = "applied"]
              /\ UNCHANGED ran

\* A replayable file changed on disk.
Requeue(f) == /\ f \notin Migrations
              /\ status[f] = "applied"
              /\ status' = [status EXCEPT ![f] = "pending"]
              /\ UNCHANGED ran

PromiseNext == \E f \in Files : Discover(f) \/ Perform(f) \/ Confirm(f) \/ Requeue(f)

Promise == PromiseInit /\ [][PromiseNext]_promiseVars
===============================================================================
