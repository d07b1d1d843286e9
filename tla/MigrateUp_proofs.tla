--------------------------- MODULE MigrateUp_proofs ---------------------------
(* What holds of up, check and run for any number of commands and files,   *)
(* under any interleaving, edits, crashes and failures.                    *)
EXTENDS MigrateUp, SequenceTheorems, FiniteSetTheorems, WellFoundedInduction, TLAPS

\* A set of naturals has a least element.
LEMMA LeastExists ==
  ASSUME NEW S, S \subseteq Nat, S # {}
  PROVE  \E x \in S : \A y \in S : x <= y
<1>. DEFINE R == OpToRel(<, Nat)
<1>1. IsWellFoundedOn(R, Nat)
  BY NatLessThanWellFounded
<1>2. \A x, y \in Nat : <<y, x>> \in R <=> y < x
  BY DEF OpToRel
<1>. HIDE DEF R
<1>3. PICK x \in S : \A y \in S : ~(<<y, x>> \in R)
  BY <1>1, WFMin
<1>4. \A y \in S : x \in Nat /\ y \in Nat /\ ~(y < x)
  BY <1>2, <1>3
<1>5. QED
  BY <1>4

\* Least picks it.
LEMMA LeastIsLeast ==
  ASSUME NEW S, S \subseteq Nat, S # {}
  PROVE  Least(S) \in S /\ \A y \in S : Least(S) <= y
BY LeastExists DEF Least

\* The apply loop takes the first file of its plan.
LEMMA NextItemIsFirst ==
  ASSUME NEW p \in Procs, todo[p] \subseteq Items, todo[p] # {}
  PROVE  /\ NextItem(p) \in todo[p]
         /\ \A u \in todo[p] : NextItem(p).file <= u.file
<1>. DEFINE S == {t.file : t \in todo[p]}
<1>1. S \subseteq Nat /\ S # {}
  BY MigrateUpAssumption DEF Items, Files
<1>2. PICK n \in S : \A m \in S : n <= m
  BY <1>1, LeastExists
<1>3. PICK t \in todo[p] : t.file = n
  BY <1>2
<1>4. \A u \in todo[p] : t.file <= u.file
  BY <1>2, <1>3
<1>5. QED
  BY <1>4 DEF NextItem

-----------------------------------------------------------------------------
(* Types *)

\* The assignments to fields of a record that the actions make keep its type.
LEMMA ScanFields ==
  ASSUME NEW s \in Scans
  PROVE  /\ \A n \in Nat, a, b \in SUBSET Files :
              [s EXCEPT !.step = n, !.left = a, !.seen = b] \in Scans
         /\ \A a \in SUBSET Files, f \in Files, c \in Contents :
              [s EXCEPT !.left = a, !.file = f, !.sha = c] \in Scans
         /\ \A d \in States : [s EXCEPT !.dbState = d] \in Scans
         /\ [NoScan EXCEPT !.cmd = s.cmd] \in Scans
         /\ s.step \in Nat /\ s.left \in SUBSET Files /\ s.seen \in SUBSET Files
         /\ s.sha \in Contents
BY DEF Scans, NoScan, Contents, CommandNames, States

LEMMA WorkFields ==
  ASSUME NEW w \in Works
  PROVE  /\ \A f \in Files, c, d \in Contents :
              [w EXCEPT !.file = f, !.sha = c, !.sql = d] \in Works
         /\ \A ok \in BOOLEAN : [w EXCEPT !.ok = ok] \in Works
         /\ \A i, n \in Nat : [w EXCEPT !.hist = i, !.attempt = n] \in Works
         /\ \A n \in Nat : [NoWork EXCEPT !.run = n] \in Works
         /\ w.run \in Nat /\ w.hist \in Nat /\ w.attempt \in Nat
         /\ w.sha \in Contents /\ w.sql \in Contents /\ w.ok \in BOOLEAN
BY DEF Works, NoWork, Contents

LEMMA RowFields ==
  ASSUME NEW r \in Rows
  PROVE  /\ \A c \in Contents : /\ Discovered(c) \in Rows
                                /\ Requeued(r, c) \in Rows
                                /\ Refreshed(r, c) \in Rows
         /\ \A w \in Works : /\ Attempted(r, w) \in Rows
                             /\ Succeeded(Attempted(r, w), w) \in Rows
         /\ r.state \in States /\ r.sha \in Contents /\ r.attempts \in Nat
BY DEF Works, Rows, NoRow, Discovered, Requeued, Refreshed, Attempted, Succeeded, HistoryId,
       States, Contents

\* A step assigns the locals of one command.
LEMMA NewLocals ==
  ASSUME CommandsOK, NEW p \in Procs,
         NEW c \in Pcs, NEW s \in Scans, NEW t \in SUBSET Items, NEW w \in Works,
         pc' = [pc EXCEPT ![p] = c], scan' = [scan EXCEPT ![p] = s],
         todo' = [todo EXCEPT ![p] = t], work' = [work EXCEPT ![p] = w],
         c \in {"select", "write"} => s.file \in Files,
         c \in Applying => t # {},
         c \in Applying \ {"read"} => w.file \in Files
  PROVE  CommandsOK'
BY DEF CommandsOK

LEMMA OldLocals ==
  ASSUME CommandsOK, NEW p \in Procs
  PROVE  /\ pc = [pc EXCEPT ![p] = pc[p]] /\ scan = [scan EXCEPT ![p] = scan[p]]
         /\ todo = [todo EXCEPT ![p] = todo[p]] /\ work = [work EXCEPT ![p] = work[p]]
         /\ scan[p] \in Scans /\ work[p] \in Works /\ todo[p] \in SUBSET Items
         /\ pc[p] \in Pcs
         /\ pc[p] \in {"select", "write"} => scan[p].file \in Files
         /\ pc[p] \in Applying => todo[p] # {}
         /\ pc[p] \in Applying \ {"read"} => work[p].file \in Files
BY DEF CommandsOK

\* Ending a command keeps the locals of all commands well typed.
LEMMA StopTypes ==
  ASSUME CommandsOK, NEW p \in Procs, Stop(p)
  PROVE  CommandsOK'
BY DEF CommandsOK, Stop, Pcs, Scans, Works, NoScan, NoWork, Contents, CommandNames,
       States, Applying

\* Handing a plan to the apply loop keeps the types.
LEMMA TakeTypes ==
  ASSUME TypeOK, NEW p \in Procs, NEW S, S \subseteq Files, S # {}, Take(p, S),
         UNCHANGED <<tree, ledger, history, executed, aborts, fails>>
  PROVE  TypeOK'
<1>. USE DEF TypeOK
<1>. DEFINE plan == Planned(S)
            s == [NoScan EXCEPT !.cmd = scan[p].cmd]
            w == [NoWork EXCEPT !.run = runs + 1]
<1>1. plan \in SUBSET Items /\ plan # {}
  <2>1. \A f \in S : [file |-> f, sha |-> ledger[f].sha] \in Items
    BY DEF Items, DatabaseOK, Rows
  <2>2. QED
    BY <2>1 DEF Planned
<1>2. s \in Scans /\ w \in Works
  <2>1. scan[p] \in Scans /\ work[p] \in Works /\ runs + 1 \in Nat
    BY OldLocals DEF DatabaseOK
  <2>2. QED
    BY <2>1, ScanFields, WorkFields
<1>3. /\ todo' = [todo EXCEPT ![p] = plan] /\ scan' = [scan EXCEPT ![p] = s]
      /\ work' = [work EXCEPT ![p] = w] /\ pc' = [pc EXCEPT ![p] = "read"]
  BY DEF Take
<1>. HIDE DEF plan, s, w
<1>4. "read" \in Pcs /\ "read" \notin {"select", "write"}
  BY DEF Pcs
<1>5. CommandsOK'
  BY <1>1, <1>2, <1>3, <1>4, NewLocals
<1>6. DatabaseOK'
  BY DEF Take, DatabaseOK, tree
<1>7. QED
  BY <1>5, <1>6

LEMMA InitTypes == Init => TypeOK
<1>. SUFFICES ASSUME Init PROVE TypeOK
  OBVIOUS
<1>1. DatabaseOK
  BY EmptySeq DEF Init, DatabaseOK, Contents, Rows, NoRow, States
<1>2. CommandsOK
  BY DEF Init, CommandsOK, Pcs, Scans, Works, NoScan, NoWork, Contents, CommandNames,
         States, Applying
<1>3. QED
  BY <1>1, <1>2 DEF TypeOK

LEMMA NextTypes == TypeOK /\ [Next]_vars => TypeOK'
<1>. SUFFICES ASSUME TypeOK, [Next]_vars PROVE TypeOK'
  OBVIOUS
<1>. USE MigrateUpAssumption DEF TypeOK, Contents
<1>1. ASSUME NEW p \in Procs, NEW c \in Commands, Start(p, c)
      PROVE  TypeOK'
  BY <1>1 DEF Start, tree, used, DatabaseOK, CommandsOK, Pcs, Scans, NoScan, CommandNames,
              States, Applying
<1>2. ASSUME NEW p \in Procs, Abort(p)
      PROVE  TypeOK'
  BY <1>2, StopTypes DEF Abort, tree, DatabaseOK
<1>3. ASSUME NEW f \in Files, NEW b \in Bodies \cup {None}, Edit(f, b)
      PROVE  TypeOK'
  BY <1>3 DEF Edit, used, DatabaseOK, CommandsOK
<1>4. ASSUME NEW p \in Procs, ListStep(p)
      PROVE  TypeOK'
  <2>. DEFINE found == {f \in OnDisk : StepOf[f] = scan[p].step}
              s == [scan[p] EXCEPT !.step = scan[p].step + 1, !.left = found,
                                   !.seen = scan[p].seen \cup found]
  <2>1. DatabaseOK'
    BY <1>4 DEF ListStep, tree, used, DatabaseOK
  <2>2. CASE scan[p].step \in Steps
    <3>1. scan[p] \in Scans
      BY OldLocals
    <3>2. found \subseteq Files
      BY DEF OnDisk
    <3>3. scan[p].step \in Nat /\ scan[p].seen \subseteq Files
      BY <3>1, ScanFields
    <3>4. /\ found \in SUBSET Files /\ scan[p].step + 1 \in Nat
          /\ scan[p].seen \cup found \in SUBSET Files
      BY <3>2, <3>3
    <3>5. s \in Scans
      BY <3>1, <3>4, ScanFields
    <3>6. /\ scan' = [scan EXCEPT ![p] = s] /\ pc' = [pc EXCEPT ![p] = "hash"]
          /\ todo' = [todo EXCEPT ![p] = todo[p]] /\ work' = [work EXCEPT ![p] = work[p]]
      BY <1>4, <2>2, OldLocals DEF ListStep
    <3>. HIDE DEF s
    <3>7. "hash" \in Pcs \ (Applying \cup {"select", "write"})
      BY DEF Pcs, Applying
    <3>8. CommandsOK'
      BY <3>5, <3>6, <3>7, OldLocals, NewLocals
    <3>9. QED
      BY <2>1, <3>8
  <2>3. CASE scan[p].step \notin Steps
    BY <1>4, <2>1, <2>3 DEF ListStep, CommandsOK, Pcs, Applying
  <2>4. QED
    BY <2>2, <2>3
<1>5. ASSUME NEW p \in Procs, HashFile(p)
      PROVE  TypeOK'
  <2>1. CASE scan[p].left = {}
    BY <1>5, <2>1 DEF HashFile, tree, used, DatabaseOK, CommandsOK, Pcs, Applying
  <2>2. CASE scan[p].left # {} /\ disk[Least(scan[p].left)] = None
    BY <1>5, <2>2, StopTypes DEF HashFile, tree, used, DatabaseOK
  <2>3. CASE scan[p].left # {} /\ disk[Least(scan[p].left)] # None
    <3>1. scan[p] \in Scans
      BY DEF CommandsOK
    <3>2. scan[p].left \subseteq Files /\ Least(scan[p].left) \in Files
      BY <2>3, <3>1, LeastIsLeast DEF Scans, Files
    <3>3. disk[Least(scan[p].left)] \in Contents
      BY <3>2 DEF DatabaseOK
    <3>. DEFINE f == Least(scan[p].left)
                s == [scan[p] EXCEPT !.left = scan[p].left \ {f}, !.file = f, !.sha = disk[f]]
    <3>4. /\ scan' = [scan EXCEPT ![p] = s] /\ pc' = [pc EXCEPT ![p] = "select"]
          /\ todo' = [todo EXCEPT ![p] = todo[p]] /\ work' = [work EXCEPT ![p] = work[p]]
          /\ UNCHANGED <<tree, ledger, history, executed, used>>
      BY <1>5, <2>3, OldLocals DEF HashFile
    <3>5. s \in Scans /\ s.file \in Files
      BY <3>1, <3>2, <3>3, ScanFields DEF Scans
    <3>. HIDE DEF s
    <3>6. "select" \in Pcs \ Applying
      BY DEF Pcs, Applying
    <3>7. CommandsOK'
      BY <3>4, <3>5, <3>6, OldLocals, NewLocals
    <3>8. QED
      BY <3>4, <3>7 DEF tree, used, DatabaseOK
  <2>4. QED
    BY <2>1, <2>2, <2>3
<1>6. ASSUME NEW p \in Procs, SelectRow(p)
      PROVE  TypeOK'
  <2>1. CASE Stop(p)
    BY <1>6, <2>1, StopTypes DEF SelectRow, tree, used, DatabaseOK
  <2>2. CASE pc' = [pc EXCEPT ![p] = "hash"] /\ UNCHANGED <<scan, todo, work>>
    BY <1>6, <2>2 DEF SelectRow, tree, used, DatabaseOK, CommandsOK, Pcs, Applying
  <2>3. CASE /\ scan' = [scan EXCEPT ![p].dbState = ledger[scan[p].file].state]
             /\ pc' = [pc EXCEPT ![p] = "write"] /\ UNCHANGED <<todo, work>>
    <3>. DEFINE s == [scan[p] EXCEPT !.dbState = ledger[scan[p].file].state]
    <3>1. scan[p].file \in Files
      BY <1>6, OldLocals DEF SelectRow
    <3>2. s \in Scans /\ s.file \in Files
      <4>1. scan[p] \in Scans /\ ledger[scan[p].file].state \in States
        BY <3>1, OldLocals DEF DatabaseOK, Rows
      <4>2. QED
        BY <3>1, <4>1, ScanFields DEF Scans
    <3>3. /\ scan' = [scan EXCEPT ![p] = s] /\ pc' = [pc EXCEPT ![p] = "write"]
          /\ todo' = [todo EXCEPT ![p] = todo[p]] /\ work' = [work EXCEPT ![p] = work[p]]
      BY <2>3, OldLocals DEF CommandsOK
    <3>. HIDE DEF s
    <3>4. "write" \in Pcs \ Applying
      BY DEF Pcs, Applying
    <3>5. CommandsOK'
      BY <3>2, <3>3, <3>4, OldLocals, NewLocals
    <3>6. QED
      BY <1>6, <3>5 DEF SelectRow, tree, used, DatabaseOK
  <2>4. QED
    BY <1>6, <2>1, <2>2, <2>3 DEF SelectRow
<1>7. ASSUME NEW p \in Procs, WriteRow(p)
      PROVE  TypeOK'
  <2>1. CASE Stop(p) /\ UNCHANGED ledger
    BY <1>7, <2>1, StopTypes DEF WriteRow, tree, used, DatabaseOK
  <2>2. CASE pc' = [pc EXCEPT ![p] = "hash"] /\ UNCHANGED <<scan, todo, work>>
    <3>1. scan[p].file \in Files /\ scan[p].sha \in Contents
      BY <1>7 DEF WriteRow, CommandsOK, Scans
    <3>2. ledger' \in [Files -> Rows]
      <4>1. ledger[scan[p].file] \in Rows
        BY <3>1 DEF DatabaseOK
      <4>2. CASE UNCHANGED ledger
        BY <4>2 DEF DatabaseOK
      <4>3. PICK r \in Rows : UNCHANGED ledger \/ ledger' = [ledger EXCEPT ![scan[p].file] = r]
        BY <1>7, <3>1, <4>1, RowFields DEF WriteRow
      <4>4. QED
        BY <4>3 DEF DatabaseOK
    <3>3. QED
      BY <1>7, <2>2, <3>2 DEF WriteRow, tree, used, DatabaseOK, CommandsOK, Pcs, Applying
  <2>3. QED
    BY <1>7, <2>1, <2>2 DEF WriteRow
<1>8. ASSUME NEW p \in Procs, CheckMissing(p)
      PROVE  TypeOK'
  BY <1>8, StopTypes DEF CheckMissing, tree, used, DatabaseOK, CommandsOK, Pcs, Applying
<1>9. ASSUME NEW p \in Procs, PlanUp(p)
      PROVE  TypeOK'
  <2>1. CASE Stop(p) /\ UNCHANGED runs
    BY <1>9, <2>1, StopTypes DEF PlanUp, tree, DatabaseOK
  <2>2. ASSUME NEW target \in Pending, Take(p, UpTo(target))
        PROVE  TypeOK'
    <3>1. UpTo(target) \subseteq Files /\ UpTo(target) # {}
      BY DEF UpTo, Pending, Files
    <3>2. QED
      BY <1>9, <2>2, <3>1, TakeTypes DEF PlanUp
  <2>3. QED
    BY <1>9, <2>1, <2>2 DEF PlanUp
<1>10. ASSUME NEW p \in Procs, PlanRun(p)
      PROVE  TypeOK'
  <2>1. CASE Stop(p) /\ UNCHANGED runs
    BY <1>10, <2>1, StopTypes DEF PlanRun, tree, DatabaseOK
  <2>2. ASSUME NEW f \in Runnable,
               NEW S \in {{f}, {g \in Runnable : StepOf[g] = StepOf[f]}}, Take(p, S)
        PROVE  TypeOK'
    <3>1. S \subseteq Files /\ S # {}
      BY DEF Runnable, OnDisk
    <3>2. QED
      BY <1>10, <2>2, <3>1, TakeTypes DEF PlanRun
  <2>3. QED
    BY <1>10, <2>1, <2>2 DEF PlanRun
<1>11. ASSUME NEW p \in Procs, ReadBody(p)
      PROVE  TypeOK'
  <2>1. CASE Stop(p)
    BY <1>11, <2>1, StopTypes DEF ReadBody, tree, used, DatabaseOK
  <2>2. CASE ~Stop(p)
    <3>1. NextItem(p) \in Items
      BY <1>11, NextItemIsFirst DEF ReadBody, CommandsOK, Applying
    <3>2. /\ NextItem(p).file \in Files /\ NextItem(p).sha \in Contents
          /\ disk[NextItem(p).file] \in Contents
      BY <3>1 DEF Items, DatabaseOK
    <3>. DEFINE t == NextItem(p)
                w == [work[p] EXCEPT !.file = t.file, !.sha = t.sha, !.sql = disk[t.file]]
    <3>3. w \in Works /\ w.file \in Files
      BY <3>2, OldLocals, WorkFields DEF Works
    <3>4. /\ work' = [work EXCEPT ![p] = w] /\ pc' = [pc EXCEPT ![p] = "exec"]
          /\ scan' = [scan EXCEPT ![p] = scan[p]] /\ todo' = [todo EXCEPT ![p] = todo[p]]
          /\ todo[p] # {}
      BY <1>11, <2>2, OldLocals DEF ReadBody, Applying
    <3>. HIDE DEF w, t
    <3>5. "exec" \in Pcs \ {"select", "write"}
      BY DEF Pcs
    <3>6. CommandsOK'
      BY <3>3, <3>4, <3>5, OldLocals, NewLocals
    <3>7. QED
      BY <1>11, <3>6 DEF ReadBody, tree, used, DatabaseOK
  <2>3. QED
    BY <2>1, <2>2
<1>12. ASSUME NEW p \in Procs, RunBody(p)
      PROVE  TypeOK'
  <2>1. PICK ok \in BOOLEAN : Outcome(p, ok)
    BY <1>12 DEF RunBody
  <2>2. CommandsOK'
    <3>. DEFINE w == [work[p] EXCEPT !.ok = ok]
    <3>1. work[p].file \in Files /\ todo[p] # {}
      BY <1>12, OldLocals DEF RunBody, Applying
    <3>2. w \in Works /\ w.file \in Files
      BY <3>1, OldLocals, WorkFields DEF Works
    <3>3. /\ work' = [work EXCEPT ![p] = w] /\ pc' = [pc EXCEPT ![p] = "record"]
          /\ scan' = [scan EXCEPT ![p] = scan[p]] /\ todo' = [todo EXCEPT ![p] = todo[p]]
      BY <1>12, <2>1, OldLocals DEF RunBody, Outcome, CommandsOK
    <3>. HIDE DEF w
    <3>4. "record" \in Pcs \ {"select", "write"}
      BY DEF Pcs
    <3>5. QED
      BY <3>1, <3>2, <3>3, <3>4, OldLocals, NewLocals
  <2>3. executed' \in Seq(Executions)
    <3>1. CASE UNCHANGED executed
      BY <3>1 DEF DatabaseOK
    <3>2. CASE CommitBody(p)
      BY <1>12, <3>2, AppendProperties
         DEF RunBody, CommitBody, DatabaseOK, CommandsOK, Executions, Works, Scans, Applying
    <3>3. QED
      BY <1>12, <3>1, <3>2 DEF RunBody
  <2>4. QED
    <3>1. fails' = fails \/ fails' = fails + 1
      BY <1>12 DEF RunBody
    <3>2. QED
      BY <1>12, <2>2, <2>3, <3>1 DEF RunBody, tree, DatabaseOK
<1>13. ASSUME NEW p \in Procs, RecordAttempt(p)
      PROVE  TypeOK'
  <2>1. work[p] \in Works /\ work[p].file \in Files
    BY <1>13 DEF RecordAttempt, NewHistoryId, CommandsOK, Applying
  <2>2. NextAttempt(ledger[work[p].file]) \in Nat
    BY <2>1 DEF NextAttempt, DatabaseOK, Rows
  <2>3. history' \in Seq(HistoryRows) /\ Len(history) \in Nat
    BY <1>13, <2>1, <2>2, AppendProperties, LenProperties
       DEF RecordAttempt, NewHistoryId, DatabaseOK, HistoryRows, Works
  <2>4. CommandsOK'
    <3>. DEFINE w == [work[p] EXCEPT !.hist = Len(history) + 1,
                                     !.attempt = NextAttempt(ledger[work[p].file])]
    <3>1. Len(history) + 1 \in Nat
      BY <2>3
    <3>2. w \in Works /\ w.file \in Files
      BY <2>1, <2>2, <3>1, WorkFields DEF Works
    <3>3. /\ work' = [work EXCEPT ![p] = w] /\ pc' = [pc EXCEPT ![p] = "mark"]
          /\ scan' = [scan EXCEPT ![p] = scan[p]] /\ todo' = [todo EXCEPT ![p] = todo[p]]
          /\ todo[p] # {}
      BY <1>13, OldLocals DEF RecordAttempt, NewHistoryId, Applying
    <3>. HIDE DEF w
    <3>4. "mark" \in Pcs \ {"select", "write"}
      BY DEF Pcs
    <3>5. QED
      BY <3>2, <3>3, <3>4, OldLocals, NewLocals
  <2>5. QED
    BY <1>13, <2>3, <2>4 DEF RecordAttempt, NewHistoryId, tree, used, DatabaseOK
<1>14. ASSUME NEW p \in Procs, MarkRow(p)
      PROVE  TypeOK'
  <2>1. work[p] \in Works /\ work[p].file \in Files
    BY <1>14 DEF MarkRow, CommandsOK, Applying
  <2>2. ledger' \in [Files -> Rows]
    <3>1. PICK r \in Rows : ledger' = [ledger EXCEPT ![work[p].file] = r]
      BY <1>14, <2>1, RowFields DEF MarkRow, DatabaseOK
    <3>2. QED
      BY <3>1 DEF DatabaseOK
  <2>3. CommandsOK'
    <3>1. CASE Stop(p)
      BY <3>1, StopTypes
    <3>2. CASE ~Stop(p)
      <4>. DEFINE w == [NoWork EXCEPT !.run = work[p].run]
                  rest == todo[p] \ {NextItem(p)}
      <4>1. w \in Works /\ rest \in SUBSET Items
        BY OldLocals, WorkFields
      <4>2. rest # {} /\ todo' = [todo EXCEPT ![p] = rest] /\ work' = [work EXCEPT ![p] = w]
            /\ pc' = [pc EXCEPT ![p] = "read"] /\ scan' = [scan EXCEPT ![p] = scan[p]]
        BY <1>14, <3>2, OldLocals DEF MarkRow
      <4>. HIDE DEF w, rest
      <4>3. "read" \in Pcs \ {"select", "write"}
        BY DEF Pcs
      <4>4. QED
        BY <4>1, <4>2, <4>3, OldLocals, NewLocals
    <3>3. QED
      BY <3>1, <3>2
  <2>4. QED
    BY <1>14, <2>2, <2>3 DEF MarkRow, tree, used, DatabaseOK
<1>15. CASE UNCHANGED vars
  BY <1>15 DEF vars, DatabaseOK, CommandsOK
<1>16. QED
  BY <1>1, <1>2, <1>3, <1>4, <1>5, <1>6, <1>7, <1>8, <1>9, <1>10, <1>11, <1>12, <1>13,
     <1>14, <1>15 DEF Next, Step, Scan, Apply

\* Every variable keeps its type, for any number of commands, files and steps,
\* and every bound.
THEOREM TypeCorrect == Spec => []TypeOK
BY InitTypes, NextTypes, PTL DEF Spec

-----------------------------------------------------------------------------
(* What commands hold in their locals *)

\* A row is never forgotten, a body that ran has run, history only grows.
Grows ==
  /\ \A f \in Files : ledger[f].state # "none" => ledger'[f].state # "none"
  /\ \A f \in Files : Ran(f) => Ran(f)'
  /\ Len(history) <= Len(history')
  /\ \A i \in 1..Len(history) : history'[i] = history[i]

\* How the ledger may change: preflight writes the row of the file it looks at
\* and MarkRow the row of the file it applied.
LEMMA LedgerWrites ==
  ASSUME TypeOK, [Next]_vars
  PROVE  \/ UNCHANGED ledger
         \/ \E p \in Procs : WriteRow(p)
         \/ \E p \in Procs : MarkRow(p)
BY DEF Next, Step, Scan, Apply, Start, Abort, Edit, ListStep, HashFile, SelectRow,
       CheckMissing, PlanUp, PlanRun, ReadBody, RunBody, RecordAttempt, vars

LEMMA WriteRowWrites ==
  ASSUME TypeOK, NEW p \in Procs, WriteRow(p)
  PROVE  LET f == scan[p].file
             r == ledger[f]
         IN  /\ f \in Files /\ r \in Rows
             /\ \/ UNCHANGED ledger
                \/ /\ scan[p].dbState = "none" /\ r.state = "none"
                   /\ ledger' = [ledger EXCEPT ![f] = Discovered(scan[p].sha)]
                \/ /\ scan[p].dbState = "applied"
                   /\ ledger' = [ledger EXCEPT ![f] = Requeued(r, scan[p].sha)]
                \/ /\ scan[p].dbState = "pending"
                   /\ ledger' = [ledger EXCEPT ![f] = Refreshed(r, scan[p].sha)]
BY DEF WriteRow, TypeOK, DatabaseOK, CommandsOK

LEMMA MarkRowWrites ==
  ASSUME TypeOK, NEW p \in Procs, MarkRow(p)
  PROVE  LET w == work[p]
             r == Attempted(ledger[w.file], w)
         IN  /\ w.file \in Files /\ ledger[w.file] \in Rows
             /\ w.ok => ledger' = [ledger EXCEPT ![w.file] = Succeeded(r, w)]
             /\ ~w.ok => ledger' = [ledger EXCEPT ![w.file] = r]
<1>1. work[p].file \in Files
  BY DEF MarkRow, TypeOK, CommandsOK, Applying
<1>2. ledger[work[p].file] \in Rows
  BY <1>1 DEF TypeOK, DatabaseOK
<1>3. QED
  BY <1>1, <1>2 DEF MarkRow, TypeOK, DatabaseOK

LEMMA LedgerGrows ==
  ASSUME TypeOK, [Next]_vars
  PROVE  \A f \in Files : ledger[f].state # "none" => ledger'[f].state # "none"
<1>. USE DEF TypeOK, DatabaseOK
<1>1. CASE UNCHANGED ledger
  BY <1>1
<1>2. ASSUME NEW p \in Procs, WriteRow(p)
      PROVE  \A f \in Files : ledger[f].state # "none" => ledger'[f].state # "none"
  <2>1. \A c : /\ Discovered(c).state = "pending"
               /\ \A r \in Rows : /\ Requeued(r, c).state = "pending"
                                  /\ Refreshed(r, c).state = r.state
    BY DEF Rows, NoRow, Discovered, Requeued, Refreshed
  <2>2. QED
    BY <1>2, <2>1, WriteRowWrites
<1>3. ASSUME NEW p \in Procs, MarkRow(p)
      PROVE  \A f \in Files : ledger[f].state # "none" => ledger'[f].state # "none"
  <2>1. \A r \in Rows : /\ Attempted(r, work[p]).state = r.state
                        /\ Succeeded(Attempted(r, work[p]), work[p]).state = "applied"
    BY DEF Rows, Attempted, Succeeded
  <2>2. work[p].ok \in BOOLEAN
    BY DEF CommandsOK, Works
  <2>3. QED
    BY <1>3, <2>1, <2>2, MarkRowWrites
<1>4. QED
  BY <1>1, <1>2, <1>3, LedgerWrites

LEMMA CommitBodyAppends ==
  ASSUME TypeOK, NEW p \in Procs, pc[p] = "exec", CommitBody(p)
  PROVE  /\ Len(executed) \in Nat /\ Len(executed') = Len(executed) + 1
         /\ \A i \in 1..Len(executed) : executed'[i] = executed[i]
         /\ executed'[Len(executed) + 1].file = work[p].file
<1>. DEFINE e == [run |-> work[p].run, cmd |-> scan[p].cmd, file |-> work[p].file,
                  body |-> disk[work[p].file]]
<1>1. e \in Executions /\ executed \in Seq(Executions)
  BY DEF TypeOK, DatabaseOK, CommandsOK, Executions, Works, Scans, Applying
<1>2. executed' = Append(executed, e) /\ e.file = work[p].file
  BY DEF CommitBody
<1>. HIDE DEF e
<1>3. QED
  BY <1>1, <1>2, AppendProperties, LenProperties

LEMMA RecordAttemptAppends ==
  ASSUME TypeOK, NEW p \in Procs, RecordAttempt(p)
  PROVE  /\ Len(history) \in Nat /\ Len(history') = Len(history) + 1
         /\ \A i \in 1..Len(history) : history'[i] = history[i]
         /\ LET h == history'[Len(history) + 1] IN
              /\ h.file = work[p].file /\ h.ok = work[p].ok
              /\ h.sha = work[p].sha /\ h.sql = work[p].sql
<1>. DEFINE w == work[p]
            h == [file |-> w.file, sha |-> w.sha, sql |-> w.sql, ok |-> w.ok,
                  attempt |-> NextAttempt(ledger[w.file])]
<1>1. w \in Works /\ w.file \in Files /\ NextAttempt(ledger[w.file]) \in Nat
  BY DEF RecordAttempt, NewHistoryId, NextAttempt, TypeOK, DatabaseOK, CommandsOK, Rows, Applying
<1>2. h \in HistoryRows /\ history \in Seq(HistoryRows)
  BY <1>1 DEF HistoryRows, Works, TypeOK, DatabaseOK
<1>3. /\ history' = Append(history, h)
      /\ h.file = w.file /\ h.ok = w.ok /\ h.sha = w.sha /\ h.sql = w.sql
  BY DEF RecordAttempt, NewHistoryId
<1>. HIDE DEF h
<1>4. QED
  BY <1>2, <1>3, AppendProperties, LenProperties

\* Only RunBody touches the executed bodies, only RecordAttempt the history.
LEMMA BodiesGrow ==
  ASSUME TypeOK, [Next]_vars
  PROVE  \A f \in Files : Ran(f) => Ran(f)'
<1>1. CASE UNCHANGED executed
  BY <1>1 DEF Ran
<1>2. ASSUME NEW p \in Procs, RunBody(p)
      PROVE  \A f \in Files : Ran(f) => Ran(f)'
  <2>1. CASE UNCHANGED executed
    BY <2>1 DEF Ran
  <2>2. CASE CommitBody(p)
    <3>1. pc[p] = "exec"
      BY <1>2 DEF RunBody
    <3>2. QED
      BY <2>2, <3>1, CommitBodyAppends DEF Ran
  <2>3. QED
    BY <1>2, <2>1, <2>2 DEF RunBody
<1>3. QED
  BY <1>1, <1>2 DEF Next, Step, Scan, Apply, Start, Abort, Edit, ListStep, HashFile, SelectRow,
                    WriteRow, CheckMissing, PlanUp, PlanRun, ReadBody, RecordAttempt, MarkRow,
                    vars

LEMMA HistoryGrows ==
  ASSUME TypeOK, [Next]_vars
  PROVE  /\ Len(history) <= Len(history')
         /\ \A i \in 1..Len(history) : history'[i] = history[i]
<1>1. CASE UNCHANGED history
  BY <1>1, LenProperties DEF TypeOK, DatabaseOK
<1>2. ASSUME NEW p \in Procs, RecordAttempt(p)
      PROVE  /\ Len(history) <= Len(history')
             /\ \A i \in 1..Len(history) : history'[i] = history[i]
  BY <1>2, RecordAttemptAppends
<1>3. QED
  BY <1>1, <1>2 DEF Next, Step, Scan, Apply, Start, Abort, Edit, ListStep, HashFile, SelectRow,
                    WriteRow, CheckMissing, PlanUp, PlanRun, ReadBody, RunBody, MarkRow, vars

LEMMA StepsGrow ==
  ASSUME TypeOK, [Next]_vars
  PROVE  Grows
BY LedgerGrows, BodiesGrow, HistoryGrows DEF Grows

\* A step leaves the locals of the other commands alone.
LEMMA OthersKeep ==
  ASSUME TypeOK, NEW p \in Procs, NEW q \in Procs, q # p,
         Step(p) \/ Abort(p) \/ \E c \in Commands : Start(p, c)
  PROVE  /\ pc'[q] = pc[q] /\ scan'[q] = scan[q]
         /\ todo'[q] = todo[q] /\ work'[q] = work[q]
<1>. USE DEF TypeOK, CommandsOK
<1>1. CASE Abort(p) \/ \E c \in Commands : Start(p, c)
  BY <1>1 DEF Abort, Start, Stop
<1>2. CASE Scan(p)
  BY <1>2 DEF Scan, ListStep, HashFile, SelectRow, WriteRow, CheckMissing, Stop
<1>3. CASE PlanUp(p) \/ PlanRun(p)
  BY <1>3 DEF PlanUp, PlanRun, Take, Stop
<1>4. CASE Apply(p)
  BY <1>4 DEF Apply, ReadBody, RunBody, Outcome, RecordAttempt, MarkRow, Stop
<1>5. QED
  BY <1>1, <1>2, <1>3, <1>4 DEF Step

\* So what they hold stays true.
LEMMA KeptHolds ==
  ASSUME TypeOK, [Next]_vars, LocalsHold, NEW q \in Procs,
         pc'[q] = pc[q], scan'[q] = scan[q], todo'[q] = todo[q], work'[q] = work[q]
  PROVE  ScanHolds(q)' /\ PlanHolds(q)' /\ AttemptHolds(q)'
<1>. USE StepsGrow DEF LocalsHold
<1>1. ScanHolds(q)'
  BY DEF ScanHolds, TypeOK, CommandsOK, Grows
<1>2. PlanHolds(q)'
  <2>1. \A t \in todo[q] : t.file \in Files
    BY DEF TypeOK, CommandsOK, Items
  <2>2. QED
    BY <2>1 DEF PlanHolds, TypeOK, CommandsOK, Grows
<1>3. AttemptHolds(q)'
  <2>1. pc[q] \in {"record", "mark"} => work[q].file \in Files
    BY DEF TypeOK, CommandsOK, Applying
  <2>2. Len(history) \in Nat /\ Len(history') \in Nat
    BY NextTypes, LenProperties DEF TypeOK, DatabaseOK
  <2>3. QED
    BY <2>1, <2>2 DEF AttemptHolds, Grows
<1>4. QED
  BY <1>1, <1>2, <1>3

\* The same for the command that takes the step. Most steps leave it where it
\* holds nothing.
LEMMA IdleHolds ==
  ASSUME NEW p \in Procs, pc'[p] \notin Applying \cup {"write"}
  PROVE  ScanHolds(p)' /\ PlanHolds(p)' /\ AttemptHolds(p)'
BY DEF ScanHolds, PlanHolds, AttemptHolds, Applying

LEMMA StopHolds ==
  ASSUME TypeOK, NEW p \in Procs, Stop(p)
  PROVE  ScanHolds(p)' /\ PlanHolds(p)' /\ AttemptHolds(p)'
BY IdleHolds DEF Stop, Applying, TypeOK, CommandsOK

LEMMA TakeHolds ==
  ASSUME TypeOK, NEW p \in Procs, NEW S, S \subseteq Files, Take(p, S), UNCHANGED ledger,
         \A f \in S : ledger[f].state # "none"
  PROVE  ScanHolds(p)' /\ PlanHolds(p)' /\ AttemptHolds(p)'
<1>1. pc'[p] = "read" /\ todo'[p] = Planned(S)
  BY DEF Take, TypeOK, CommandsOK
<1>2. \A t \in Planned(S) : ledger[t.file].state # "none"
  BY DEF Planned
<1>3. QED
  BY <1>1, <1>2 DEF ScanHolds, PlanHolds, AttemptHolds, Applying

LEMMA StepHolds ==
  ASSUME TypeOK, LocalsHold, NEW p \in Procs,
         Step(p) \/ Abort(p) \/ \E c \in Commands : Start(p, c)
  PROVE  ScanHolds(p)' /\ PlanHolds(p)' /\ AttemptHolds(p)'
<1>. USE DEF TypeOK
<1>1. CASE Stop(p)
  BY <1>1, StopHolds
<1>2. CASE \E c \in Commands : Start(p, c)
  BY <1>2, IdleHolds DEF Start, CommandsOK, Applying
<1>3. CASE (ListStep(p) \/ HashFile(p) \/ WriteRow(p) \/ CheckMissing(p)) /\ ~Stop(p)
  BY <1>3, IdleHolds DEF ListStep, HashFile, WriteRow, CheckMissing, CommandsOK, Applying
<1>4. CASE SelectRow(p) /\ ~Stop(p)
  <2>1. CASE pc'[p] # "write"
    BY <1>4, <2>1, IdleHolds DEF SelectRow, CommandsOK, Applying
  <2>2. CASE pc'[p] = "write"
    <3>. DEFINE f == scan[p].file
    <3>1. f \in Files /\ scan[p] \in Scans
      BY <1>4 DEF SelectRow, CommandsOK
    <3>2. /\ scan' = [scan EXCEPT ![p].dbState = ledger[f].state]
          /\ ~Unchanged(ledger[f], scan[p].sha) /\ ~Tampered(f, ledger[f], scan[p].sha)
          /\ UNCHANGED ledger
      BY <1>4, <2>2 DEF SelectRow, CommandsOK
    <3>3. scan'[p].file = f /\ scan'[p].dbState = ledger[f].state
      BY <3>1, <3>2 DEF CommandsOK, Scans
    <3>4. f \in Migrations => ledger[f].state # "applied"
      BY <3>2 DEF Unchanged, Tampered
    <3>5. QED
      BY <2>2, <3>2, <3>3, <3>4 DEF ScanHolds, PlanHolds, AttemptHolds, Applying
  <2>3. QED
    BY <2>1, <2>2
<1>5. CASE PlanUp(p) /\ ~Stop(p)
  <2>1. PICK target \in Pending : Take(p, UpTo(target))
    BY <1>5 DEF PlanUp
  <2>2. QED
    BY <1>5, <2>1, TakeHolds DEF PlanUp, UpTo, Pending
<1>6. CASE PlanRun(p) /\ ~Stop(p)
  <2>1. PICK f \in Runnable : \E S \in {{f}, {g \in Runnable : StepOf[g] = StepOf[f]}} :
          Take(p, S)
    BY <1>6 DEF PlanRun
  <2>2. PICK S : S \subseteq Runnable /\ Take(p, S)
    BY <2>1
  <2>3. QED
    BY <1>6, <2>2, TakeHolds DEF PlanRun, Runnable, OnDisk
<1>7. CASE ReadBody(p) /\ ~Stop(p)
  <2>. DEFINE t == NextItem(p)
              w == [work[p] EXCEPT !.file = t.file, !.sha = t.sha, !.sql = disk[t.file]]
  <2>1. t \in todo[p]
    BY <1>7, NextItemIsFirst DEF ReadBody, CommandsOK, Applying
  <2>2. work' = [work EXCEPT ![p] = w] /\ pc' = [pc EXCEPT ![p] = "exec"]
        /\ UNCHANGED <<todo, ledger>>
    BY <1>7 DEF ReadBody
  <2>3. w.file = t.file
    BY OldLocals DEF Works
  <2>. HIDE DEF w, t
  <2>4. work'[p].file = t.file /\ pc'[p] = "exec"
    BY <2>2, <2>3 DEF CommandsOK
  <2>5. \A u \in todo[p] : ledger[u.file].state # "none"
    BY <1>7 DEF LocalsHold, PlanHolds, ReadBody, Applying
  <2>6. QED
    BY <2>1, <2>2, <2>4, <2>5 DEF ScanHolds, PlanHolds, AttemptHolds, Applying
<1>8. CASE RunBody(p)
  <2>1. PICK ok \in BOOLEAN : Outcome(p, ok) /\ (ok => CommitBody(p))
    BY <1>8 DEF RunBody
  <2>2. /\ pc[p] = "exec" /\ pc'[p] = "record" /\ work'[p].ok = ok
        /\ work'[p].file = work[p].file /\ UNCHANGED <<todo, ledger>>
    BY <1>8, <2>1, OldLocals DEF RunBody, Outcome, CommandsOK, Works
  <2>3. ok => Ran(work[p].file)'
    BY <2>1, <2>2, CommitBodyAppends DEF Ran
  <2>4. QED
    BY <2>2, <2>3 DEF LocalsHold, ScanHolds, PlanHolds, AttemptHolds, Ran, Applying
<1>9. CASE RecordAttempt(p)
  <2>. DEFINE w == [work[p] EXCEPT !.hist = Len(history) + 1,
                                   !.attempt = NextAttempt(ledger[work[p].file])]
  <2>1. pc[p] = "record" /\ work' = [work EXCEPT ![p] = w] /\ pc' = [pc EXCEPT ![p] = "mark"]
        /\ UNCHANGED <<todo, ledger, executed>>
    BY <1>9 DEF RecordAttempt, NewHistoryId
  <2>2. /\ w.file = work[p].file /\ w.ok = work[p].ok /\ w.sha = work[p].sha
        /\ w.sql = work[p].sql /\ w.hist = Len(history) + 1
    BY OldLocals DEF Works
  <2>. HIDE DEF w
  <2>3. work'[p] = w /\ pc'[p] = "mark"
    BY <2>1 DEF CommandsOK
  <2>4. w.hist \in 1..Len(history')
    BY <1>9, <2>2, RecordAttemptAppends
  <2>5. /\ history'[w.hist].file = w.file /\ history'[w.hist].ok = w.ok
        /\ history'[w.hist].sha = w.sha /\ history'[w.hist].sql = w.sql
    BY <1>9, <2>2, RecordAttemptAppends
  <2>6. work'[p].ok => Ran(work[p].file)'
    <3>1. work[p].ok => Ran(work[p].file)
      BY <2>1 DEF LocalsHold, AttemptHolds
    <3>2. QED
      BY <2>1, <2>2, <2>3, <3>1 DEF Ran
  <2>7. QED
    BY <2>1, <2>2, <2>3, <2>4, <2>5, <2>6
       DEF LocalsHold, ScanHolds, PlanHolds, AttemptHolds, Applying, Ran
<1>10. CASE MarkRow(p) /\ ~Stop(p)
  <2>1. /\ pc[p] = "mark" /\ pc'[p] = "read"
        /\ todo'[p] \subseteq todo[p]
    BY <1>10 DEF MarkRow, CommandsOK
  <2>2. \A t \in todo[p] : t.file \in Files /\ ledger[t.file].state # "none"
    BY <2>1 DEF LocalsHold, PlanHolds, CommandsOK, Items, Applying
  <2>3. [Next]_vars
    BY <1>10 DEF Next, Step, Apply
  <2>4. \A t \in todo[p] : ledger'[t.file].state # "none"
    BY <2>2, <2>3, LedgerGrows
  <2>5. QED
    BY <2>1, <2>4 DEF ScanHolds, PlanHolds, AttemptHolds, Applying
<1>11. QED
  BY <1>1, <1>2, <1>3, <1>4, <1>5, <1>6, <1>7, <1>8, <1>9, <1>10 DEF Step, Scan, Apply, Abort

\* A row turns applied only by MarkRow, at the end of a successful attempt.
LEMMA AppliedByMark ==
  ASSUME TypeOK, LocalsHold, [Next]_vars, NEW f \in Files, ledger'[f].state = "applied"
  PROVE  \/ /\ ledger[f].state = "applied"
            /\ ledger'[f].appliedHist = ledger[f].appliedHist
            /\ ledger'[f].appliedSha = ledger[f].appliedSha
            /\ ledger'[f].appliedSql = ledger[f].appliedSql
         \/ \E p \in Procs :
              /\ MarkRow(p) /\ work[p].file = f /\ work[p].ok
              /\ ledger'[f].appliedHist = work[p].hist
              /\ ledger'[f].appliedSha = work[p].sha
              /\ ledger'[f].appliedSql = work[p].sql
<1>. DEFINE Same == /\ ledger[f].state = "applied"
                    /\ ledger'[f].appliedHist = ledger[f].appliedHist
                    /\ ledger'[f].appliedSha = ledger[f].appliedSha
                    /\ ledger'[f].appliedSql = ledger[f].appliedSql
<1>1. CASE UNCHANGED ledger
  BY <1>1
<1>2. ASSUME NEW p \in Procs, WriteRow(p)
      PROVE  Same
  <2>1. \A c : /\ Discovered(c).state = "pending"
               /\ \A r \in Rows : /\ Requeued(r, c).state = "pending"
                                  /\ Refreshed(r, c).state = r.state
                                  /\ Refreshed(r, c).appliedHist = r.appliedHist
                                  /\ Refreshed(r, c).appliedSha = r.appliedSha
                                  /\ Refreshed(r, c).appliedSql = r.appliedSql
    BY DEF Rows, NoRow, Discovered, Requeued, Refreshed
  <2>2. QED
    BY <1>2, <2>1, WriteRowWrites DEF TypeOK, DatabaseOK
<1>3. ASSUME NEW p \in Procs, MarkRow(p)
      PROVE  \/ Same
             \/ /\ work[p].file = f /\ work[p].ok
                /\ ledger'[f].appliedHist = work[p].hist
                /\ ledger'[f].appliedSha = work[p].sha
                /\ ledger'[f].appliedSql = work[p].sql
  <2>. DEFINE w == work[p]
  <2>1. \A r \in Rows : LET a == Attempted(r, w)
                             d == Succeeded(a, w)
                         IN  /\ a.state = r.state /\ a.appliedHist = r.appliedHist
                             /\ a.appliedSha = r.appliedSha /\ a.appliedSql = r.appliedSql
                             /\ d.appliedHist = w.hist
                             /\ d.appliedSha = w.sha /\ d.appliedSql = w.sql
    BY DEF Rows, Attempted, Succeeded, HistoryId
  <2>2. w.ok \in BOOLEAN
    BY DEF TypeOK, CommandsOK, Works
  <2>3. CASE w.file = f
    BY <1>3, <2>1, <2>2, <2>3, MarkRowWrites DEF TypeOK, DatabaseOK
  <2>4. CASE w.file # f
    BY <1>3, <2>2, <2>4, MarkRowWrites DEF TypeOK, DatabaseOK
  <2>5. QED
    BY <2>3, <2>4
<1>4. QED
  BY <1>1, <1>2, <1>3, LedgerWrites

\* The inductive invariant.
Inv == TypeOK /\ LocalsHold /\ AppliedIsBacked

LEMMA InitInv == Init => Inv
<1>. SUFFICES ASSUME Init PROVE Inv
  OBVIOUS
<1>1. LocalsHold
  BY DEF Init, LocalsHold, ScanHolds, PlanHolds, AttemptHolds, Applying
<1>2. AppliedIsBacked
  BY DEF Init, AppliedIsBacked, NoRow
<1>3. QED
  BY <1>1, <1>2, InitTypes DEF Inv

LEMMA NextInv == Inv /\ [Next]_vars => Inv'
<1>. SUFFICES ASSUME Inv, [Next]_vars PROVE Inv'
  OBVIOUS
<1>. USE DEF Inv
<1>1. LocalsHold'
  <2>1. ASSUME NEW q \in Procs
        PROVE  ScanHolds(q)' /\ PlanHolds(q)' /\ AttemptHolds(q)'
    <3>1. CASE UNCHANGED vars \/ \E f \in Files, b \in Bodies \cup {None} : Edit(f, b)
      BY <3>1, KeptHolds DEF vars, Edit
    <3>2. ASSUME NEW p \in Procs, Step(p) \/ Abort(p) \/ \E c \in Commands : Start(p, c)
          PROVE  ScanHolds(q)' /\ PlanHolds(q)' /\ AttemptHolds(q)'
      <4>1. CASE p = q
        BY <3>2, <4>1, StepHolds
      <4>2. CASE p # q
        BY <3>2, <4>2, OthersKeep, KeptHolds
      <4>3. QED
        BY <4>1, <4>2
    <3>3. QED
      BY <3>1, <3>2 DEF Next
  <2>2. QED
    BY <2>1 DEF LocalsHold
<1>2. AppliedIsBacked'
  <2>1. Len(history) \in Nat /\ Len(history') \in Nat
    BY NextTypes, LenProperties DEF TypeOK, DatabaseOK
  <2>2. ASSUME NEW f \in Files, ledger'[f].state = "applied"
        PROVE  LET r == ledger'[f] IN
               /\ r.appliedHist \in 1..Len(history')
               /\ LET h == history'[r.appliedHist] IN
                    h.file = f /\ h.ok /\ h.sha = r.appliedSha /\ h.sql = r.appliedSql
               /\ Ran(f)'
    <3>1. CASE /\ ledger[f].state = "applied"
               /\ ledger'[f].appliedHist = ledger[f].appliedHist
               /\ ledger'[f].appliedSha = ledger[f].appliedSha
               /\ ledger'[f].appliedSql = ledger[f].appliedSql
      BY <2>1, <3>1, StepsGrow DEF AppliedIsBacked, Grows
    <3>2. ASSUME NEW p \in Procs, MarkRow(p), work[p].file = f, work[p].ok,
                 ledger'[f].appliedHist = work[p].hist,
                 ledger'[f].appliedSha = work[p].sha,
                 ledger'[f].appliedSql = work[p].sql
          PROVE  /\ ledger'[f].appliedHist \in 1..Len(history')
                 /\ LET r == ledger'[f]
                        h == history'[r.appliedHist]
                    IN  h.file = f /\ h.ok /\ h.sha = r.appliedSha /\ h.sql = r.appliedSql
                 /\ Ran(f)'
      BY <2>1, <3>2, StepsGrow DEF LocalsHold, AttemptHolds, MarkRow, Grows
    <3>3. QED
      BY <2>2, <3>1, <3>2, AppliedByMark
  <2>3. QED
    BY <2>2 DEF AppliedIsBacked
<1>3. QED
  BY <1>1, <1>2, NextTypes

\* An applied row is backed by the history row of a successful attempt on its
\* file and by a run of it, for any number of commands and files.
THEOREM AppliedBacked == Spec => []AppliedIsBacked
<1>1. Inv => AppliedIsBacked
  BY DEF Inv
<1>2. QED
  BY <1>1, InitInv, NextInv, PTL DEF Spec

\* What commands carry in their locals stays true of the tables.
THEOREM LocalsStayTrue == Spec => []LocalsHold
<1>1. Inv => LocalsHold
  BY DEF Inv
<1>2. QED
  BY <1>1, InitInv, NextInv, PTL DEF Spec

-----------------------------------------------------------------------------
(* MigrateUp implements LedgerPromise *)

\* Every step is one of the promise, or changes nothing it speaks of.
LEMMA PromiseStep ==
  ASSUME Inv, [Next]_vars
  PROVE  LP!PromiseNext \/ UNCHANGED LP!promiseVars
<1>. DEFINE status == [f \in Files |-> ledger[f].state]
            ran == {f \in Files : Ran(f)}
<1>. USE DEF Inv
<1>1. CASE UNCHANGED <<ledger, executed>>
  BY <1>1 DEF LP!promiseVars, Ran
<1>2. ASSUME NEW p \in Procs, WriteRow(p)
      PROVE  LP!PromiseNext \/ UNCHANGED LP!promiseVars
  <2>. DEFINE f == scan[p].file
  <2>1. ran' = ran
    BY <1>2 DEF WriteRow, Ran
  <2>2. \A c : /\ Discovered(c).state = "pending"
               /\ \A r \in Rows : /\ Requeued(r, c).state = "pending"
                                  /\ Refreshed(r, c).state = r.state
    BY DEF Rows, NoRow, Discovered, Requeued, Refreshed
  <2>3. f \in Files /\ ledger[f] \in Rows
    BY <1>2, WriteRowWrites
  <2>4. CASE status' = status
    BY <2>1, <2>4 DEF LP!promiseVars
  <2>5. CASE ledger[f].state = "none" /\ status' = [status EXCEPT ![f] = "pending"]
    BY <2>1, <2>3, <2>5 DEF LP!PromiseNext, LP!Discover
  <2>6. CASE /\ ledger[f].state = "applied" /\ f \notin Migrations
             /\ status' = [status EXCEPT ![f] = "pending"]
    BY <2>1, <2>3, <2>6 DEF LP!PromiseNext, LP!Requeue
  <2>7. QED
    <3>1. \/ status' = status
          \/ /\ ledger[f].state = "none"
             /\ status' = [status EXCEPT ![f] = "pending"]
          \/ /\ ledger[f].state # "none" /\ scan[p].dbState = "applied"
             /\ status' = [status EXCEPT ![f] = "pending"]
      <4>. DEFINE c == scan[p].sha
      <4>1. ledger \in [Files -> Rows]
        BY DEF TypeOK, DatabaseOK
      <4>2. CASE UNCHANGED ledger
        BY <4>2
      <4>3. CASE ledger[f].state = "none" /\ ledger' = [ledger EXCEPT ![f] = Discovered(c)]
        BY <2>2, <2>3, <4>1, <4>3
      <4>4. CASE /\ scan[p].dbState = "applied"
                 /\ ledger' = [ledger EXCEPT ![f] = Requeued(ledger[f], c)]
        <5>1. ledger[f].state # "none"
          BY <1>2, <4>4 DEF LocalsHold, ScanHolds, WriteRow
        <5>2. QED
          BY <2>2, <2>3, <4>1, <4>4, <5>1
      <4>5. CASE ledger' = [ledger EXCEPT ![f] = Refreshed(ledger[f], c)]
        BY <2>2, <2>3, <4>1, <4>5
      <4>6. QED
        BY <1>2, <4>2, <4>3, <4>4, <4>5, WriteRowWrites
    <3>2. ledger[f].state \in {"none", "pending", "applied"}
      BY <2>3, RowFields DEF States
    <3>3. f \in Migrations => scan[p].dbState # "applied"
      BY <1>2 DEF LocalsHold, ScanHolds, WriteRow
    <3>4. ledger[f].state = "pending" /\ status' = [status EXCEPT ![f] = "pending"]
            => status' = status
      BY <2>3
    <3>5. QED
      BY <2>4, <2>5, <2>6, <3>1, <3>2, <3>3, <3>4
<1>3. ASSUME NEW p \in Procs, MarkRow(p)
      PROVE  LP!PromiseNext \/ UNCHANGED LP!promiseVars
  <2>. DEFINE f == work[p].file
  <2>1. ran' = ran
    BY <1>3 DEF MarkRow, Ran
  <2>2. f \in Files /\ ledger[f] \in Rows
    BY <1>3, MarkRowWrites
  <2>3. \A r \in Rows : /\ Attempted(r, work[p]).state = r.state
                        /\ Succeeded(Attempted(r, work[p]), work[p]).state = "applied"
    BY DEF Rows, Attempted, Succeeded
  <2>4. CASE ~work[p].ok
    <3>1. status' = status
      BY <1>3, <2>2, <2>3, <2>4, MarkRowWrites DEF TypeOK, DatabaseOK
    <3>2. QED
      BY <2>1, <3>1 DEF LP!promiseVars
  <2>5. CASE work[p].ok
    <3>1. status' = [status EXCEPT ![f] = "applied"]
      BY <1>3, <2>2, <2>3, <2>5, MarkRowWrites DEF TypeOK, DatabaseOK
    <3>2. f \in ran
      BY <1>3, <2>2, <2>5 DEF LocalsHold, AttemptHolds, MarkRow
    <3>3. ledger[f].state \in {"pending", "applied"}
      BY <1>3, <2>2, RowFields DEF LocalsHold, PlanHolds, MarkRow, Applying, States
    <3>4. CASE ledger[f].state = "pending"
      BY <2>1, <2>2, <3>1, <3>2, <3>4 DEF LP!PromiseNext, LP!Confirm
    <3>5. CASE ledger[f].state = "applied"
      BY <2>1, <2>2, <3>1, <3>5 DEF LP!promiseVars
    <3>6. QED
      BY <3>3, <3>4, <3>5
  <2>6. QED
    BY <2>4, <2>5
<1>4. ASSUME NEW p \in Procs, RunBody(p)
      PROVE  LP!PromiseNext \/ UNCHANGED LP!promiseVars
  <2>1. PICK f \in Files : f = work[p].file /\ ledger[f].state # "none"
    BY <1>4 DEF RunBody, TypeOK, CommandsOK, LocalsHold, PlanHolds, Applying
  <2>2. status' = status
    BY <1>4 DEF RunBody
  <2>3. CASE UNCHANGED executed
    BY <2>2, <2>3 DEF LP!promiseVars, Ran
  <2>4. CASE CommitBody(p)
    <3>1. pc[p] = "exec"
      BY <1>4 DEF RunBody
    <3>2. Ran(f)'
      BY <2>1, <2>4, <3>1, CommitBodyAppends DEF Ran
    <3>3. \A g \in Files : Ran(g) => Ran(g)'
      BY BodiesGrow
    <3>4. \A g \in Files : Ran(g)' /\ ~Ran(g) => g = f
      <4>1. SUFFICES ASSUME NEW g \in Files, Ran(g)', ~Ran(g) PROVE g = f
        OBVIOUS
      <4>2. PICK i \in 1..Len(executed') : executed'[i].file = g
        BY <4>1 DEF Ran
      <4>3. QED
        BY <2>1, <2>4, <3>1, <4>1, <4>2, CommitBodyAppends DEF Ran
    <3>5. ran' = ran \cup {f}
      BY <2>1, <3>2, <3>3, <3>4
    <3>6. QED
      BY <2>1, <2>2, <3>5 DEF LP!PromiseNext, LP!Perform
  <2>5. QED
    BY <1>4, <2>3, <2>4 DEF RunBody
<1>5. QED
  BY <1>1, <1>2, <1>3, <1>4
     DEF Next, Step, Scan, Apply, Start, Abort, Edit, ListStep, HashFile, SelectRow,
         CheckMissing, PlanUp, PlanRun, ReadBody, RecordAttempt, vars

\* Every behaviour of the commands is one of LedgerPromise.
THEOREM PromiseKept == Spec => KeepsPromise
<1>1. Init => LP!PromiseInit
  BY DEF Init, LP!PromiseInit, NoRow, Ran
<1>2. Inv /\ [Next]_vars => [LP!PromiseNext]_(LP!promiseVars)
  BY PromiseStep
<1>3. QED
  BY <1>1, <1>2, InitInv, NextInv, PTL DEF Spec, KeepsPromise, LP!Promise

-----------------------------------------------------------------------------
(* Each command runs the files of its plan in order, whatever the others do *)

\* A command has a number of its own.
RunIsOwn(p) == pc[p] \in Applying =>
  /\ work[p].run \in 1..runs
  /\ \A q \in Procs : pc[q] \in Applying /\ work[q].run = work[p].run => q = p
\* Its plan names a file once, and the file in hand is the first of the plan.
PlanIsProper(p) == pc[p] \in Applying =>
  /\ \A t, u \in todo[p] : t.file = u.file => t = u
  /\ pc[p] # "read" => work[p].file = NextItem(p).file
\* It has run nothing beyond that file.
Before(p) ==
  /\ pc[p] \in {"read", "exec"} =>
       \A i \in 1..Len(executed), t \in todo[p] :
         executed[i].run = work[p].run => executed[i].file < t.file
  /\ pc[p] \in {"record", "mark"} =>
       \A i \in 1..Len(executed) :
         executed[i].run = work[p].run => executed[i].file <= work[p].file

OrderHolds(p) == RunIsOwn(p) /\ PlanIsProper(p) /\ Before(p)

OrderInv == /\ Inv /\ RunsInOrder
            /\ \A i \in 1..Len(executed) : executed[i].run \in 1..runs
            /\ \A p \in Procs : OrderHolds(p)

\* How a step changes what OrderInv speaks of.
LEMMA CommitBodyRun ==
  ASSUME TypeOK, NEW p \in Procs, RunBody(p), CommitBody(p)
  PROVE  /\ Len(executed) \in Nat /\ Len(executed') = Len(executed) + 1
         /\ \A i \in 1..Len(executed) : executed'[i] = executed[i]
         /\ executed'[Len(executed) + 1].file = work[p].file
         /\ executed'[Len(executed) + 1].run = work[p].run
<1>. DEFINE e == [run |-> work[p].run, cmd |-> scan[p].cmd, file |-> work[p].file,
                  body |-> disk[work[p].file]]
<1>1. e \in Executions /\ executed \in Seq(Executions)
  BY DEF RunBody, TypeOK, DatabaseOK, CommandsOK, Executions, Works, Scans, Applying
<1>2. executed' = Append(executed, e) /\ e.file = work[p].file /\ e.run = work[p].run
  BY DEF CommitBody
<1>. HIDE DEF e
<1>3. QED
  BY <1>1, <1>2, AppendProperties, LenProperties

LEMMA ExecutedFiles ==
  ASSUME TypeOK
  PROVE  \A i \in 1..Len(executed) : executed[i].file \in Int
<1>. SUFFICES ASSUME NEW i \in 1..Len(executed) PROVE executed[i].file \in Int
  OBVIOUS
<1>1. executed[i] \in Executions
  BY ElementOfSeq DEF TypeOK, DatabaseOK
<1>2. QED
  BY <1>1, MigrateUpAssumption DEF Executions, Files

LEMMA OrderInit == Init => OrderInv
<1>. SUFFICES ASSUME Init PROVE OrderInv
  OBVIOUS
<1>1. \A p \in Procs : pc[p] = "idle"
  BY DEF Init
<1>2. Len(executed) = 0
  BY EmptySeq DEF Init
<1>3. QED
  BY <1>1, <1>2, InitInv
     DEF OrderInv, OrderHolds, RunIsOwn, PlanIsProper, Before, RunsInOrder, Applying

\* A command outside the apply loop has no claim but that its number is free.
LEMMA OrderIdle ==
  ASSUME NEW p \in Procs, pc'[p] \notin Applying
  PROVE  OrderHolds(p)'
BY DEF OrderHolds, RunIsOwn, PlanIsProper, Before, Applying

\* A step that leaves runs and executed alone and does not touch q.
LEMMA OrderKept ==
  ASSUME OrderInv, NEW q \in Procs,
         pc'[q] = pc[q], todo'[q] = todo[q], work'[q] = work[q], UNCHANGED <<runs, executed>>,
         \A r \in Procs : pc'[r] \in Applying => pc[r] \in Applying /\ work'[r].run = work[r].run
  PROVE  OrderHolds(q)'
<1>1. NextItem(q)' = NextItem(q)
  BY DEF NextItem
<1>2. QED
  BY <1>1 DEF OrderInv, OrderHolds, RunIsOwn, PlanIsProper, Before

\* A command that takes a plan gets a number no other has.
LEMMA OrderTake ==
  ASSUME OrderInv, NEW p \in Procs, NEW S, S \subseteq Files, Take(p, S), UNCHANGED executed
  PROVE  /\ \A q \in Procs : OrderHolds(q)'
         /\ \A i \in 1..Len(executed) : executed[i].run \in 1..runs'
<1>. USE DEF OrderInv, Inv, TypeOK, DatabaseOK, CommandsOK
<1>1. /\ pc'[p] = "read" /\ todo'[p] = Planned(S) /\ work'[p].run = runs + 1
      /\ runs' = runs + 1 /\ runs \in Nat
  BY DEF Take, NoWork
<1>2. \A q \in Procs : q # p =>
        pc'[q] = pc[q] /\ todo'[q] = todo[q] /\ work'[q] = work[q]
  BY DEF Take
<1>3. \A q \in Procs : pc[q] \in Applying => work[q].run \in 1..runs
  BY DEF OrderHolds, RunIsOwn
<1>4. OrderHolds(p)'
  <2>1. RunIsOwn(p)'
    <3>1. \A q \in Procs : q # p /\ pc[q] \in Applying => work[q].run # runs + 1
      BY <1>1, <1>3
    <3>2. QED
      BY <1>1, <1>2, <3>1 DEF RunIsOwn
  <2>2. PlanIsProper(p)'
    BY <1>1 DEF PlanIsProper, Planned
  <2>3. \A i \in 1..Len(executed) : executed[i].run # runs + 1
    BY <1>1
  <2>4. Before(p)'
    BY <1>1, <2>3 DEF Before
  <2>5. QED
    BY <2>1, <2>2, <2>4 DEF OrderHolds
<1>5. ASSUME NEW q \in Procs, q # p
      PROVE  OrderHolds(q)'
  <2>1. NextItem(q)' = NextItem(q)
    BY <1>2, <1>5 DEF NextItem
  <2>2. PlanIsProper(q)' /\ Before(q)'
    BY <1>2, <1>5, <2>1 DEF OrderHolds, PlanIsProper, Before
  <2>3. RunIsOwn(q)'
    <3>1. \A r \in Procs : pc[r] \in Applying =>
            work[r].run \in 1..(runs + 1) /\ work[r].run # runs + 1
      BY <1>1, <1>3
    <3>2. \A r \in Procs : pc[q] \in Applying /\ pc[r] \in Applying
                            /\ work[r].run = work[q].run => r = q
      BY DEF OrderHolds, RunIsOwn
    <3>3. QED
      BY <1>1, <1>2, <1>5, <3>1, <3>2 DEF RunIsOwn
  <2>4. QED
    BY <2>2, <2>3 DEF OrderHolds
<1>6. QED
  BY <1>1, <1>4, <1>5

\* The file that runs comes after every file of the same command.
LEMMA OrderRun ==
  ASSUME OrderInv, NEW p \in Procs, RunBody(p)
  PROVE  /\ RunsInOrder'
         /\ \A q \in Procs : OrderHolds(q)'
         /\ \A i \in 1..Len(executed') : executed'[i].run \in 1..runs'
<1>. USE DEF OrderInv, Inv, TypeOK, CommandsOK
<1>. DEFINE w == work[p]
<1>1. /\ pc[p] = "exec" /\ pc'[p] = "record" /\ work'[p].file = w.file /\ work'[p].run = w.run
      /\ UNCHANGED <<todo, runs>>
  BY OldLocals DEF RunBody, Outcome, Works
<1>2. \A q \in Procs : q # p => pc'[q] = pc[q] /\ work'[q] = work[q]
  BY OthersKeep DEF Step, Apply
<1>3. /\ todo[p] # {} /\ todo[p] \subseteq Items /\ w.file = NextItem(p).file
      /\ NextItem(p) \in todo[p] /\ w.file \in Int
  BY <1>1, NextItemIsFirst, MigrateUpAssumption
     DEF OrderHolds, PlanIsProper, Applying, Items, Files
<1>4. \A q \in Procs : NextItem(q)' = NextItem(q)
  BY <1>1 DEF NextItem
<1>5. \A q \in Procs : RunIsOwn(q)' /\ PlanIsProper(q)'
  BY <1>1, <1>2, <1>3, <1>4 DEF OrderHolds, RunIsOwn, PlanIsProper, Applying
<1>6. \A i \in 1..Len(executed) : executed[i].run = w.run => executed[i].file < w.file
  BY <1>1, <1>3 DEF OrderHolds, Before
<1>7. \A i \in 1..Len(executed) : executed[i].file \in Int
  BY ExecutedFiles
<1>8. CASE UNCHANGED executed
  <2>1. Before(p)'
    BY <1>1, <1>3, <1>6, <1>7, <1>8 DEF Before
  <2>2. \A q \in Procs : q # p => Before(q)'
    BY <1>1, <1>2, <1>8 DEF OrderHolds, Before
  <2>3. QED
    BY <1>1, <1>5, <1>8, <2>1, <2>2 DEF OrderHolds, RunsInOrder
<1>9. CASE CommitBody(p)
  <2>. DEFINE n == Len(executed) + 1
  <2>1. /\ Len(executed) \in Nat /\ Len(executed') = n
        /\ \A i \in 1..Len(executed) : executed'[i] = executed[i]
        /\ executed'[n].file = w.file /\ executed'[n].run = w.run
    BY <1>9, CommitBodyRun
  <2>2. \A i \in 1..n : i \in 1..Len(executed) \/ i = n
    BY <2>1
  <2>3. RunsInOrder'
    BY <1>6, <2>1, <2>2 DEF RunsInOrder
  <2>4. \A i \in 1..Len(executed') : executed'[i].run \in 1..runs'
    BY <1>1, <2>1, <2>2 DEF OrderHolds, RunIsOwn, Applying
  <2>5. Before(p)'
    BY <1>1, <1>3, <1>6, <1>7, <2>1, <2>2 DEF Before
  <2>6. ASSUME NEW q \in Procs, q # p
        PROVE  Before(q)'
    <3>1. pc[q] \in Applying => work[q].run # w.run
      BY <1>1, <2>6 DEF OrderHolds, RunIsOwn, Applying
    <3>2. QED
      BY <1>1, <1>2, <2>1, <2>2, <2>6, <3>1 DEF OrderHolds, Before, Applying
  <2>7. QED
    BY <1>5, <2>3, <2>4, <2>5, <2>6 DEF OrderHolds
<1>10. QED
  BY <1>8, <1>9 DEF RunBody

\* The other statements of the apply loop.
LEMMA OrderApply ==
  ASSUME OrderInv, NEW p \in Procs, ReadBody(p) \/ RecordAttempt(p) \/ MarkRow(p), ~Stop(p)
  PROVE  OrderHolds(p)' /\ pc[p] \in Applying /\ work'[p].run = work[p].run
<1>. USE DEF OrderInv, Inv, TypeOK, CommandsOK
<1>. DEFINE w == work[p]
            t == NextItem(p)
<1>1. CASE ReadBody(p)
  <2>. DEFINE v == [w EXCEPT !.file = t.file, !.sha = t.sha, !.sql = disk[t.file]]
  <2>1. /\ pc[p] = "read" /\ work' = [work EXCEPT ![p] = v] /\ pc' = [pc EXCEPT ![p] = "exec"]
        /\ UNCHANGED <<todo, runs, executed>>
    BY <1>1 DEF ReadBody, used
  <2>2. v.file = t.file /\ v.run = w.run
    BY OldLocals DEF Works
  <2>. HIDE DEF v
  <2>3. work'[p].file = t.file /\ work'[p].run = w.run /\ pc'[p] = "exec"
    BY <2>1, <2>2
  <2>4. t' = t
    BY <2>1 DEF NextItem
  <2>5. \A q \in Procs : pc'[q] \in Applying => pc[q] \in Applying
                                                /\ work'[q].run = work[q].run
    BY <2>1, <2>3 DEF Applying
  <2>6. QED
    BY <2>1, <2>3, <2>4, <2>5 DEF OrderHolds, RunIsOwn, PlanIsProper, Before, Applying
<1>2. CASE RecordAttempt(p)
  <2>. DEFINE v == [w EXCEPT !.hist = Len(history) + 1,
                             !.attempt = NextAttempt(ledger[work[p].file])]
  <2>1. /\ pc[p] = "record" /\ work' = [work EXCEPT ![p] = v]
        /\ pc' = [pc EXCEPT ![p] = "mark"] /\ UNCHANGED <<todo, runs, executed>>
    BY <1>2 DEF RecordAttempt, NewHistoryId, used
  <2>2. v.file = w.file /\ v.run = w.run
    BY OldLocals DEF Works
  <2>. HIDE DEF v
  <2>3. work'[p].file = w.file /\ work'[p].run = w.run /\ pc'[p] = "mark"
    BY <2>1, <2>2
  <2>4. t' = t
    BY <2>1 DEF NextItem
  <2>5. \A q \in Procs : pc'[q] \in Applying => pc[q] \in Applying
                                                /\ work'[q].run = work[q].run
    BY <2>1, <2>3 DEF Applying
  <2>6. QED
    BY <2>1, <2>3, <2>4, <2>5 DEF OrderHolds, RunIsOwn, PlanIsProper, Before, Applying
<1>3. CASE MarkRow(p)
  <2>. DEFINE v == [NoWork EXCEPT !.run = w.run]
              rest == todo[p] \ {t}
  <2>1. /\ pc[p] = "mark" /\ work' = [work EXCEPT ![p] = v] /\ pc' = [pc EXCEPT ![p] = "read"]
        /\ todo' = [todo EXCEPT ![p] = rest] /\ UNCHANGED <<runs, executed>>
    BY <1>3 DEF MarkRow, used
  <2>2. v.run = w.run
    BY DEF NoWork
  <2>. HIDE DEF v
  <2>3. work'[p].run = w.run /\ pc'[p] = "read" /\ todo'[p] = rest
    BY <2>1, <2>2
  <2>4. /\ t \in todo[p] /\ \A u \in todo[p] : t.file <= u.file /\ u.file \in Int
    BY <2>1, NextItemIsFirst, MigrateUpAssumption DEF Applying, Items, Files
  <2>5. \A u \in rest : w.file < u.file /\ w.file \in Int
    BY <2>1, <2>4 DEF OrderHolds, PlanIsProper, Applying
  <2>6. \A i \in 1..Len(executed) : executed[i].file \in Int
    BY ExecutedFiles
  <2>7. Before(p)'
    <3>1. \A i \in 1..Len(executed) : executed[i].run = w.run => executed[i].file <= w.file
      BY <2>1 DEF OrderHolds, Before
    <3>2. \A i \in 1..Len(executed), u \in rest :
            executed[i].run = w.run => executed[i].file < u.file
      <4>. SUFFICES ASSUME NEW i \in 1..Len(executed), NEW u \in rest, executed[i].run = w.run
                    PROVE  executed[i].file < u.file
        OBVIOUS
      <4>1. executed[i].file <= w.file /\ w.file < u.file
        BY <2>5, <3>1
      <4>2. executed[i].file \in Int /\ w.file \in Int /\ u.file \in Int
        BY <2>4, <2>5, <2>6
      <4>3. QED
        BY <4>1, <4>2
    <3>3. QED
      BY <2>1, <2>3, <3>2 DEF Before
  <2>8. \A q \in Procs : pc'[q] \in Applying => pc[q] \in Applying
                                                /\ work'[q].run = work[q].run
    BY <2>1, <2>3 DEF Applying
  <2>9. RunIsOwn(p)' /\ PlanIsProper(p)'
    BY <2>1, <2>3, <2>8 DEF OrderHolds, RunIsOwn, PlanIsProper, Applying
  <2>10. QED
    BY <2>1, <2>3, <2>7, <2>9 DEF OrderHolds, Applying
<1>4. QED
  BY <1>1, <1>2, <1>3

LEMMA OrderNext == OrderInv /\ [Next]_vars => OrderInv'
<1>. SUFFICES ASSUME OrderInv, [Next]_vars PROVE OrderInv'
  OBVIOUS
<1>0. Inv'
  BY NextInv DEF OrderInv
<1>. USE DEF OrderInv, Inv, TypeOK
<1>1. CASE UNCHANGED vars \/ \E f \in Files, b \in Bodies \cup {None} : Edit(f, b)
  <2>1. UNCHANGED <<pc, todo, work, runs, executed>>
    BY <1>1 DEF Edit, used, vars
  <2>2. \A q \in Procs : OrderHolds(q)'
    BY <2>1, OrderKept
  <2>3. QED
    BY <1>0, <2>1, <2>2 DEF RunsInOrder
<1>2. ASSUME NEW p \in Procs, PlanUp(p) \/ PlanRun(p), ~Stop(p)
      PROVE  OrderInv'
  <2>1. PICK S : S \subseteq Files /\ Take(p, S)
    <3>1. CASE PlanUp(p)
      BY <1>2, <3>1 DEF PlanUp, UpTo, Pending
    <3>2. CASE PlanRun(p)
      <4>1. PICK f \in Runnable :
              \E S \in {{f}, {g \in Runnable : StepOf[g] = StepOf[f]}} : Take(p, S)
        BY <1>2, <3>2 DEF PlanRun
      <4>2. QED
        BY <4>1 DEF Runnable, OnDisk
    <3>3. QED
      BY <1>2, <3>1, <3>2
  <2>2. UNCHANGED executed
    BY <1>2 DEF PlanUp, PlanRun
  <2>3. QED
    BY <1>0, <2>1, <2>2, OrderTake DEF RunsInOrder
<1>3. ASSUME NEW p \in Procs, RunBody(p)
      PROVE  OrderInv'
  BY <1>0, <1>3, OrderRun
<1>4. ASSUME NEW p \in Procs, Step(p) \/ Abort(p) \/ \E c \in Commands : Start(p, c),
             ~(PlanUp(p) /\ ~Stop(p)), ~(PlanRun(p) /\ ~Stop(p)), ~RunBody(p)
      PROVE  OrderInv'
  <2>1. \/ pc'[p] \notin Applying
        \/ (ReadBody(p) \/ RecordAttempt(p) \/ MarkRow(p)) /\ ~Stop(p)
    <3>1. CASE Stop(p)
      BY <3>1 DEF Stop, CommandsOK, Applying
    <3>2. CASE Scan(p)
      BY <3>1, <3>2 DEF Scan, ListStep, HashFile, SelectRow, WriteRow, CheckMissing, CommandsOK,
                  Applying
    <3>3. CASE \E c \in Commands : Start(p, c)
      BY <3>3 DEF Start, CommandsOK, Applying
    <3>4. QED
      BY <1>4, <3>1, <3>2, <3>3 DEF Step, Apply, Abort
  <2>2. UNCHANGED <<runs, executed>>
    <3>1. CASE Scan(p)
      BY <3>1 DEF Scan, ListStep, HashFile, SelectRow, WriteRow, CheckMissing, used
    <3>2. CASE PlanUp(p) \/ PlanRun(p)
      BY <1>4, <3>2 DEF PlanUp, PlanRun, Take, Stop, CommandsOK
    <3>3. CASE ReadBody(p) \/ RecordAttempt(p) \/ MarkRow(p)
      BY <3>3 DEF ReadBody, RecordAttempt, MarkRow, used
    <3>4. CASE Abort(p) \/ \E c \in Commands : Start(p, c)
      BY <3>4 DEF Abort, Start, used
    <3>5. QED
      BY <1>4, <3>1, <3>2, <3>3, <3>4 DEF Step, Apply
  <2>3. \A q \in Procs : q # p =>
          pc'[q] = pc[q] /\ todo'[q] = todo[q] /\ work'[q] = work[q]
    BY <1>4, OthersKeep
  <2>4. OrderHolds(p)' /\ (pc'[p] \in Applying => pc[p] \in Applying
                                                   /\ work'[p].run = work[p].run)
    BY <2>1, OrderIdle, OrderApply
  <2>5. \A q \in Procs : q # p => OrderHolds(q)'
    BY <2>2, <2>3, <2>4, OrderKept
  <2>6. QED
    BY <1>0, <2>2, <2>4, <2>5 DEF RunsInOrder
<1>5. QED
  BY <1>1, <1>2, <1>3, <1>4 DEF Next

\* Every command runs its files in order, each at most once, for any number of
\* commands and files.
THEOREM OrderIsKept == Spec => []RunsInOrder
<1>1. OrderInv => RunsInOrder
  BY DEF OrderInv
<1>2. QED
  BY <1>1, OrderInit, OrderNext, PTL DEF Spec

-----------------------------------------------------------------------------
(* Counting runs and history rows *)

\* A set of places of a sequence, before and after an element is appended.
LEMMA CountAppend ==
  ASSUME NEW n \in Nat, NEW A, A \subseteq 1..n, NEW B, B = A \/ B = A \cup {n + 1}
  PROVE  /\ Cardinality(A) \in Nat
         /\ Cardinality(B) = IF n + 1 \in B THEN Cardinality(A) + 1 ELSE Cardinality(A)
<1>1. IsFiniteSet(A)
  <2>1. IsFiniteSet(1..n)
    BY FS_Interval
  <2>2. QED
    BY <2>1, FS_Subset
<1>2. n + 1 \notin A
  OBVIOUS
<1>3. QED
  BY <1>1, <1>2, FS_CardinalityType, FS_AddElement

\* The executions of f, its successes in the history, and the commands that ran
\* f with success and have not told the history yet.
RunsOf(f) == {i \in 1..Len(executed) : executed[i].file = f}
SuccessesOf(f) == {i \in 1..Len(history) : history[i].file = f /\ history[i].ok}
Reporting(f) == {p \in Procs : pc[p] = "record" /\ work[p].file = f /\ work[p].ok}

LEMMA CommitCounts ==
  ASSUME TypeOK, NEW p \in Procs, pc[p] = "exec", CommitBody(p), NEW f
  PROVE  Executed(f)' = IF work[p].file = f THEN Executed(f) + 1 ELSE Executed(f)
<1>. DEFINE n == Len(executed)
<1>1. /\ n \in Nat /\ Len(executed') = n + 1 /\ executed'[n + 1].file = work[p].file
      /\ \A i \in 1..n : executed'[i] = executed[i]
  BY CommitBodyAppends
<1>2. /\ n + 1 \in RunsOf(f)' <=> work[p].file = f
      /\ RunsOf(f)' = RunsOf(f) \/ RunsOf(f)' = RunsOf(f) \cup {n + 1}
      /\ RunsOf(f) \subseteq 1..n
  BY <1>1 DEF RunsOf
<1>3. Executed(f) = Cardinality(RunsOf(f)) /\ Executed(f)' = Cardinality(RunsOf(f)')
  BY DEF Executed, RunsOf
<1>4. QED
  BY <1>1, <1>2, <1>3, CountAppend

LEMMA RecordCounts ==
  ASSUME TypeOK, NEW p \in Procs, RecordAttempt(p), NEW f
  PROVE  Successes(f)' = IF work[p].file = f /\ work[p].ok THEN Successes(f) + 1
                                                           ELSE Successes(f)
<1>. DEFINE n == Len(history)
<1>1. /\ n \in Nat /\ Len(history') = n + 1
      /\ history'[n + 1].file = work[p].file /\ history'[n + 1].ok = work[p].ok
      /\ \A i \in 1..n : history'[i] = history[i]
  BY RecordAttemptAppends
<1>2. /\ n + 1 \in SuccessesOf(f)' <=> work[p].file = f /\ work[p].ok
      /\ \/ SuccessesOf(f)' = SuccessesOf(f)
         \/ SuccessesOf(f)' = SuccessesOf(f) \cup {n + 1}
      /\ SuccessesOf(f) \subseteq 1..n
  BY <1>1 DEF SuccessesOf
<1>3. Successes(f) = Cardinality(SuccessesOf(f)) /\ Successes(f)' = Cardinality(SuccessesOf(f)')
  BY DEF Successes, SuccessesOf
<1>4. QED
  BY <1>1, <1>2, <1>3, CountAppend

\* The counts are numbers.
LEMMA CountTypes ==
  ASSUME TypeOK, NEW f, IsFiniteSet(Reporting(f))
  PROVE  Executed(f) \in Nat /\ Successes(f) \in Nat /\ InFlight(f) \in Nat
<1>1. Len(executed) \in Nat /\ Len(history) \in Nat
  BY LenProperties DEF TypeOK, DatabaseOK
<1>2. RunsOf(f) \subseteq 1..Len(executed) /\ SuccessesOf(f) \subseteq 1..Len(history)
  BY DEF RunsOf, SuccessesOf
<1>3. Cardinality(RunsOf(f)) \in Nat /\ Cardinality(SuccessesOf(f)) \in Nat
  BY <1>1, <1>2, CountAppend
<1>4. QED
  BY <1>3, FS_CardinalityType DEF Executed, Successes, InFlight, RunsOf, SuccessesOf, Reporting

\* A step lets its own command alone join or leave those that have to report.
LEMMA ReportingStep ==
  ASSUME TypeOK, NEW p \in Procs, Step(p) \/ Abort(p) \/ \E c \in Commands : Start(p, c),
         NEW f, IsFiniteSet(Reporting(f))
  PROVE  LET is == pc'[p] = "record" /\ work'[p].file = f /\ work'[p].ok IN
         /\ IsFiniteSet(Reporting(f)')
         /\ InFlight(f)' = IF is THEN IF p \in Reporting(f) THEN InFlight(f) ELSE InFlight(f) + 1
                           ELSE IF p \in Reporting(f) THEN InFlight(f) - 1 ELSE InFlight(f)
<1>. DEFINE is == pc'[p] = "record" /\ work'[p].file = f /\ work'[p].ok
<1>1. \A q \in Procs : q # p => pc'[q] = pc[q] /\ work'[q] = work[q]
  BY OthersKeep
<1>2. CASE is
  <2>1. Reporting(f)' = Reporting(f) \cup {p}
    BY <1>1, <1>2 DEF Reporting
  <2>2. QED
    BY <1>2, <2>1, FS_AddElement DEF InFlight, Reporting
<1>3. CASE ~is
  <2>1. Reporting(f)' = Reporting(f) \ {p}
    BY <1>1, <1>3 DEF Reporting
  <2>2. QED
    BY <1>3, <2>1, FS_RemoveElement DEF InFlight, Reporting
<1>4. QED
  BY <1>2, <1>3

\* The inductive invariant of the counts.
CountsMatch(f) ==
  /\ IsFiniteSet(Reporting(f))
  /\ Successes(f) + InFlight(f) <= Executed(f)
  /\ Executed(f) <= Successes(f) + InFlight(f) + aborts + fails
CountInv == TypeOK /\ \A f \in Files : CountsMatch(f)

LEMMA CountInit == Init => CountInv
<1>. SUFFICES ASSUME Init PROVE CountInv
  OBVIOUS
<1>1. TypeOK
  BY InitTypes
<1>2. ASSUME NEW f \in Files
      PROVE  CountsMatch(f)
  <2>1. RunsOf(f) = {} /\ SuccessesOf(f) = {} /\ Reporting(f) = {}
    BY EmptySeq DEF Init, RunsOf, SuccessesOf, Reporting
  <2>2. IsFiniteSet(Reporting(f)) /\ Executed(f) = 0 /\ Successes(f) = 0 /\ InFlight(f) = 0
    BY <2>1, FS_EmptySet DEF Executed, Successes, InFlight, RunsOf, SuccessesOf, Reporting
  <2>3. aborts = 0 /\ fails = 0
    BY DEF Init
  <2>4. QED
    BY <2>2, <2>3 DEF CountsMatch
<1>3. QED
  BY <1>1, <1>2 DEF CountInv

\* The steps that touch neither table, with the command of the step outside
\* "record" before and after.
LEMMA CountQuiet ==
  ASSUME TypeOK, NEW p \in Procs, Step(p) \/ \E c \in Commands : Start(p, c),
         ~RunBody(p), ~RecordAttempt(p)
  PROVE  /\ pc[p] # "record" /\ pc'[p] # "record"
         /\ UNCHANGED <<executed, history, aborts, fails>>
<1>. USE DEF TypeOK, CommandsOK
<1>1. CASE \E c \in Commands : Start(p, c)
  BY <1>1 DEF Start, used
<1>2. CASE Scan(p)
  BY <1>2 DEF Scan, ListStep, HashFile, SelectRow, WriteRow, CheckMissing, Stop, used
<1>3. CASE PlanUp(p) \/ PlanRun(p)
  BY <1>3 DEF PlanUp, PlanRun, Take, Stop
<1>4. CASE ReadBody(p) \/ MarkRow(p)
  BY <1>4 DEF ReadBody, MarkRow, Stop, used
<1>5. QED
  BY <1>1, <1>2, <1>3, <1>4 DEF Step, Apply

LEMMA CountNext == CountInv /\ [Next]_vars => CountInv'
<1>. SUFFICES ASSUME CountInv, [Next]_vars PROVE CountInv'
  OBVIOUS
<1>. USE DEF CountInv
<1>0. TypeOK'
  BY NextTypes
<1>1. ASSUME NEW f \in Files
      PROVE  CountsMatch(f)'
  <2>. USE DEF CountsMatch
  <2>0. /\ Executed(f) \in Nat /\ Successes(f) \in Nat /\ InFlight(f) \in Nat
        /\ aborts \in Nat /\ fails \in Nat
    BY CountTypes DEF TypeOK, DatabaseOK
  <2>1. CASE UNCHANGED vars \/ \E g \in Files, b \in Bodies \cup {None} : Edit(g, b)
    <3>1. UNCHANGED <<executed, history, pc, work, aborts, fails>>
      BY <2>1 DEF Edit, used, vars
    <3>2. QED
      BY <3>1 DEF Executed, Successes, InFlight, Reporting
  <2>2. ASSUME NEW p \in Procs, RunBody(p)
        PROVE  CountsMatch(f)'
    <3>1. PICK ok \in BOOLEAN : Outcome(p, ok) /\ (ok => CommitBody(p))
      BY <2>2 DEF RunBody
    <3>2. /\ pc[p] = "exec" /\ pc'[p] = "record" /\ work'[p].ok = ok
          /\ work'[p].file = work[p].file /\ UNCHANGED <<history, aborts>>
      BY <2>2, <3>1, OldLocals DEF RunBody, Outcome, TypeOK, CommandsOK, Works
    <3>3. p \notin Reporting(f)
      BY <3>2 DEF Reporting
    <3>4. /\ IsFiniteSet(Reporting(f)')
          /\ InFlight(f)' = IF work[p].file = f /\ ok THEN InFlight(f) + 1 ELSE InFlight(f)
      BY <2>2, <3>2, <3>3, ReportingStep DEF Step, Apply
    <3>5. Successes(f)' = Successes(f)
      BY <3>2 DEF Successes
    <3>6. CASE ok
      <4>1. Executed(f)' = IF work[p].file = f THEN Executed(f) + 1 ELSE Executed(f)
        BY <3>1, <3>2, <3>6, CommitCounts
      <4>2. fails' = fails \/ fails' = fails + 1
        BY <2>2 DEF RunBody
      <4>3. QED
        BY <2>0, <3>2, <3>4, <3>5, <3>6, <4>1, <4>2
    <3>7. CASE ~ok /\ UNCHANGED executed
      <4>1. Executed(f)' = Executed(f)
        BY <3>7 DEF Executed
      <4>2. fails' = fails \/ fails' = fails + 1
        BY <2>2 DEF RunBody
      <4>3. QED
        BY <2>0, <3>2, <3>4, <3>5, <3>7, <4>1, <4>2
    <3>8. CASE ~ok /\ CommitBody(p) /\ fails' = fails + 1
      <4>1. Executed(f)' = IF work[p].file = f THEN Executed(f) + 1 ELSE Executed(f)
        BY <3>2, <3>8, CommitCounts
      <4>2. QED
        BY <2>0, <3>2, <3>4, <3>5, <3>8, <4>1
    <3>9. QED
      <4>1. ~ok => ~Outcome(p, TRUE)
        BY <3>2 DEF Outcome, TypeOK, CommandsOK, Works
      <4>2. QED
        BY <2>2, <3>6, <3>7, <3>8, <4>1 DEF RunBody
  <2>3. ASSUME NEW p \in Procs, RecordAttempt(p)
        PROVE  CountsMatch(f)'
    <3>1. /\ pc[p] = "record" /\ pc'[p] = "mark" /\ UNCHANGED <<executed, aborts, fails>>
      BY <2>3 DEF RecordAttempt, used, TypeOK, CommandsOK
    <3>2. p \in Reporting(f) <=> work[p].file = f /\ work[p].ok
      BY <3>1 DEF Reporting
    <3>3. /\ IsFiniteSet(Reporting(f)')
          /\ InFlight(f)' = IF work[p].file = f /\ work[p].ok THEN InFlight(f) - 1
                                                              ELSE InFlight(f)
      BY <2>3, <3>1, <3>2, ReportingStep DEF Step, Apply
    <3>4. Successes(f)' = IF work[p].file = f /\ work[p].ok THEN Successes(f) + 1
                                                            ELSE Successes(f)
      BY <2>3, RecordCounts
    <3>5. Executed(f)' = Executed(f)
      BY <3>1 DEF Executed
    <3>6. QED
      BY <2>0, <3>1, <3>3, <3>4, <3>5
  <2>4. ASSUME NEW p \in Procs, Abort(p)
        PROVE  CountsMatch(f)'
    <3>1. pc'[p] = "idle" /\ UNCHANGED <<executed, history, fails>> /\ aborts' = aborts + 1
      BY <2>4 DEF Abort, Stop, TypeOK, CommandsOK
    <3>2. /\ IsFiniteSet(Reporting(f)')
          /\ InFlight(f)' = InFlight(f) \/ InFlight(f)' = InFlight(f) - 1
      BY <2>4, <3>1, ReportingStep
    <3>3. Executed(f)' = Executed(f) /\ Successes(f)' = Successes(f)
      BY <3>1 DEF Executed, Successes
    <3>4. QED
      BY <2>0, <3>1, <3>2, <3>3
  <2>5. ASSUME NEW p \in Procs, Step(p) \/ \E c \in Commands : Start(p, c),
               ~RunBody(p), ~RecordAttempt(p)
        PROVE  CountsMatch(f)'
    <3>1. /\ pc[p] # "record" /\ pc'[p] # "record"
          /\ UNCHANGED <<executed, history, aborts, fails>>
      BY <2>5, CountQuiet
    <3>2. p \notin Reporting(f)
      BY <3>1 DEF Reporting
    <3>3. IsFiniteSet(Reporting(f)') /\ InFlight(f)' = InFlight(f)
      BY <2>5, <3>1, <3>2, ReportingStep
    <3>4. Executed(f)' = Executed(f) /\ Successes(f)' = Successes(f)
      BY <3>1 DEF Executed, Successes
    <3>5. QED
      BY <3>1, <3>3, <3>4
  <2>6. QED
    BY <2>1, <2>2, <2>3, <2>4, <2>5 DEF Next
<1>2. QED
  BY <1>0, <1>1

\* The history claims no run that did not happen, and misses no more runs than
\* commands died or lost an answer, for any number of commands and files.
THEOREM HistoryMatches == Spec => []HistoryMatchesRuns
<1>1. CountInv => HistoryMatchesRuns
  BY DEF CountInv, CountsMatch, HistoryMatchesRuns
<1>2. QED
  BY <1>1, CountInit, CountNext, PTL DEF Spec

-----------------------------------------------------------------------------
(* What holds when commands run one after the other: Procs has one member *)

OneCommand == \A p, q \in Procs : p = q

\* What preflight saw of a row and what the plan says of its files is current.
ScanIsCurrent(p) ==
  pc[p] = "write" => ledger[scan[p].file].state = scan[p].dbState
PlanIsCurrent(p) ==
  pc[p] \in Applying => \A t \in todo[p] : ledger[t.file].sha = t.sha
WorkIsNext(p) ==
  pc[p] \in Applying \ {"read"} =>
    work[p].file = NextItem(p).file /\ work[p].sha = NextItem(p).sha
\* The plan of an up leaves out no pending file that comes before one of its own.
PlanIsComplete(p) ==
  pc[p] \in Applying /\ scan[p].cmd = "up" =>
    \A t \in todo[p], g \in Files :
      g < t.file /\ ledger[g].state = "pending" => \E u \in todo[p] : u.file = g

AloneHolds(p) ==
  ScanIsCurrent(p) /\ PlanIsCurrent(p) /\ WorkIsNext(p) /\ PlanIsComplete(p)

AloneInv == /\ Inv /\ AppliedShaIsCurrent
            /\ \A p \in Procs : AloneHolds(p)

LEMMA AloneInit == Init => AloneInv
<1>. SUFFICES ASSUME Init PROVE AloneInv
  OBVIOUS
<1>1. AppliedShaIsCurrent
  BY DEF Init, AppliedShaIsCurrent, NoRow
<1>2. \A p \in Procs : pc[p] = "idle"
  BY DEF Init
<1>3. QED
  BY <1>1, <1>2, InitInv DEF AloneInv, AloneHolds, ScanIsCurrent, PlanIsCurrent, WorkIsNext,
                             PlanIsComplete, Applying

\* A command that is neither about to write a row nor applying has no claim.
LEMMA AloneIdle ==
  ASSUME NEW p \in Procs, pc'[p] \notin Applying \cup {"write"}
  PROVE  AloneHolds(p)'
BY DEF AloneHolds, ScanIsCurrent, PlanIsCurrent, WorkIsNext, PlanIsComplete, Applying

\* A plan made from the rows as they are is current.
LEMMA AloneTake ==
  ASSUME TypeOK, NEW p \in Procs, NEW S, S \subseteq Files, Take(p, S), UNCHANGED ledger,
         scan[p].cmd = "up" =>
           \A f \in S, g \in Files : g < f /\ ledger[g].state = "pending" => g \in S
  PROVE  AloneHolds(p)'
<1>1. /\ pc'[p] = "read" /\ todo'[p] = Planned(S)
      /\ scan'[p] = [NoScan EXCEPT !.cmd = scan[p].cmd]
  BY DEF Take, TypeOK, CommandsOK
<1>2. scan'[p].cmd = scan[p].cmd
  BY <1>1 DEF NoScan
<1>3. \A t \in Planned(S) : t.file \in S /\ ledger[t.file].sha = t.sha
  BY DEF Planned
<1>4. \A g \in S : \E u \in Planned(S) : u.file = g
  <2>. SUFFICES ASSUME NEW g \in S PROVE \E u \in Planned(S) : u.file = g
    OBVIOUS
  <2>. DEFINE u == [file |-> g, sha |-> ledger[g].sha]
  <2>1. u \in Planned(S) /\ u.file = g
    BY DEF Planned
  <2>2. QED
    BY <2>1
<1>5. QED
  BY <1>1, <1>2, <1>3, <1>4
     DEF AloneHolds, ScanIsCurrent, PlanIsCurrent, WorkIsNext, PlanIsComplete, Applying

\* A step of the only command keeps its claims.
LEMMA AloneStep ==
  ASSUME AloneInv, NEW p \in Procs,
         Step(p) \/ Abort(p) \/ \E c \in Commands : Start(p, c)
  PROVE  AloneHolds(p)'
<1>. USE DEF TypeOK, AloneInv, Inv
<1>1. CASE Stop(p)
  BY <1>1, AloneIdle DEF Stop, Applying, CommandsOK
<1>2. CASE \E c \in Commands : Start(p, c)
  BY <1>2, AloneIdle DEF Start, CommandsOK, Applying
<1>3. CASE (ListStep(p) \/ HashFile(p) \/ WriteRow(p) \/ CheckMissing(p)) /\ ~Stop(p)
  BY <1>3, AloneIdle DEF ListStep, HashFile, WriteRow, CheckMissing, CommandsOK, Applying
<1>4. CASE SelectRow(p) /\ ~Stop(p)
  <2>1. CASE pc'[p] # "write"
    BY <1>4, <2>1, AloneIdle DEF SelectRow, CommandsOK, Applying
  <2>2. CASE pc'[p] = "write"
    <3>1. /\ scan' = [scan EXCEPT ![p].dbState = ledger[scan[p].file].state]
          /\ UNCHANGED ledger
      BY <1>4, <2>2 DEF SelectRow, CommandsOK
    <3>2. scan'[p].file = scan[p].file /\ scan'[p].dbState = ledger[scan[p].file].state
      BY <3>1 DEF CommandsOK, Scans
    <3>3. QED
      BY <2>2, <3>1, <3>2
         DEF AloneHolds, ScanIsCurrent, PlanIsCurrent, WorkIsNext, PlanIsComplete, Applying
  <2>3. QED
    BY <2>1, <2>2
<1>5. CASE PlanUp(p) /\ ~Stop(p)
  <2>1. PICK target \in Pending : Take(p, UpTo(target))
    BY <1>5 DEF PlanUp
  <2>2. \A f \in UpTo(target), g \in Files :
          g < f /\ ledger[g].state = "pending" => g \in UpTo(target)
    BY MigrateUpAssumption DEF UpTo, Pending, Files
  <2>3. UpTo(target) \subseteq Files /\ UNCHANGED ledger
    BY <1>5 DEF PlanUp, UpTo, Pending
  <2>4. QED
    BY <2>1, <2>2, <2>3, AloneTake
<1>6. CASE PlanRun(p) /\ ~Stop(p)
  <2>1. PICK f \in Runnable : \E S \in {{f}, {g \in Runnable : StepOf[g] = StepOf[f]}} :
          Take(p, S)
    BY <1>6 DEF PlanRun
  <2>2. PICK S : S \subseteq Runnable /\ Take(p, S)
    BY <2>1
  <2>3. S \subseteq Files /\ UNCHANGED ledger /\ scan[p].cmd = "run"
    BY <1>6, <2>2 DEF PlanRun, Runnable, OnDisk
  <2>4. QED
    BY <2>2, <2>3, AloneTake
<1>7. CASE ReadBody(p) /\ ~Stop(p)
  <2>. DEFINE t == NextItem(p)
              w == [work[p] EXCEPT !.file = t.file, !.sha = t.sha, !.sql = disk[t.file]]
  <2>1. /\ pc[p] = "read" /\ work' = [work EXCEPT ![p] = w] /\ pc' = [pc EXCEPT ![p] = "exec"]
        /\ UNCHANGED <<scan, todo, ledger>>
    BY <1>7 DEF ReadBody
  <2>2. w.file = t.file /\ w.sha = t.sha
    BY OldLocals DEF Works
  <2>. HIDE DEF w
  <2>3. work'[p].file = t.file /\ work'[p].sha = t.sha /\ pc'[p] = "exec"
    BY <2>1, <2>2 DEF CommandsOK
  <2>4. NextItem(p)' = NextItem(p)
    BY <2>1 DEF NextItem
  <2>5. QED
    BY <2>1, <2>3, <2>4
       DEF AloneHolds, ScanIsCurrent, PlanIsCurrent, WorkIsNext, PlanIsComplete, Applying
<1>8. CASE RunBody(p)
  <2>1. PICK ok \in BOOLEAN : Outcome(p, ok)
    BY <1>8 DEF RunBody
  <2>2. /\ pc[p] = "exec" /\ pc'[p] = "record" /\ work'[p].sha = work[p].sha
        /\ work'[p].file = work[p].file /\ UNCHANGED <<scan, todo, ledger>>
    BY <1>8, <2>1, OldLocals DEF RunBody, Outcome, CommandsOK, Works
  <2>3. NextItem(p)' = NextItem(p)
    BY <2>2 DEF NextItem
  <2>4. QED
    BY <2>2, <2>3
       DEF AloneHolds, ScanIsCurrent, PlanIsCurrent, WorkIsNext, PlanIsComplete, Applying
<1>9. CASE RecordAttempt(p)
  <2>. DEFINE w == [work[p] EXCEPT !.hist = Len(history) + 1,
                                   !.attempt = NextAttempt(ledger[work[p].file])]
  <2>1. /\ pc[p] = "record" /\ work' = [work EXCEPT ![p] = w]
        /\ pc' = [pc EXCEPT ![p] = "mark"] /\ UNCHANGED <<scan, todo, ledger>>
    BY <1>9 DEF RecordAttempt, NewHistoryId
  <2>2. w.file = work[p].file /\ w.sha = work[p].sha
    BY OldLocals DEF Works
  <2>. HIDE DEF w
  <2>3. work'[p].file = work[p].file /\ work'[p].sha = work[p].sha /\ pc'[p] = "mark"
    BY <2>1, <2>2 DEF CommandsOK
  <2>4. NextItem(p)' = NextItem(p)
    BY <2>1 DEF NextItem
  <2>5. QED
    BY <2>1, <2>3, <2>4
       DEF AloneHolds, ScanIsCurrent, PlanIsCurrent, WorkIsNext, PlanIsComplete, Applying
<1>10. CASE MarkRow(p) /\ ~Stop(p)
  <2>. DEFINE w == work[p]
              rest == todo[p] \ {NextItem(p)}
  <2>1. /\ pc[p] = "mark" /\ pc'[p] = "read" /\ w.ok
        /\ todo'[p] = rest /\ UNCHANGED scan
    BY <1>10 DEF MarkRow, CommandsOK
  <2>2. \A r \in Rows : LET d == Succeeded(Attempted(r, w), w) IN
                        d.sha = r.sha /\ d.state = "applied"
    BY DEF Rows, Attempted, Succeeded
  <2>3. \A f \in Files : /\ ledger'[f].sha = ledger[f].sha
                         /\ ledger'[f].state =
                              IF f = w.file THEN "applied" ELSE ledger[f].state
    BY <1>10, <2>1, <2>2, MarkRowWrites DEF DatabaseOK
  <2>4. \A t \in todo[p] : t.file \in Files
    BY DEF CommandsOK, Items
  <2>5. w.file = NextItem(p).file
    BY <2>1 DEF AloneHolds, WorkIsNext, Applying
  <2>6. PlanIsCurrent(p)'
    BY <2>1, <2>3, <2>4 DEF AloneHolds, PlanIsCurrent, Applying
  <2>7. PlanIsComplete(p)'
    BY <2>1, <2>3, <2>4, <2>5 DEF AloneHolds, PlanIsComplete, Applying
  <2>8. QED
    BY <2>1, <2>6, <2>7 DEF AloneHolds, ScanIsCurrent, WorkIsNext
<1>11. QED
  BY <1>1, <1>2, <1>3, <1>4, <1>5, <1>6, <1>7, <1>8, <1>9, <1>10 DEF Step, Scan, Apply, Abort

\* An applied row keeps showing the sha that was applied.
LEMMA AloneRows ==
  ASSUME AloneInv, [Next]_vars
  PROVE  /\ AppliedShaIsCurrent'
         /\ \A f \in Migrations : ledger[f].state = "applied" =>
              ledger'[f].state = "applied" /\ ledger'[f].sha = ledger[f].sha
<1>. USE DEF TypeOK, AloneInv, Inv
<1>. DEFINE Goal == /\ AppliedShaIsCurrent'
                    /\ \A f \in Migrations : ledger[f].state = "applied" =>
                         ledger'[f].state = "applied" /\ ledger'[f].sha = ledger[f].sha
<1>0. Migrations \subseteq Files
  BY MigrateUpAssumption DEF Files
<1>1. CASE UNCHANGED ledger
  BY <1>1 DEF AppliedShaIsCurrent
<1>2. ASSUME NEW p \in Procs, WriteRow(p)
      PROVE  Goal
  <2>. DEFINE f == scan[p].file
              c == scan[p].sha
  <2>1. f \in Files /\ ledger[f] \in Rows /\ pc[p] = "write"
    BY <1>2, WriteRowWrites DEF WriteRow
  <2>2. ledger[f].state = scan[p].dbState
    BY <2>1 DEF AloneHolds, ScanIsCurrent
  <2>3. f \in Migrations => ledger[f].state # "applied"
    BY <2>1, <2>2 DEF LocalsHold, ScanHolds
  <2>4. UNCHANGED ledger \/ \E r \in Rows : r.state = "pending"
                                            /\ ledger' = [ledger EXCEPT ![f] = r]
    <3>1. /\ Discovered(c) \in Rows /\ Requeued(ledger[f], c) \in Rows
          /\ Refreshed(ledger[f], c) \in Rows
      BY <2>1, RowFields, OldLocals, ScanFields
    <3>2. /\ Discovered(c).state = "pending" /\ Requeued(ledger[f], c).state = "pending"
          /\ Refreshed(ledger[f], c).state = ledger[f].state
      BY <2>1 DEF Rows, NoRow, Discovered, Requeued, Refreshed
    <3>3. QED
      BY <1>2, <2>2, <3>1, <3>2, WriteRowWrites
  <2>5. \A g \in Files : \/ ledger'[g] = ledger[g]
                         \/ g = f /\ ledger'[g].state = "pending"
    BY <2>1, <2>4 DEF DatabaseOK
  <2>6. QED
    BY <1>0, <2>3, <2>5 DEF AppliedShaIsCurrent
<1>3. ASSUME NEW p \in Procs, MarkRow(p)
      PROVE  Goal
  <2>. DEFINE w == work[p]
  <2>1. w.file \in Files /\ ledger[w.file] \in Rows /\ pc[p] = "mark" /\ w.ok \in BOOLEAN
    BY <1>3, MarkRowWrites DEF MarkRow, CommandsOK, Works
  <2>2. \A r \in Rows : LET a == Attempted(r, w)
                            d == Succeeded(a, w)
                        IN  /\ a.state = r.state /\ a.sha = r.sha
                            /\ a.appliedSha = r.appliedSha
                            /\ d.state = "applied" /\ d.sha = r.sha /\ d.appliedSha = w.sha
    BY DEF Rows, Attempted, Succeeded
  <2>3. ledger[w.file].sha = w.sha
    <3>1. todo[p] # {} /\ todo[p] \subseteq Items
      BY <2>1 DEF CommandsOK, Applying
    <3>2. w.file = NextItem(p).file /\ w.sha = NextItem(p).sha
      BY <2>1 DEF AloneHolds, WorkIsNext, Applying
    <3>3. QED
      BY <2>1, <3>1, <3>2, NextItemIsFirst DEF AloneHolds, PlanIsCurrent, Applying
  <2>4. \A g \in Files :
          /\ ledger'[g].sha = ledger[g].sha
          /\ \/ /\ ledger'[g].state = ledger[g].state
                /\ ledger'[g].appliedSha = ledger[g].appliedSha
             \/ ledger'[g].state = "applied" /\ ledger'[g].appliedSha = ledger[g].sha
    <3>1. CASE w.ok
      BY <1>3, <2>1, <2>2, <2>3, <3>1, MarkRowWrites DEF DatabaseOK
    <3>2. CASE ~w.ok
      BY <1>3, <2>1, <2>2, <3>2, MarkRowWrites DEF DatabaseOK
    <3>3. QED
      BY <2>1, <3>1, <3>2
  <2>5. QED
    BY <1>0, <2>4 DEF AppliedShaIsCurrent
<1>4. QED
  BY <1>1, <1>2, <1>3, LedgerWrites

LEMMA AloneNext ==
  ASSUME OneCommand
  PROVE  AloneInv /\ [Next]_vars => AloneInv'
<1>. SUFFICES ASSUME AloneInv, [Next]_vars PROVE AloneInv'
  OBVIOUS
<1>1. Inv'
  BY NextInv DEF AloneInv
<1>2. AppliedShaIsCurrent'
  BY AloneRows
<1>3. ASSUME NEW p \in Procs
      PROVE  AloneHolds(p)'
  <2>1. CASE UNCHANGED <<ledger, pc, scan, todo, work>>
    <3>1. NextItem(p)' = NextItem(p)
      BY <2>1 DEF NextItem
    <3>2. QED
      BY <2>1, <3>1 DEF AloneInv, AloneHolds, ScanIsCurrent, PlanIsCurrent, WorkIsNext,
                        PlanIsComplete
  <2>2. CASE \E q \in Procs : Step(q) \/ Abort(q) \/ \E c \in Commands : Start(q, c)
    BY <2>2, AloneStep DEF OneCommand
  <2>3. QED
    BY <2>1, <2>2 DEF Next, Edit, vars
<1>4. QED
  BY <1>1, <1>2, <1>3 DEF AloneInv

\* Run one after the other, commands leave every applied row with the sha that
\* was applied.
THEOREM ShaStaysCurrent ==
  ASSUME OneCommand
  PROVE  Spec => []AppliedShaIsCurrent
<1>1. AloneInv => AppliedShaIsCurrent
  BY DEF AloneInv
<1>2. AloneInv /\ [Next]_vars => AloneInv'
  BY AloneNext
<1>3. QED
  BY <1>1, <1>2, AloneInit, PTL DEF Spec

\* Run one after the other, commands never take over or queue again the row of
\* an applied migration.
THEOREM MigrationStaysFrozen ==
  ASSUME OneCommand
  PROVE  Spec => MigrationFrozen
<1>1. AloneInv /\ [Next]_vars =>
        [\A f \in Migrations : ledger[f].state = "applied" =>
           ledger'[f].state = "applied" /\ ledger'[f].sha = ledger[f].sha]_vars
  BY AloneRows
<1>2. AloneInv /\ [Next]_vars => AloneInv'
  BY AloneNext
<1>3. QED
  BY <1>1, <1>2, AloneInit, PTL DEF Spec, MigrationFrozen

\* Run one after the other, an up never runs a file while an earlier one is
\* pending.
THEOREM EarlierFilesComeFirst ==
  ASSUME OneCommand
  PROVE  Spec => []EarlierFilesFirst
<1>1. AloneInv => EarlierFilesFirst
  <2>. SUFFICES ASSUME AloneInv, NEW p \in Procs, pc[p] = "exec", scan[p].cmd = "up",
                       NEW g \in Files, g < work[p].file, ledger[g].state = "pending"
                PROVE  FALSE
    BY DEF EarlierFilesFirst
  <2>. DEFINE t == NextItem(p)
  <2>1. /\ t \in todo[p] /\ \A u \in todo[p] : t.file <= u.file
        /\ todo[p] \subseteq Items
    BY NextItemIsFirst DEF AloneInv, Inv, TypeOK, CommandsOK, Applying
  <2>2. work[p].file = t.file
    BY DEF AloneInv, AloneHolds, WorkIsNext, Applying
  <2>3. PICK u \in todo[p] : u.file = g
    BY <2>1, <2>2 DEF AloneInv, AloneHolds, PlanIsComplete, Applying
  <2>4. t.file <= g /\ t.file \in Files
    BY <2>1, <2>3 DEF Items
  <2>5. QED
    BY <2>2, <2>4, MigrateUpAssumption DEF Files
<1>2. AloneInv /\ [Next]_vars => AloneInv'
  BY AloneNext
<1>3. QED
  BY <1>1, <1>2, AloneInit, PTL DEF Spec

-----------------------------------------------------------------------------
(* How often up runs a migration *)

\* What an up still has to run is pending.
PlanIsPending(p) ==
  pc[p] \in Applying /\ scan[p].cmd = "up" =>
    \A t \in todo[p] : ledger[t.file].state = "pending"

UpRunsOf(f) ==
  {i \in 1..Len(executed) : executed[i].file = f /\ executed[i].cmd = "up"}
\* The last run of f is in the ledger, or a command is about to put it there.
Settling(f) ==
  \/ ledger[f].state = "applied"
  \/ \E p \in Procs : pc[p] \in {"record", "mark"} /\ work[p].file = f /\ work[p].ok
RunsBounded(f) ==
  Cardinality(UpRunsOf(f)) <= aborts + fails + (IF Settling(f) THEN 1 ELSE 0)

OnceInv == /\ AloneInv
           /\ \A p \in Procs : PlanIsPending(p)
           /\ \A f \in Migrations : RunsBounded(f)

LEMMA OnceInit == Init => OnceInv
<1>. SUFFICES ASSUME Init PROVE OnceInv
  OBVIOUS
<1>1. \A p \in Procs : PlanIsPending(p)
  BY DEF Init, PlanIsPending, Applying
<1>2. ASSUME NEW f \in Migrations
      PROVE  RunsBounded(f)
  <2>1. UpRunsOf(f) = {}
    BY EmptySeq DEF Init, UpRunsOf
  <2>2. Cardinality(UpRunsOf(f)) = 0
    BY <2>1, FS_EmptySet
  <2>3. QED
    BY <2>2 DEF Init, RunsBounded
<1>3. QED
  BY <1>1, <1>2, AloneInit DEF OnceInv

\* A step of the only command keeps its plan pending: MarkRow takes the file it
\* marks out of the plan, and no two items of a current plan are of one file.
LEMMA OncePlan ==
  ASSUME AloneInv, NEW p \in Procs, PlanIsPending(p),
         Step(p) \/ Abort(p) \/ \E c \in Commands : Start(p, c)
  PROVE  PlanIsPending(p)'
<1>. USE DEF TypeOK, AloneInv, Inv
<1>1. CASE pc'[p] \notin Applying
  BY <1>1 DEF PlanIsPending
<1>2. CASE (PlanUp(p) \/ PlanRun(p)) /\ ~Stop(p)
  <2>1. CASE PlanUp(p)
    <3>1. PICK target \in Pending : Take(p, UpTo(target))
      BY <1>2, <2>1 DEF PlanUp
    <3>2. todo'[p] = Planned(UpTo(target)) /\ UNCHANGED ledger
      BY <2>1, <3>1 DEF PlanUp, Take, CommandsOK
    <3>3. \A t \in Planned(UpTo(target)) : ledger[t.file].state = "pending"
      BY DEF Planned, UpTo, Pending
    <3>4. QED
      BY <3>2, <3>3 DEF PlanIsPending
  <2>2. CASE PlanRun(p)
    <3>1. scan[p].cmd = "run" /\ \E S : Take(p, S)
      <4>1. PICK f \in Runnable :
              \E S \in {{f}, {g \in Runnable : StepOf[g] = StepOf[f]}} : Take(p, S)
        BY <1>2, <2>2 DEF PlanRun
      <4>2. QED
        BY <2>2, <4>1 DEF PlanRun
    <3>2. scan'[p] = [NoScan EXCEPT !.cmd = "run"]
      BY <3>1 DEF Take, CommandsOK
    <3>3. scan'[p].cmd = "run"
      BY <3>2 DEF NoScan
    <3>4. QED
      BY <3>3 DEF PlanIsPending
  <2>3. QED
    BY <1>2, <2>1, <2>2
<1>3. CASE (ReadBody(p) \/ RunBody(p) \/ RecordAttempt(p)) /\ ~Stop(p)
  <2>1. pc[p] \in Applying /\ UNCHANGED <<ledger, todo, scan>>
    BY <1>3 DEF ReadBody, RunBody, RecordAttempt, Outcome, Applying
  <2>2. QED
    BY <2>1 DEF PlanIsPending
<1>4. CASE MarkRow(p) /\ ~Stop(p)
  <2>. DEFINE w == work[p]
              n == NextItem(p)
  <2>1. /\ pc[p] = "mark" /\ w.ok /\ todo'[p] = todo[p] \ {n} /\ UNCHANGED scan
    BY <1>4 DEF MarkRow, CommandsOK
  <2>2. /\ n \in todo[p] /\ todo[p] \subseteq Items /\ w.file = n.file
        /\ \A t \in todo[p] : ledger[t.file].sha = t.sha
    BY <2>1, NextItemIsFirst DEF CommandsOK, AloneHolds, WorkIsNext, PlanIsCurrent, Applying
  <2>3. \A t \in todo[p] \ {n} : t.file # w.file /\ t.file \in Files
    BY <2>2 DEF Items
  <2>4. \A g \in Files : g # w.file => ledger'[g] = ledger[g]
    BY <1>4, <2>1, MarkRowWrites DEF DatabaseOK
  <2>5. QED
    BY <2>1, <2>3, <2>4 DEF PlanIsPending, Applying
<1>5. CASE Scan(p) \/ Stop(p) \/ \E c \in Commands : Start(p, c)
  <2>1. CASE Stop(p)
    BY <1>1, <2>1 DEF Stop, CommandsOK, Applying
  <2>2. CASE \E c \in Commands : Start(p, c)
    BY <1>1, <2>2 DEF Start, CommandsOK, Applying
  <2>3. CASE Scan(p) /\ ~Stop(p)
    BY <1>1, <2>3 DEF Scan, ListStep, HashFile, SelectRow, WriteRow, CheckMissing, CommandsOK,
                      Applying, PlanIsPending
  <2>4. QED
    BY <1>5, <2>1, <2>2, <2>3
<1>6. QED
  BY <1>2, <1>3, <1>4, <1>5 DEF Step, Apply, Abort

\* A body that is committed adds a run of its file, of up when up runs it.
LEMMA OnceCommit ==
  ASSUME TypeOK, NEW p \in Procs, RunBody(p), CommitBody(p), NEW f
  PROVE  /\ Cardinality(UpRunsOf(f)) \in Nat
         /\ Cardinality(UpRunsOf(f)') =
              IF work[p].file = f /\ scan[p].cmd = "up" THEN Cardinality(UpRunsOf(f)) + 1
                                                        ELSE Cardinality(UpRunsOf(f))
<1>. DEFINE n == Len(executed)
            e == [run |-> work[p].run, cmd |-> scan[p].cmd, file |-> work[p].file,
                  body |-> disk[work[p].file]]
<1>1. e \in Executions /\ executed \in Seq(Executions)
  BY DEF RunBody, TypeOK, DatabaseOK, CommandsOK, Executions, Works, Scans, Applying
<1>2. executed' = Append(executed, e) /\ e.file = work[p].file /\ e.cmd = scan[p].cmd
  BY DEF CommitBody
<1>. HIDE DEF e
<1>3. /\ n \in Nat /\ Len(executed') = n + 1 /\ executed'[n + 1] = e
      /\ \A i \in 1..n : executed'[i] = executed[i]
  BY <1>1, <1>2, AppendProperties, LenProperties
<1>4. /\ n + 1 \in UpRunsOf(f)' <=> work[p].file = f /\ scan[p].cmd = "up"
      /\ UpRunsOf(f)' = UpRunsOf(f) \/ UpRunsOf(f)' = UpRunsOf(f) \cup {n + 1}
      /\ UpRunsOf(f) \subseteq 1..n
  BY <1>2, <1>3 DEF UpRunsOf
<1>5. QED
  BY <1>3, <1>4, CountAppend

\* Nothing but a command that dies unsettles a migration.
LEMMA SettlingStays ==
  ASSUME AloneInv, NEW p \in Procs, Step(p) \/ \E c \in Commands : Start(p, c), OneCommand,
         NEW f \in Migrations, Settling(f)
  PROVE  Settling(f)'
<1>. USE DEF TypeOK, AloneInv, Inv
<1>0. f \in Files
  BY MigrateUpAssumption DEF Files
<1>1. CASE ledger[f].state = "applied"
  <2>1. [Next]_vars
    BY DEF Next
  <2>2. QED
    BY <1>1, <2>1, AloneRows DEF Settling
<1>2. CASE pc[p] \in {"record", "mark"} /\ work[p].file = f /\ work[p].ok
  <2>1. CASE RecordAttempt(p)
    <3>. DEFINE w == [work[p] EXCEPT !.hist = NewHistoryId,
                                     !.attempt = NextAttempt(ledger[work[p].file])]
    <3>1. pc'[p] = "mark" /\ work'[p] = w
      BY <2>1 DEF RecordAttempt, CommandsOK
    <3>2. w.file = work[p].file /\ w.ok = work[p].ok
      BY OldLocals DEF Works
    <3>3. QED
      BY <1>2, <3>1, <3>2 DEF Settling
  <2>2. CASE MarkRow(p)
    <3>1. \A r \in Rows : Succeeded(Attempted(r, work[p]), work[p]).state = "applied"
      BY DEF Rows, Attempted, Succeeded
    <3>2. ledger'[f].state = "applied"
      BY <1>2, <2>2, <3>1, MarkRowWrites DEF DatabaseOK
    <3>3. QED
      BY <3>2 DEF Settling
  <2>3. QED
    BY <1>2, <2>1, <2>2
       DEF Step, Scan, Apply, Start, ListStep, HashFile, SelectRow, WriteRow, CheckMissing,
           PlanUp, PlanRun, ReadBody, RunBody
<1>3. QED
  BY <1>1, <1>2 DEF Settling, OneCommand

\* What a step of the command does to the bound.
LEMMA OnceStep ==
  ASSUME OnceInv, OneCommand, NEW p \in Procs, NEW f \in Migrations,
         Step(p) \/ Abort(p) \/ \E c \in Commands : Start(p, c)
  PROVE  RunsBounded(f)'
<1>. USE DEF OnceInv, AloneInv, Inv, TypeOK
<1>. DEFINE n == Cardinality(UpRunsOf(f))
<1>0. /\ n \in Nat /\ aborts \in Nat /\ fails \in Nat
      /\ n <= aborts + fails + (IF Settling(f) THEN 1 ELSE 0)
  <2>1. UpRunsOf(f) \subseteq 1..Len(executed) /\ Len(executed) \in Nat
    BY LenProperties DEF UpRunsOf, DatabaseOK
  <2>2. QED
    BY <2>1, CountAppend DEF DatabaseOK, RunsBounded
<1>1. CASE Abort(p)
  <2>1. UNCHANGED <<executed, fails>> /\ aborts' = aborts + 1
    BY <1>1 DEF Abort
  <2>2. UpRunsOf(f)' = UpRunsOf(f)
    BY <2>1 DEF UpRunsOf
  <2>3. QED
    BY <1>0, <2>1, <2>2 DEF RunsBounded
<1>2. CASE RunBody(p)
  <2>1. /\ pc[p] = "exec" /\ pc'[p] = "record" /\ UNCHANGED <<aborts, scan, ledger>>
        /\ work'[p].file = work[p].file
    BY <1>2, OldLocals DEF RunBody, Outcome, CommandsOK, Works
  <2>2. Settling(f) => Settling(f)'
    BY <1>2, SettlingStays DEF Step, Apply
  <2>3. fails' = fails \/ fails' = fails + 1
    BY <1>2 DEF RunBody
  <2>4. CASE UNCHANGED executed
    <3>1. UpRunsOf(f)' = UpRunsOf(f)
      BY <2>4 DEF UpRunsOf
    <3>2. QED
      BY <1>0, <2>1, <2>2, <2>3, <3>1 DEF RunsBounded
  <2>5. CASE CommitBody(p) /\ (work[p].file # f \/ scan[p].cmd # "up")
    <3>1. Cardinality(UpRunsOf(f)') = n
      BY <1>2, <2>5, OnceCommit
    <3>2. QED
      BY <1>0, <2>1, <2>2, <2>3, <3>1 DEF RunsBounded
  <2>6. CASE CommitBody(p) /\ work[p].file = f /\ scan[p].cmd = "up"
    <3>1. Cardinality(UpRunsOf(f)') = n + 1
      BY <1>2, <2>6, OnceCommit
    <3>2. ledger[f].state = "pending"
      <4>1. NextItem(p) \in todo[p] /\ NextItem(p).file = f
        BY <2>1, <2>6, NextItemIsFirst
           DEF CommandsOK, AloneHolds, WorkIsNext, Applying
      <4>2. QED
        BY <2>1, <2>6, <4>1 DEF PlanIsPending, Applying
    <3>3. ~Settling(f)
      BY <2>1, <3>2 DEF Settling, OneCommand
    <3>4. CASE Outcome(p, TRUE)
      <4>1. work'[p].ok
        BY <3>4, OldLocals DEF Outcome, CommandsOK, Works
      <4>2. Settling(f)'
        BY <2>1, <2>6, <4>1 DEF Settling
      <4>3. QED
        BY <1>0, <2>1, <2>3, <3>1, <3>3, <4>2 DEF RunsBounded
    <3>5. CASE fails' = fails + 1
      BY <1>0, <2>1, <3>1, <3>3, <3>5 DEF RunsBounded
    <3>6. QED
      BY <1>2, <2>4, <3>4, <3>5 DEF RunBody
  <2>7. QED
    BY <1>2, <2>4, <2>5, <2>6 DEF RunBody
<1>3. CASE (Step(p) \/ \E c \in Commands : Start(p, c)) /\ ~RunBody(p)
  <2>1. UNCHANGED <<executed, aborts, fails>>
    <3>1. CASE \E c \in Commands : Start(p, c)
      BY <3>1 DEF Start, used
    <3>2. CASE Scan(p)
      BY <3>2 DEF Scan, ListStep, HashFile, SelectRow, WriteRow, CheckMissing, used
    <3>3. CASE PlanUp(p) \/ PlanRun(p)
      BY <3>3 DEF PlanUp, PlanRun
    <3>4. CASE ReadBody(p) \/ RecordAttempt(p) \/ MarkRow(p)
      BY <3>4 DEF ReadBody, RecordAttempt, MarkRow, used
    <3>5. QED
      BY <1>3, <3>1, <3>2, <3>3, <3>4 DEF Step, Apply
  <2>2. UpRunsOf(f)' = UpRunsOf(f)
    BY <2>1 DEF UpRunsOf
  <2>3. Settling(f) => Settling(f)'
    BY <1>3, SettlingStays
  <2>4. QED
    BY <1>0, <2>1, <2>2, <2>3 DEF RunsBounded
<1>4. QED
  BY <1>1, <1>2, <1>3

LEMMA OnceNext ==
  ASSUME OneCommand
  PROVE  OnceInv /\ [Next]_vars => OnceInv'
<1>. SUFFICES ASSUME OnceInv, [Next]_vars PROVE OnceInv'
  OBVIOUS
<1>1. AloneInv'
  BY AloneNext DEF OnceInv
<1>2. CASE UNCHANGED vars \/ \E g \in Files, b \in Bodies \cup {None} : Edit(g, b)
  <2>1. UNCHANGED <<executed, ledger, pc, scan, todo, work, aborts, fails>>
    BY <1>2 DEF Edit, used, vars
  <2>2. \A p \in Procs : PlanIsPending(p)'
    BY <2>1 DEF OnceInv, PlanIsPending
  <2>3. ASSUME NEW f \in Migrations
        PROVE  RunsBounded(f)'
    <3>1. UpRunsOf(f)' = UpRunsOf(f) /\ (Settling(f)' <=> Settling(f))
      BY <2>1 DEF UpRunsOf, Settling
    <3>2. QED
      BY <2>1, <3>1 DEF OnceInv, RunsBounded
  <2>4. QED
    BY <1>1, <2>2, <2>3 DEF OnceInv
<1>3. ASSUME NEW p \in Procs, Step(p) \/ Abort(p) \/ \E c \in Commands : Start(p, c)
      PROVE  OnceInv'
  <2>1. PlanIsPending(p)'
    BY <1>3, OncePlan DEF OnceInv
  <2>2. QED
    BY <1>1, <1>3, <2>1, OnceStep DEF OnceInv, OneCommand
<1>4. QED
  BY <1>2, <1>3 DEF Next

\* Run one after the other, up runs a migration once, and once more for each
\* command that died or lost an answer, however many files there are.
THEOREM MigrationsRunOnce ==
  ASSUME OneCommand
  PROVE  Spec => []MigrationRunsOnce
<1>1. OnceInv => MigrationRunsOnce
  <2>. SUFFICES ASSUME OnceInv, NEW f \in Migrations
                PROVE  Cardinality(UpRunsOf(f)) <= 1 + aborts + fails
    BY DEF MigrationRunsOnce, UpRunsOf
  <2>1. UpRunsOf(f) \subseteq 1..Len(executed) /\ Len(executed) \in Nat
    BY LenProperties DEF UpRunsOf, OnceInv, AloneInv, Inv, TypeOK, DatabaseOK
  <2>2. Cardinality(UpRunsOf(f)) \in Nat
    BY <2>1, CountAppend
  <2>3. QED
    BY <2>2 DEF OnceInv, RunsBounded, AloneInv, Inv, TypeOK, DatabaseOK
<1>2. OnceInv /\ [Next]_vars => OnceInv'
  BY OnceNext
<1>3. QED
  BY <1>1, <1>2, OnceInit, PTL DEF Spec
===============================================================================
