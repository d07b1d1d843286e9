----------------------------- MODULE Rebase_proofs -----------------------------
(***************************************************************************)
(* Theorems about Rebase, for any number of commands, files and contents.  *)
(* Every snapshot was shown, because the content that was read stays among *)
(* those shown while the command waits to save it; what is applied was run *)
(* or declared, because a mirror only ever holds files that were declared, *)
(* or that were already applied when prune read the rows; what is folded   *)
(* was absent, because an orphan was absent when prune listed the tree.    *)
(***************************************************************************)
EXTENDS Rebase, SequenceTheorems, WellFoundedInduction, TLAPS

\* A set of files has a first one.
LEMMA LeastFile ==
  ASSUME NEW S, S \subseteq Files, S # {}
  PROVE  Least(S) \in S
<1>. DEFINE R == OpToRel(<, Nat)
<1>1. IsWellFoundedOn(R, Nat)
  BY NatLessThanWellFounded
<1>2. S \subseteq Nat
  BY RebaseAssumption DEF Files
<1>3. \A x, y \in Nat : <<y, x>> \in R <=> y < x
  BY DEF OpToRel
<1>. HIDE DEF R
<1>4. PICK x \in S : \A y \in S : ~(<<y, x>> \in R)
  BY <1>1, <1>2, WFMin
<1>5. \A y \in S : x \in Nat /\ y \in Nat /\ ~(y < x)
  BY <1>2, <1>3, <1>4
<1>6. \A y \in S : x <= y
  BY <1>5
<1>. QED
  BY <1>6 DEF Least

\* A set of history rows has a newest one: turn it around the end of history.
LEMMA GreatestExists ==
  ASSUME NEW n \in Nat, NEW S, S \subseteq 1..n, S # {}
  PROVE  \E x \in S : \A y \in S : y <= x
<1>. DEFINE R == OpToRel(<, Nat)
            T == {n - x : x \in S}
<1>1. IsWellFoundedOn(R, Nat)
  BY NatLessThanWellFounded
<1>2. \A x, y \in Nat : <<y, x>> \in R <=> y < x
  BY DEF OpToRel
<1>. HIDE DEF R
<1>3. T \subseteq Nat /\ T # {}
  <2>1. \A x \in S : n - x \in Nat
    OBVIOUS
  <2>. QED
    BY <2>1
<1>4. PICK t \in T : \A u \in T : ~(<<u, t>> \in R)
  BY <1>1, <1>3, WFMin
<1>5. PICK x \in S : t = n - x
  OBVIOUS
<1>6. ASSUME NEW y \in S PROVE y <= x
  <2>1. n - y \in T /\ n - y \in Nat /\ t \in Nat
    BY <1>3
  <2>2. ~(n - y < t)
    BY <1>2, <1>4, <2>1
  <2>. QED
    BY <1>5, <2>2
<1>. QED
  BY <1>6

\* The fields of the locals, and the assignments to them that the actions make.
LEMMA JobFields ==
  ASSUME NEW j \in Jobs
  PROVE  /\ j.files \in SUBSET Files /\ j.orphans \in SUBSET Files /\ j.snaps \in SUBSET Nat
         /\ j.seen \in SUBSET Files /\ j.inactive \in SUBSET Files
         /\ j.sha \in Contents /\ j.sql \in Contents /\ j.prior \in ContentPairs
BY DEF Jobs

LEMMA JobTypes ==
  ASSUME NEW j \in Jobs
  PROVE  /\ \A S \in SUBSET Files, T \in SUBSET Nat :
              [j EXCEPT !.files = S, !.snaps = T] \in Jobs
         /\ \A S \in SUBSET Files : [j EXCEPT !.files = S] \in Jobs
         /\ \A S \in SUBSET Files : [j EXCEPT !.orphans = S] \in Jobs
         /\ \A T \in SUBSET Nat : [j EXCEPT !.snaps = T] \in Jobs
         /\ \A S, T \in SUBSET Files : [j EXCEPT !.seen = S, !.inactive = T] \in Jobs
         /\ \A S, T \in SUBSET Files : [j EXCEPT !.files = S, !.orphans = T] \in Jobs
         /\ \A f \in Files, c \in Contents : [j EXCEPT !.file = f, !.sha = c] \in Jobs
         /\ \A c \in Contents : [j EXCEPT !.sql = c] \in Jobs
         /\ \A c \in ContentPairs : [j EXCEPT !.prior = c] \in Jobs
         /\ \A i \in Nat : [j EXCEPT !.snap = i] \in Jobs
BY DEF Jobs

LEMMA NoJobType ==
  NoJob \in Jobs /\ NoJob.files = {} /\ NoJob.orphans = {} /\ NoJob.snaps = {}
BY DEF NoJob, Jobs, NoContent, ContentPairs, Contents

\* The fields of a row, and the assignments to them.
LEMMA RowTypes ==
  ASSUME NEW r \in Rows
  PROVE  /\ r.state \in States /\ r.sha \in Contents /\ r.asha \in Contents /\ r.asql \in Contents
         /\ Content(r) \in ContentPairs
         /\ \A a, b, c \in Contents : [r EXCEPT !.sha = a, !.asha = b, !.asql = c] \in Rows
         /\ \A s \in States, a, b \in Contents : [r EXCEPT !.state = s, !.asha = a, !.asql = b] \in Rows
         /\ \A s \in States, a \in Contents : [r EXCEPT !.sha = a, !.state = s] \in Rows
         /\ \A s \in States : [r EXCEPT !.state = s] \in Rows
BY DEF Rows, Content, ContentPairs, Contents

LEMMA NewRowType ==
  ASSUME NEW a \in Contents, NEW b \in Contents
  PROVE  [state |-> "applied", sha |-> a, asha |-> a, asql |-> b] \in Rows
BY DEF Rows, States

LEMMA PutTypes ==
  ASSUME TypeOK, NEW f \in Files, NEW r \in Rows, Put(f, r)
  PROVE  /\ ledger' \in [Files -> Rows]
         /\ shown' \subseteq Files \X ContentPairs
<1>1. Content(r) \in ContentPairs
  BY RowTypes
<1>. QED
  BY <1>1 DEF Put, TypeOK

\* A history row more: the ones before stay what they were.
LEMMA AppendTypes ==
  ASSUME TypeOK, NEW f \in Files, NEW kind \in {"apply", "rebase", "rebase_undo", "fold"},
         NEW c \in ContentPairs, Append1(f, kind, c)
  PROVE  /\ history' \in Seq(Entries)
         /\ Len(history') = Len(history) + 1
         /\ \A i \in 1..Len(history) : history'[i] = history[i]
         /\ history'[Len(history')] = [file |-> f, kind |-> kind, sha |-> c.sha, sql |-> c.sql]
<1>1. Entry(f, kind, c) \in Entries
  BY DEF Entry, Entries, ContentPairs
<1>2. history \in Seq(Entries) /\ history' = Append(history, Entry(f, kind, c))
  BY DEF TypeOK, Append1
<1>. QED
  BY <1>1, <1>2 DEF Entry

WithFile == {"body", "row", "register", "note", "save", "write"}

\* What a step of command p must show for the commands to keep their types.
LEMMA LocalTypes ==
  ASSUME TypeOK, NEW p \in Procs, NEW l \in Pcs, NEW j \in Jobs,
         Goto(p, l), job' = [job EXCEPT ![p] = j],
         history' \in Seq(Entries), Len(history') >= Len(history),
         l \in {"body", "row", "register", "note", "save", "write"} => j.file \in Files,
         l \in {"fold", "folded"} => j.orphans # {},
         j.snaps \subseteq 1..Len(history'),
         l = "undone" => j.snap \in 1..Len(history')
  PROVE  /\ pc' \in [Procs -> Pcs] /\ job' \in [Procs -> Jobs]
         /\ \A q \in Procs : InHand(q)'
<1>1. pc' \in [Procs -> Pcs] /\ job' \in [Procs -> Jobs]
  BY DEF TypeOK, Goto
<1>2. Len(history) \in Nat /\ Len(history') \in Nat /\ 1..Len(history) \subseteq 1..Len(history')
  BY DEF TypeOK
<1>3. InHand(p)'
  BY DEF TypeOK, Goto, InHand
<1>4. ASSUME NEW q \in Procs, q # p PROVE InHand(q)'
  <2>1. pc'[q] = pc[q] /\ job'[q] = job[q] /\ InHand(q)
    BY <1>4 DEF TypeOK, Goto
  <2>. QED
    BY <2>1, <1>2 DEF InHand
<1>. QED
  BY <1>1, <1>3, <1>4

\* A command with a file in hand goes on to another statement of its mirror.
LEMMA WithFileTypes ==
  ASSUME TypeOK, NEW p \in Procs, NEW l \in WithFile,
         NEW j \in Jobs, Goto(p, l), job' = [job EXCEPT ![p] = j],
         history' \in Seq(Entries), Len(history') >= Len(history),
         j.file \in Files, j.snaps = job[p].snaps
  PROVE  /\ pc' \in [Procs -> Pcs] /\ job' \in [Procs -> Jobs]
         /\ \A q \in Procs : InHand(q)'
<1>1. l \in Pcs /\ l \notin {"fold", "folded"} /\ l # "undone"
  BY DEF Pcs, WithFile
<1>2. job[p].snaps \subseteq 1..Len(history)
  BY DEF TypeOK, InHand
<1>3. 1..Len(history) \subseteq 1..Len(history')
  BY DEF TypeOK
<1>4. j.snaps \subseteq 1..Len(history')
  BY <1>2, <1>3
<1>. QED
  BY <1>1, <1>4, LocalTypes

\* A command that stops, and one that is done with a file.
LEMMA StopTypes ==
  ASSUME TypeOK, NEW p \in Procs, Stop(p), UNCHANGED history
  PROVE  /\ pc' \in [Procs -> Pcs] /\ job' \in [Procs -> Jobs]
         /\ \A q \in Procs : InHand(q)'
<1>1. "idle" \in Pcs /\ history' \in Seq(Entries) /\ Len(history') \in Nat /\ Len(history') = Len(history)
  BY DEF Pcs, TypeOK
<1>2. Goto(p, "idle") /\ job' = [job EXCEPT ![p] = NoJob]
  BY DEF Stop
<1>3. Len(history') >= Len(history) /\ NoJob.snaps \subseteq 1..Len(history')
  BY <1>1, NoJobType
<1>. HIDE DEF NoJob
<1>. QED
  BY <1>1, <1>2, <1>3, NoJobType, LocalTypes

LEMMA NextFileTypes ==
  ASSUME TypeOK, NEW p \in Procs, NEW f, NextFile(p, f),
         history' \in Seq(Entries), Len(history') >= Len(history)
  PROVE  /\ pc' \in [Procs -> Pcs] /\ job' \in [Procs -> Jobs]
         /\ \A q \in Procs : InHand(q)'
<1>. DEFINE j == [NoJob EXCEPT !.files = job[p].files \ {f}]
<1>1. job[p].files \ {f} \in SUBSET Files
  BY JobFields DEF TypeOK
<1>2. j \in Jobs /\ j.snaps = {}
  BY <1>1, NoJobType, JobTypes DEF NoJob
<1>3. Goto(p, "hash") /\ job' = [job EXCEPT ![p] = j] /\ "hash" \in Pcs
  BY DEF NextFile, Pcs
<1>. HIDE DEF j
<1>. QED
  BY <1>2, <1>3, LocalTypes

LEMMA TypesInit == Init => TypeOK
<1>. SUFFICES ASSUME Init PROVE TypeOK
  OBVIOUS
<1>1. NoRow \in Rows /\ "none" \in States
  BY DEF NoRow, Rows, States, Contents
<1>2. history \in Seq(Entries) /\ Len(history) = 0
  BY DEF Init
<1>3. pc \in [Procs -> Pcs] /\ job \in [Procs -> Jobs] /\ \A p \in Procs : InHand(p)
  BY NoJobType DEF Init, Pcs, InHand
<1>4. disk \in [Files -> Contents] /\ inactive \subseteq Files
  BY RebaseAssumption DEF Init, Contents, Files
<1>. QED
  BY <1>1, <1>2, <1>3, <1>4 DEF Init, TypeOK
\* The steps of the tree and of up, which leave the commands alone.
LEMMA TypesAround ==
  ASSUME TypeOK, NEW f \in Files,
         Switch(f) \/ UpScans(f) \/ UpApplies(f) \/ \E b \in Bodies \cup {None} : Edit(f, b)
  PROVE  TypeOK'
<1>. USE RebaseAssumption
<1>a. ledger[f] \in Rows /\ disk[f] \in Contents
  BY DEF TypeOK
<1>b. ASSUME UNCHANGED <<pc, job, history>> PROVE \A p \in Procs : InHand(p)'
  BY <1>b DEF TypeOK, InHand
<1>1. CASE Switch(f)
  BY <1>1, <1>b DEF Switch, TypeOK, tables, ghosts, Files
<1>2. CASE \E b \in Bodies \cup {None} : Edit(f, b)
  BY <1>2, <1>b DEF Edit, TypeOK, tables, Contents
<1>3. CASE UpScans(f)
  <2>1. PICK s \in States : Put(f, [ledger[f] EXCEPT !.sha = disk[f], !.state = s])
    BY <1>3, <1>a, RowTypes DEF UpScans, States
  <2>2. [ledger[f] EXCEPT !.sha = disk[f], !.state = s] \in Rows
    BY <1>a, RowTypes
  <2>3. ledger' \in [Files -> Rows] /\ shown' \subseteq Files \X ContentPairs
    BY <2>1, <2>2, PutTypes
  <2>. QED
    BY <1>3, <1>b, <2>3 DEF UpScans, TypeOK, tree
<1>4. CASE UpApplies(f)
  <2>. DEFINE c == [sha |-> ledger[f].sha, sql |-> disk[f]]
              r == [ledger[f] EXCEPT !.state = "applied", !.asha = c.sha, !.asql = c.sql]
  <2>1. c \in ContentPairs /\ c.sha \in Contents /\ c.sql \in Contents
    BY <1>a, RowTypes DEF ContentPairs
  <2>2. Append1(f, "apply", c) /\ Put(f, r)
    BY <1>4 DEF UpApplies
  <2>3. r \in Rows
    BY <1>a, <2>1, RowTypes DEF States
  <2>. HIDE DEF c, r
  <2>4. ledger' \in [Files -> Rows] /\ shown' \subseteq Files \X ContentPairs
    BY <2>2, <2>3, PutTypes
  <2>5. history' \in Seq(Entries) /\ Len(history') = Len(history) + 1
    BY <2>1, <2>2, AppendTypes
  <2>6. 1..Len(history) \subseteq 1..Len(history')
    BY <2>5 DEF TypeOK
  <2>7. \A p \in Procs : InHand(p)'
    BY <1>4, <2>6 DEF TypeOK, InHand, UpApplies
  <2>. QED
    BY <1>4, <2>4, <2>5, <2>7 DEF UpApplies, TypeOK, tree
<1>. QED
  BY <1>1, <1>2, <1>3, <1>4

\* The operator starts a command, and a command dies.
LEMMA TypesBegin ==
  ASSUME TypeOK, NEW p \in Procs, Begin(p) \/ Abort(p)
  PROVE  TypeOK'
<1>. USE RebaseAssumption
<1>1. ASSUME NEW l \in {"hash", "find", "restore", "tree"}, NEW S \in SUBSET Files,
             NEW T \in SUBSET (1..Len(history)), Start(p, l, S, T), declared' \subseteq Files
      PROVE  TypeOK'
  <2>0. T \in SUBSET Nat
    BY DEF TypeOK
  <2>1. [NoJob EXCEPT !.files = S, !.snaps = T] \in Jobs
    BY <2>0, NoJobType, JobTypes
  <2>2. [NoJob EXCEPT !.files = S, !.snaps = T].snaps = T
    BY DEF NoJob
  <2>3. history' = history /\ l \in Pcs
    BY <1>1 DEF Start, tables, Pcs
  <2>4. Goto(p, l) /\ job' = [job EXCEPT ![p] = [NoJob EXCEPT !.files = S, !.snaps = T]]
    BY <1>1 DEF Start
  <2>5. history' \in Seq(Entries) /\ Len(history') >= Len(history)
    BY <2>3 DEF TypeOK
  <2>6. pc' \in [Procs -> Pcs] /\ job' \in [Procs -> Jobs] /\ \A q \in Procs : InHand(q)'
    BY <2>1, <2>2, <2>3, <2>4, <2>5, LocalTypes
  <2>. QED
    BY <1>1, <2>6 DEF Start, TypeOK, tree, tables
<1>2. CASE StartMirror(p)
  <2>1. PICK S \in SUBSET Files : Start(p, "hash", S, {}) /\ declared' = declared \cup S
    BY <1>2 DEF StartMirror
  <2>. QED
    BY <1>1, <2>1 DEF TypeOK
<1>3. CASE StartUndo(p)
  <2>1. PICK S \in SUBSET Files : Start(p, "find", S, {}) /\ declared' = declared
    BY <1>3 DEF StartUndo
  <2>. QED
    BY <1>1, <2>1 DEF TypeOK
<1>4. CASE StartUndoId(p)
  <2>1. PICK i \in 1..Len(history) : Start(p, "restore", {}, {i}) /\ declared' = declared
    BY <1>4 DEF StartUndoId
  <2>. QED
    BY <1>1, <2>1 DEF TypeOK
<1>5. CASE StartPrune(p)
  <2>1. PICK S \in SUBSET Files : Start(p, "tree", S, {}) /\ declared' = declared
    BY <1>5 DEF StartPrune, Files
  <2>. QED
    BY <1>1, <2>1 DEF TypeOK
<1>6. CASE Abort(p)
  <2>1. pc' \in [Procs -> Pcs] /\ job' \in [Procs -> Jobs] /\ \A q \in Procs : InHand(q)'
    BY <1>6, StopTypes DEF Abort, tables
  <2>. QED
    BY <1>6, <2>1 DEF Abort, TypeOK, tree, tables, ghosts
<1>. QED
  BY <1>2, <1>3, <1>4, <1>5, <1>6 DEF Begin
\* The steps of a mirror.
LEMMA TypesMirror ==
  ASSUME TypeOK, NEW p \in Procs, Mirror(p)
  PROVE  TypeOK'
<1>. DEFINE f == job[p].file
<1>a. job[p] \in Jobs /\ InHand(p)
  BY DEF TypeOK
<1>b. job[p].sha \in Contents /\ job[p].sql \in Contents /\ job[p].prior \in ContentPairs
      /\ job[p].files \in SUBSET Files
  BY <1>a, JobFields
<1>c. history \in Seq(Entries) /\ Len(history) \in Nat
  BY DEF TypeOK
<1>e. ASSUME history' = history PROVE history' \in Seq(Entries) /\ Len(history') >= Len(history)
  BY <1>c, <1>e
<1>g. /\ "body" \in WithFile /\ "row" \in WithFile /\ "register" \in WithFile
      /\ "note" \in WithFile /\ "save" \in WithFile /\ "write" \in WithFile
  BY DEF WithFile
<1>d. [state |-> "applied", sha |-> job[p].sha, asha |-> job[p].sha, asql |-> job[p].sql] \in Rows
  BY <1>b, NewRowType
<1>1. CASE HashFile(p)
  <2>1. CASE Stop(p)
    <3>1. pc' \in [Procs -> Pcs] /\ job' \in [Procs -> Jobs] /\ \A q \in Procs : InHand(q)'
      BY <1>1, <2>1, StopTypes DEF HashFile, tables
    <3>. QED
      BY <1>1, <3>1 DEF HashFile, TypeOK, tree, tables, used, ghosts
  <2>2. CASE ~Stop(p)
    <3>. DEFINE g == Least(job[p].files)
                j == [job[p] EXCEPT !.file = g, !.sha = disk[g]]
    <3>1. job[p].files # {} /\ job' = [job EXCEPT ![p] = j] /\ Goto(p, "body") /\ history' = history
      BY <1>1, <2>2 DEF HashFile, TypeOK, tables
    <3>2. g \in Files
      BY <1>b, <3>1, LeastFile
    <3>3. disk[g] \in Contents
      BY <3>2 DEF TypeOK
    <3>4. j \in Jobs /\ j.file = g /\ j.snaps = job[p].snaps
      BY <1>a, <3>2, <3>3, JobTypes DEF Jobs
    <3>. HIDE DEF j, g
    <3>5. pc' \in [Procs -> Pcs] /\ job' \in [Procs -> Jobs] /\ \A q \in Procs : InHand(q)'
      BY <1>e, <1>g, <3>1, <3>2, <3>4, WithFileTypes
    <3>. QED
      BY <1>1, <3>5 DEF HashFile, TypeOK, tree, tables, used, ghosts
  <2>. QED
    BY <2>1, <2>2
<1>2. CASE ReadBody(p)
  <2>1. CASE Stop(p)
    <3>1. pc' \in [Procs -> Pcs] /\ job' \in [Procs -> Jobs] /\ \A q \in Procs : InHand(q)'
      BY <1>2, <2>1, StopTypes DEF ReadBody, tables
    <3>. QED
      BY <1>2, <3>1 DEF ReadBody, TypeOK, tree, tables, used, ghosts
  <2>2. CASE ~Stop(p)
    <3>. DEFINE j == [job[p] EXCEPT !.sql = disk[f]]
    <3>1. job' = [job EXCEPT ![p] = j] /\ Goto(p, "row") /\ history' = history
      BY <1>2, <2>2 DEF ReadBody, TypeOK, tables
    <3>2. f \in Files
      BY <1>2, <1>a DEF ReadBody, InHand
    <3>3. disk[f] \in Contents
      BY <3>2 DEF TypeOK
    <3>4. j \in Jobs /\ j.file = f /\ j.snaps = job[p].snaps
      BY <1>a, <3>3, JobTypes DEF Jobs
    <3>. HIDE DEF j, f
    <3>5. pc' \in [Procs -> Pcs] /\ job' \in [Procs -> Jobs] /\ \A q \in Procs : InHand(q)'
      BY <1>e, <1>g, <3>1, <3>2, <3>4, WithFileTypes
    <3>. QED
      BY <1>2, <3>5 DEF ReadBody, TypeOK, tree, tables, used, ghosts
  <2>. QED
    BY <2>1, <2>2
<1>3. CASE ReadRow(p)
  <2>0. f \in Files /\ history' = history
    BY <1>3, <1>a DEF ReadRow, InHand, tables
  <2>1. pc' \in [Procs -> Pcs] /\ job' \in [Procs -> Jobs] /\ \A q \in Procs : InHand(q)'
    <3>1. CASE Goto(p, "register") /\ UNCHANGED job
      <4>1. job' = [job EXCEPT ![p] = job[p]]
        BY <3>1 DEF TypeOK
      <4>. QED
        BY <1>a, <1>e, <1>g, <2>0, <3>1, <4>1, WithFileTypes
    <3>2. CASE NextFile(p, f)
      BY <3>2, <1>c, <2>0, NextFileTypes
    <3>3. CASE /\ Goto(p, "save")
               /\ job' = [job EXCEPT ![p] = [job[p] EXCEPT !.prior = Prior(ledger[f])]]
      <4>. DEFINE j == [job[p] EXCEPT !.prior = Prior(ledger[f])]
      <4>1. Prior(ledger[f]) \in ContentPairs
        BY <2>0, RowTypes DEF Prior, TypeOK
      <4>2. j \in Jobs /\ j.file = f /\ j.snaps = job[p].snaps
        BY <1>a, <4>1, JobTypes DEF Jobs
      <4>3. job' = [job EXCEPT ![p] = j]
        BY <3>3
      <4>. HIDE DEF j, f
      <4>. QED
        BY <1>e, <1>g, <2>0, <3>3, <4>2, <4>3, WithFileTypes
    <3>. QED
      BY <1>3, <3>1, <3>2, <3>3 DEF ReadRow
  <2>. QED
    BY <1>3, <2>1 DEF ReadRow, TypeOK, tree, tables, used, ghosts
<1>4. CASE Register(p)
  <2>0. f \in Files /\ history' = history
    BY <1>4, <1>a DEF Register, InHand
  <2>1. CASE Stop(p) /\ UNCHANGED <<ledger, shown, before>>
    <3>1. pc' \in [Procs -> Pcs] /\ job' \in [Procs -> Jobs] /\ \A q \in Procs : InHand(q)'
      BY <2>0, <2>1, StopTypes
    <3>. QED
      BY <1>4, <2>1, <3>1 DEF Register, TypeOK, tree, used
  <2>2. CASE /\ Put(f, [state |-> "applied", sha |-> job[p].sha, asha |-> job[p].sha, asql |-> job[p].sql])
             /\ before' = [before EXCEPT ![f] = "none"]
             /\ Goto(p, "note") /\ UNCHANGED job
    <3>1. ledger' \in [Files -> Rows] /\ shown' \subseteq Files \X ContentPairs
      BY <1>d, <2>0, <2>2, PutTypes
    <3>2. job' = [job EXCEPT ![p] = job[p]]
      BY <2>2 DEF TypeOK
    <3>3. pc' \in [Procs -> Pcs] /\ job' \in [Procs -> Jobs] /\ \A q \in Procs : InHand(q)'
      BY <1>a, <1>e, <1>g, <2>0, <2>2, <3>2, WithFileTypes
    <3>4. before' \in [Files -> States]
      BY <2>2 DEF TypeOK, States
    <3>. QED
      BY <1>4, <3>1, <3>3, <3>4 DEF Register, TypeOK, tree, used
  <2>. QED
    BY <1>4, <2>1, <2>2 DEF Register
<1>5. CASE Note(p)
  <2>. DEFINE c == [sha |-> job[p].sha, sql |-> job[p].sql]
  <2>1. f \in Files /\ c \in ContentPairs /\ Append1(f, "rebase", c) /\ NextFile(p, f)
    BY <1>5, <1>a, <1>b DEF Note, InHand, ContentPairs
  <2>. HIDE DEF c, f
  <2>2. history' \in Seq(Entries) /\ Len(history') = Len(history) + 1
    BY <2>1, AppendTypes
  <2>3. pc' \in [Procs -> Pcs] /\ job' \in [Procs -> Jobs] /\ \A q \in Procs : InHand(q)'
    BY <1>c, <2>1, <2>2, NextFileTypes
  <2>. QED
    BY <1>5, <2>2, <2>3 DEF Note, TypeOK, tree, used, ghosts
<1>6. CASE Save(p)
  <2>1. f \in Files /\ Append1(f, "rebase", job[p].prior)
    BY <1>6, <1>a DEF Save, InHand
  <2>2. history' \in Seq(Entries) /\ Len(history') = Len(history) + 1
    BY <1>b, <2>1, AppendTypes
  <2>a. Len(history') >= Len(history)
    BY <1>c, <2>2
  <2>3. Goto(p, "write") /\ job' = [job EXCEPT ![p] = job[p]]
    BY <1>6 DEF Save, TypeOK
  <2>4. pc' \in [Procs -> Pcs] /\ job' \in [Procs -> Jobs] /\ \A q \in Procs : InHand(q)'
    BY <1>a, <1>g, <2>1, <2>2, <2>a, <2>3, WithFileTypes
  <2>. QED
    BY <1>6, <2>2, <2>4 DEF Save, TypeOK, tree, used, ghosts
<1>7. CASE Overwrite(p)
  <2>1. f \in Files /\ history' = history /\ NextFile(p, f)
    BY <1>7, <1>a DEF Overwrite, InHand
  <2>2. Put(f, [state |-> "applied", sha |-> job[p].sha, asha |-> job[p].sha, asql |-> job[p].sql])
    BY <1>7 DEF Overwrite
  <2>3. ledger' \in [Files -> Rows] /\ shown' \subseteq Files \X ContentPairs
    BY <1>d, <2>1, <2>2, PutTypes
  <2>4. pc' \in [Procs -> Pcs] /\ job' \in [Procs -> Jobs] /\ \A q \in Procs : InHand(q)'
    BY <1>c, <2>1, NextFileTypes
  <2>5. before' \in [Files -> States]
    BY <1>7, <2>1, RowTypes DEF Overwrite, TypeOK
  <2>. QED
    BY <1>7, <2>1, <2>3, <2>4, <2>5 DEF Overwrite, TypeOK, tree, used
<1>. QED
  BY <1>1, <1>2, <1>3, <1>4, <1>5, <1>6, <1>7 DEF Mirror
\* The steps of an undo.
LEMMA TypesUndo ==
  ASSUME TypeOK, NEW p \in Procs, Undo(p)
  PROVE  TypeOK'
<1>a. job[p] \in Jobs /\ InHand(p)
  BY DEF TypeOK
<1>b. history \in Seq(Entries) /\ Len(history) \in Nat
      /\ \A i \in 1..Len(history) : history[i] \in Entries
  BY DEF TypeOK
<1>e. ASSUME history' = history PROVE history' \in Seq(Entries) /\ Len(history') >= Len(history)
  BY <1>b, <1>e
<1>1. CASE FindSnapshots(p)
  <2>. DEFINE targets == {f \in job[p].files : Snapshots(f) # {}}
              T == {Newest(f) : f \in targets}
              j == [NoJob EXCEPT !.snaps = T]
  <2>0. ASSUME NEW f \in targets PROVE Newest(f) \in 1..Len(history)
    <3>1. Snapshots(f) \subseteq 1..Len(history) /\ Snapshots(f) # {}
      BY DEF Snapshots
    <3>2. \E i \in Snapshots(f) : \A k \in Snapshots(f) : k <= i
      BY <1>b, <3>1, GreatestExists
    <3>. QED
      BY <3>1, <3>2 DEF Newest
  <2>1. T \subseteq 1..Len(history) /\ T \in SUBSET Nat
    BY <1>b, <2>0
  <2>. HIDE DEF T
  <2>2. j \in Jobs /\ j.snaps = T
    BY <2>1, NoJobType, JobTypes DEF NoJob
  <2>. HIDE DEF j
  <2>3. /\ Goto(p, "restore") /\ job' = [job EXCEPT ![p] = j] /\ history' = history
        /\ "restore" \in Pcs
    BY <1>1 DEF FindSnapshots, tables, Pcs, j, T
  <2>a. j.snaps \subseteq 1..Len(history')
    BY <2>1, <2>2, <2>3
  <2>4. pc' \in [Procs -> Pcs] /\ job' \in [Procs -> Jobs] /\ \A q \in Procs : InHand(q)'
    BY <1>e, <2>2, <2>3, <2>a, LocalTypes
  <2>. QED
    BY <1>1, <2>4 DEF FindSnapshots, TypeOK, tree, tables, used, ghosts
<1>2. CASE Restore(p)
  <2>1. CASE Stop(p) /\ UNCHANGED <<ledger, shown>>
    <3>1. pc' \in [Procs -> Pcs] /\ job' \in [Procs -> Jobs] /\ \A q \in Procs : InHand(q)'
      BY <1>2, <2>1, StopTypes DEF Restore
    <3>. QED
      BY <1>2, <2>1, <3>1 DEF Restore, TypeOK, tree, used
  <2>2. ASSUME NEW i \in job[p].snaps,
               Put(history[i].file, [ledger[history[i].file] EXCEPT !.sha = history[i].sha,
                     !.asha = history[i].sha, !.asql = history[i].sql]),
               job' = [job EXCEPT ![p] = [job[p] EXCEPT !.snap = i]], Goto(p, "undone")
        PROVE  TypeOK'
    <3>. DEFINE h == history[i]
                r == [ledger[h.file] EXCEPT !.sha = h.sha, !.asha = h.sha, !.asql = h.sql]
                j == [job[p] EXCEPT !.snap = i]
    <3>1. i \in 1..Len(history) /\ i \in Nat
      BY <1>a, <1>b DEF InHand
    <3>2. h.file \in Files /\ h.sha \in Contents /\ h.sql \in Contents
      BY <1>b, <3>1 DEF Entries
    <3>3. ledger[h.file] \in Rows
      BY <3>2 DEF TypeOK
    <3>4. r \in Rows
      BY <3>2, <3>3, RowTypes
    <3>5. Put(h.file, r)
      BY <2>2
    <3>6. j \in Jobs /\ j.snaps = job[p].snaps /\ j.snap = i
      BY <1>a, <3>1, JobTypes DEF Jobs
    <3>7. "undone" \in Pcs /\ history' = history /\ j.snaps \subseteq 1..Len(history')
      BY <1>2, <1>a, <3>6 DEF Pcs, Restore, InHand
    <3>8. job' = [job EXCEPT ![p] = j]
      BY <2>2
    <3>11. j.snap \in 1..Len(history')
      BY <3>1, <3>6, <3>7
    <3>. HIDE DEF r, j, h
    <3>9. ledger' \in [Files -> Rows] /\ shown' \subseteq Files \X ContentPairs
      BY <3>2, <3>4, <3>5, PutTypes
    <3>10. pc' \in [Procs -> Pcs] /\ job' \in [Procs -> Jobs] /\ \A q \in Procs : InHand(q)'
      BY <1>e, <2>2, <3>6, <3>7, <3>8, <3>11, LocalTypes
    <3>. QED
      BY <1>2, <3>9, <3>10 DEF Restore, TypeOK, tree, used
  <2>. QED
    BY <1>2, <2>1, <2>2 DEF Restore
<1>3. CASE RecordUndo(p)
  <2>. DEFINE h == history[job[p].snap]
              c == [sha |-> h.sha, sql |-> h.sql]
              T == job[p].snaps \ {job[p].snap}
              j == [NoJob EXCEPT !.snaps = T]
  <2>1. h \in Entries
    BY <1>3, <1>a, <1>b DEF RecordUndo, InHand
  <2>2. h.file \in Files /\ c \in ContentPairs
    BY <2>1 DEF Entries, ContentPairs
  <2>3. Append1(h.file, "rebase_undo", c) /\ Goto(p, "restore") /\ job' = [job EXCEPT ![p] = j]
    BY <1>3 DEF RecordUndo
  <2>4. T \subseteq 1..Len(history) /\ T \in SUBSET Nat
    BY <1>a, <1>b DEF InHand
  <2>5. j \in Jobs /\ j.snaps = T /\ "restore" \in Pcs
    BY <2>4, NoJobType, JobTypes DEF NoJob, Pcs
  <2>. HIDE DEF j, T, c, h
  <2>6. history' \in Seq(Entries) /\ Len(history') = Len(history) + 1
    BY <2>2, <2>3, AppendTypes
  <2>7. j.snaps \subseteq 1..Len(history') /\ Len(history') >= Len(history)
    BY <1>b, <2>4, <2>5, <2>6
  <2>8. pc' \in [Procs -> Pcs] /\ job' \in [Procs -> Jobs] /\ \A q \in Procs : InHand(q)'
    BY <2>3, <2>5, <2>6, <2>7, LocalTypes
  <2>. QED
    BY <1>3, <2>6, <2>8 DEF RecordUndo, TypeOK, tree, used, ghosts
<1>. QED
  BY <1>1, <1>2, <1>3 DEF Undo
\* The steps of a prune.
LEMMA TypesPrune ==
  ASSUME TypeOK, NEW p \in Procs, Prune(p)
  PROVE  TypeOK'
<1>a. job[p] \in Jobs /\ InHand(p)
  BY DEF TypeOK
<1>b. history \in Seq(Entries) /\ Len(history) \in Nat
  BY DEF TypeOK
<1>c. job[p].files \in SUBSET Files /\ job[p].orphans \in SUBSET Files /\ job[p].seen \in SUBSET Files
  BY <1>a, JobFields
<1>e. ASSUME history' = history PROVE history' \in Seq(Entries) /\ Len(history') >= Len(history)
  BY <1>b, <1>e
<1>1. CASE ListTree(p)
  <2>. DEFINE j == [job[p] EXCEPT !.seen = Tree, !.inactive = inactive]
  <2>1. Tree \in SUBSET Files /\ inactive \in SUBSET Files
    BY DEF Tree, OnDisk, TypeOK
  <2>2. j \in Jobs /\ j.snaps = job[p].snaps
    BY <1>a, <2>1, JobTypes DEF Jobs
  <2>3. Goto(p, "rows") /\ job' = [job EXCEPT ![p] = j] /\ history' = history /\ "rows" \in Pcs
    BY <1>1 DEF ListTree, tables, Pcs
  <2>. HIDE DEF j
  <2>4. j.snaps \subseteq 1..Len(history')
    BY <1>a, <2>2, <2>3 DEF InHand
  <2>5. pc' \in [Procs -> Pcs] /\ job' \in [Procs -> Jobs] /\ \A q \in Procs : InHand(q)'
    BY <1>e, <2>2, <2>3, <2>4, LocalTypes
  <2>. QED
    BY <1>1, <2>5 DEF ListTree, TypeOK, tree, tables, used, ghosts
<1>2. CASE ReadRows(p)
  <2>1. PICK T \in SUBSET Files, S \in SUBSET Files :
               /\ job' = [job EXCEPT ![p] = [NoJob EXCEPT !.files = S, !.orphans = T]]
               /\ Goto(p, IF T = {} THEN "hash" ELSE "fold")
    <3>. DEFINE T == {f \in job[p].files : /\ ledger[f].state \in {"applied", "pending"}
                                           /\ Orphaned(f, job[p].seen, job[p].inactive)}
                S == ToMirror(job[p].files \cap job[p].seen)
    <3>1. T \in SUBSET Files /\ S \in SUBSET Files
      BY <1>c DEF ToMirror
    <3>. QED
      BY <1>2, <3>1 DEF ReadRows
  <2>. DEFINE j == [NoJob EXCEPT !.files = S, !.orphans = T]
              l == IF T = {} THEN "hash" ELSE "fold"
  <2>2. j \in Jobs /\ j.snaps = {} /\ j.orphans = T
    BY NoJobType, JobTypes DEF NoJob
  <2>3. l \in Pcs /\ l \in {"hash", "fold"} /\ history' = history /\ (l \in {"fold", "folded"} => T # {})
    BY <1>2 DEF ReadRows, tables, Pcs
  <2>4. Goto(p, l) /\ job' = [job EXCEPT ![p] = j]
    BY <2>1
  <2>. HIDE DEF j, l
  <2>5. j.snaps \subseteq 1..Len(history') /\ (l \in {"fold", "folded"} => j.orphans # {})
    BY <2>2, <2>3
  <2>6. l \notin {"body", "row", "register", "note", "save", "write"} /\ l # "undone"
    BY <2>3
  <2>7. pc' \in [Procs -> Pcs] /\ job' \in [Procs -> Jobs] /\ \A q \in Procs : InHand(q)'
    BY <1>e, <2>2, <2>3, <2>4, <2>5, <2>6, LocalTypes
  <2>. QED
    BY <1>2, <2>7 DEF ReadRows, TypeOK, tree, tables, used, ghosts
<1>3. CASE Fold(p)
  <2>. DEFINE f == Least(job[p].orphans)
  <2>1. job[p].orphans # {}
    BY <1>3, <1>a DEF Fold, InHand
  <2>2. f \in Files
    BY <1>c, <2>1, LeastFile
  <2>3. [ledger[f] EXCEPT !.state = "folded"] \in Rows
    BY <2>2, RowTypes DEF TypeOK, States
  <2>4. Put(f, [ledger[f] EXCEPT !.state = "folded"])
    BY <1>3 DEF Fold
  <2>. HIDE DEF f
  <2>5. ledger' \in [Files -> Rows] /\ shown' \subseteq Files \X ContentPairs
    BY <2>2, <2>3, <2>4, PutTypes
  <2>6. /\ Goto(p, "folded") /\ job' = [job EXCEPT ![p] = job[p]] /\ history' = history
        /\ "folded" \in Pcs
    BY <1>3 DEF Fold, TypeOK, Pcs
  <2>7. job[p].snaps \subseteq 1..Len(history')
    BY <1>a, <2>6 DEF InHand
  <2>8. pc' \in [Procs -> Pcs] /\ job' \in [Procs -> Jobs] /\ \A q \in Procs : InHand(q)'
    BY <1>a, <1>e, <2>1, <2>6, <2>7, LocalTypes
  <2>. QED
    BY <1>3, <2>5, <2>8 DEF Fold, TypeOK, tree, used
<1>4. CASE RecordFold(p)
  <2>. DEFINE f == Least(job[p].orphans)
              rest == job[p].orphans \ {f}
              j == [job[p] EXCEPT !.orphans = rest]
              l == IF rest = {} THEN "hash" ELSE "fold"
  <2>1. job[p].orphans # {}
    BY <1>4, <1>a DEF RecordFold, InHand
  <2>2. f \in Files
    BY <1>c, <2>1, LeastFile
  <2>3. NoContent \in ContentPairs /\ Append1(f, "fold", NoContent)
    BY <1>4 DEF RecordFold, NoContent, ContentPairs, Contents
  <2>4. Goto(p, l) /\ job' = [job EXCEPT ![p] = j]
    BY <1>4 DEF RecordFold
  <2>5. j \in Jobs /\ j.snaps = job[p].snaps /\ j.orphans = rest
    BY <1>a, <1>c, JobTypes DEF Jobs
  <2>6. l \in Pcs /\ l \in {"hash", "fold"} /\ (l \in {"fold", "folded"} => rest # {})
    BY DEF Pcs
  <2>. HIDE DEF f, j, l, rest
  <2>7. history' \in Seq(Entries) /\ Len(history') = Len(history) + 1
    BY <2>2, <2>3, AppendTypes
  <2>8. j.snaps \subseteq 1..Len(history') /\ Len(history') >= Len(history)
    BY <1>a, <1>b, <2>5, <2>7 DEF InHand
  <2>9. /\ l \notin {"body", "row", "register", "note", "save", "write"} /\ l # "undone"
        /\ (l \in {"fold", "folded"} => j.orphans # {})
    BY <2>5, <2>6
  <2>10. pc' \in [Procs -> Pcs] /\ job' \in [Procs -> Jobs] /\ \A q \in Procs : InHand(q)'
    BY <2>4, <2>5, <2>6, <2>7, <2>8, <2>9, LocalTypes
  <2>. QED
    BY <1>4, <2>7, <2>10 DEF RecordFold, TypeOK, tree, used, ghosts
<1>. QED
  BY <1>1, <1>2, <1>3, <1>4 DEF Prune

LEMMA TypesNext == TypeOK /\ [Next]_vars => TypeOK'
<1>. SUFFICES ASSUME TypeOK, [Next]_vars PROVE TypeOK'
  OBVIOUS
<1>1. CASE UNCHANGED vars
  BY <1>1 DEF vars, tree, tables, used, ghosts, TypeOK, InHand
<1>. QED
  BY <1>1, TypesAround, TypesBegin, TypesMirror, TypesUndo, TypesPrune DEF Next

\* Every variable keeps its type: whatever comes between two statements of
\* rebaseCmd, a command has in hand the file, snapshot or orphan it goes on with.
THEOREM RebaseTypes == Spec => []TypeOK
<1>. QED
  BY TypesInit, TypesNext, PTL DEF Spec
-----------------------------------------------------------------------------
(* Snapshots *)

\* A step of one command leaves the others where they are.
LEMMA OthersStay ==
  ASSUME TypeOK, NEW p \in Procs,
         Begin(p) \/ Mirror(p) \/ Undo(p) \/ Prune(p) \/ Abort(p),
         NEW q \in Procs, q # p
  PROVE  pc'[q] = pc[q] /\ job'[q] = job[q]
<1>1. CASE Begin(p) \/ Abort(p)
  BY <1>1 DEF Begin, StartMirror, StartUndo, StartUndoId, StartPrune, Start, Abort, Stop, Goto, TypeOK
<1>2. CASE HashFile(p) \/ ReadBody(p) \/ ReadRow(p) \/ Register(p)
  BY <1>2 DEF HashFile, ReadBody, ReadRow, Register, NextFile, Stop, Goto, TypeOK
<1>3. CASE Note(p) \/ Save(p) \/ Overwrite(p)
  BY <1>3 DEF Note, Save, Overwrite, NextFile, Goto, TypeOK
<1>4. CASE Undo(p)
  BY <1>4 DEF Undo, FindSnapshots, Restore, RecordUndo, Stop, Goto, TypeOK
<1>5. CASE Prune(p)
  BY <1>5 DEF Prune, ListTree, ReadRows, Fold, RecordFold, Goto, TypeOK
<1>. QED
  BY <1>1, <1>2, <1>3, <1>4, <1>5 DEF Mirror

\* Every row shows a content that was shown, and so does every command that is
\* about to write a snapshot: what it read may be gone from the row, but it was there.
RowsShown == \A f \in Files : ledger[f].state # "none" => <<f, Content(ledger[f])>> \in shown
HeldShown(p) ==
  /\ pc[p] = "save" => <<job[p].file, job[p].prior>> \in shown
  /\ pc[p] = "note" => <<job[p].file, [sha |-> job[p].sha, sql |-> job[p].sql]>> \in shown
ShownInv == TypeOK /\ SnapshotsWereShown /\ RowsShown /\ \A p \in Procs : HeldShown(p)

LEMMA PutShown ==
  ASSUME TypeOK, RowsShown, NEW f \in Files, NEW r, Put(f, r)
  PROVE  RowsShown' /\ shown \subseteq shown' /\ <<f, Content(r)>> \in shown'
<1>1. ledger' = [ledger EXCEPT ![f] = r] /\ shown' = shown \cup {<<f, Content(r)>>}
  BY DEF Put
<1>2. ASSUME NEW g \in Files, ledger'[g].state # "none"
      PROVE  <<g, Content(ledger'[g])>> \in shown'
  <2>1. CASE g = f
    BY <1>1, <2>1 DEF TypeOK
  <2>2. CASE g # f
    BY <1>1, <1>2, <2>2 DEF TypeOK, RowsShown
  <2>. QED
    BY <2>1, <2>2
<1>3. \A g \in Files : ledger'[g].state # "none" => <<g, Content(ledger'[g])>> \in shown'
  BY <1>2
<1>. QED
  BY <1>1, <1>3 DEF RowsShown, Content

LEMMA AppendShown ==
  ASSUME TypeOK, SnapshotsWereShown, NEW f, NEW kind, NEW c, Append1(f, kind, c),
         shown \subseteq shown',
         kind = "rebase" => <<f, [sha |-> c.sha, sql |-> c.sql]>> \in shown'
  PROVE  SnapshotsWereShown'
<1>. DEFINE e == Entry(f, kind, c)
<1>1. /\ history' = Append(history, e) /\ history \in Seq(Entries)
      /\ e.kind = kind /\ e.file = f /\ e.sha = c.sha /\ e.sql = c.sql
  BY DEF Append1, TypeOK, Entry
<1>. HIDE DEF e
<1>2. ASSUME NEW i \in 1..Len(history'), history'[i].kind = "rebase"
      PROVE  <<history'[i].file, [sha |-> history'[i].sha, sql |-> history'[i].sql]>> \in shown'
  <2>1. CASE i = Len(history) + 1
    BY <1>1, <1>2, <2>1
  <2>2. CASE i # Len(history) + 1
    <3>1. i \in 1..Len(history) /\ history'[i] = history[i]
      BY <1>1, <2>2
    <3>. QED
      BY <1>2, <3>1 DEF SnapshotsWereShown
  <2>. QED
    BY <2>1, <2>2
<1>. QED
  BY <1>2 DEF SnapshotsWereShown

\* Commands that write no snapshot next have nothing to show.
LEMMA HeldStays ==
  ASSUME ShownInv, NEW p \in Procs, HeldShown(p)', shown \subseteq shown',
         \A q \in Procs : q # p => pc'[q] = pc[q] /\ job'[q] = job[q]
  PROVE  \A q \in Procs : HeldShown(q)'
<1>1. ASSUME NEW q \in Procs, q # p PROVE HeldShown(q)'
  BY <1>1 DEF ShownInv, HeldShown
<1>. QED
  BY <1>1
LEMMA ShownInit == Init => ShownInv
<1>. SUFFICES ASSUME Init PROVE ShownInv
  OBVIOUS
<1>1. TypeOK
  BY TypesInit
<1>2. SnapshotsWereShown /\ RowsShown
  BY DEF Init, SnapshotsWereShown, RowsShown, NoRow
<1>3. \A p \in Procs : HeldShown(p)
  BY DEF Init, HeldShown
<1>. QED
  BY <1>1, <1>2, <1>3 DEF ShownInv

\* Steps that write no table.
LEMMA ShownReads ==
  ASSUME ShownInv, [Next]_vars, UNCHANGED <<tables, shown>>
  PROVE  SnapshotsWereShown' /\ RowsShown'
BY DEF ShownInv, SnapshotsWereShown, RowsShown, tables, Content

LEMMA ShownMirror ==
  ASSUME ShownInv, NEW p \in Procs, Mirror(p)
  PROVE  SnapshotsWereShown' /\ RowsShown' /\ HeldShown(p)' /\ shown \subseteq shown'
<1>. DEFINE f == job[p].file
            new == [state |-> "applied", sha |-> job[p].sha, asha |-> job[p].sha, asql |-> job[p].sql]
<1>a. /\ TypeOK /\ SnapshotsWereShown /\ RowsShown /\ HeldShown(p)
      /\ job[p] \in Jobs /\ InHand(p) /\ job[p].prior \in ContentPairs
  BY JobFields DEF ShownInv, TypeOK
<1>b. Content(new) = [sha |-> job[p].sha, sql |-> job[p].sql]
  BY DEF Content
<1>1. CASE HashFile(p) \/ ReadBody(p)
  <2>1. UNCHANGED <<tables, shown>> /\ pc'[p] \in {"idle", "body", "row"}
    BY <1>1, <1>a DEF HashFile, ReadBody, Stop, Goto, TypeOK, ghosts
  <2>. QED
    BY <1>1, <2>1, ShownReads DEF HeldShown, Next, Mirror
<1>2. CASE ReadRow(p)
  <2>1. UNCHANGED <<tables, shown>>
    BY <1>2 DEF ReadRow, ghosts
  <2>2. f \in Files
    BY <1>2, <1>a DEF ReadRow, InHand
  <2>3. CASE pc'[p] \in {"register", "hash"}
    BY <1>2, <2>1, <2>3, ShownReads DEF HeldShown, Next, Mirror
  <2>4. CASE ledger[f].state # "none" /\ job' = [job EXCEPT ![p] = [job[p] EXCEPT !.prior = Prior(ledger[f])]]
             /\ Goto(p, "save")
    <3>1. <<f, Content(ledger[f])>> \in shown
      BY <1>a, <2>2, <2>4 DEF RowsShown
    <3>2. job'[p].file = f /\ job'[p].prior = Content(ledger[f]) /\ pc'[p] = "save"
      BY <1>a, <2>4 DEF Goto, TypeOK, Jobs, Prior
    <3>. QED
      BY <1>2, <2>1, <3>1, <3>2, ShownReads DEF HeldShown, Next, Mirror
  <2>. QED
    BY <1>2, <1>a, <2>3, <2>4 DEF ReadRow, NextFile, Goto, TypeOK
<1>3. CASE Register(p)
  <2>1. f \in Files /\ history' = history
    BY <1>3, <1>a DEF Register, InHand
  <2>2. CASE Stop(p) /\ UNCHANGED <<ledger, shown, before>>
    <3>1. UNCHANGED <<tables, shown>> /\ pc'[p] = "idle"
      BY <1>a, <2>1, <2>2 DEF Stop, Goto, TypeOK, tables
    <3>. QED
      BY <1>3, <3>1, ShownReads DEF HeldShown, Next, Mirror
  <2>3. CASE Put(f, new) /\ Goto(p, "note") /\ UNCHANGED job
    <3>1. RowsShown' /\ shown \subseteq shown' /\ <<f, Content(new)>> \in shown'
      BY <1>a, <2>1, <2>3, PutShown
    <3>2. pc'[p] = "note" /\ job' = job
      BY <1>a, <2>3 DEF Goto, TypeOK
    <3>3. HeldShown(p)'
      BY <1>b, <3>1, <3>2 DEF HeldShown
    <3>4. SnapshotsWereShown'
      BY <1>a, <2>1, <3>1 DEF SnapshotsWereShown
    <3>. QED
      BY <3>1, <3>3, <3>4
  <2>. QED
    BY <1>3, <2>2, <2>3 DEF Register
<1>4. CASE Note(p)
  <2>. DEFINE c == [sha |-> job[p].sha, sql |-> job[p].sql]
  <2>1. Append1(f, "rebase", c) /\ ledger' = ledger /\ shown' = shown /\ pc'[p] = "hash"
    BY <1>4, <1>a DEF Note, NextFile, Goto, TypeOK, ghosts
  <2>2. <<f, [sha |-> c.sha, sql |-> c.sql]>> \in shown'
    BY <1>4, <1>a, <2>1 DEF Note, HeldShown
  <2>. HIDE DEF c, f
  <2>3. SnapshotsWereShown'
    BY <1>a, <2>1, <2>2, AppendShown
  <2>. QED
    BY <1>a, <2>1, <2>3 DEF RowsShown, HeldShown, Content
<1>5. CASE Save(p)
  <2>. DEFINE c == job[p].prior
  <2>1. Append1(f, "rebase", c) /\ ledger' = ledger /\ shown' = shown /\ pc'[p] = "write"
    BY <1>5, <1>a DEF Save, Goto, TypeOK, ghosts
  <2>2. <<f, [sha |-> c.sha, sql |-> c.sql]>> \in shown'
    <3>1. c = [sha |-> c.sha, sql |-> c.sql]
      BY <1>a DEF ContentPairs
    <3>. QED
      BY <1>5, <1>a, <2>1, <3>1 DEF Save, HeldShown
  <2>. HIDE DEF c, f
  <2>3. SnapshotsWereShown'
    BY <1>a, <2>1, <2>2, AppendShown
  <2>. QED
    BY <1>a, <2>1, <2>3 DEF RowsShown, HeldShown, Content
<1>6. CASE Overwrite(p)
  <2>1. f \in Files /\ history' = history /\ Put(f, new) /\ pc'[p] = "hash"
    BY <1>6, <1>a DEF Overwrite, InHand, NextFile, Goto, TypeOK
  <2>. HIDE DEF new, f
  <2>2. RowsShown' /\ shown \subseteq shown'
    BY <1>a, <2>1, PutShown
  <2>3. SnapshotsWereShown'
    BY <1>a, <2>1, <2>2 DEF SnapshotsWereShown
  <2>. QED
    BY <2>1, <2>2, <2>3 DEF HeldShown
<1>. QED
  BY <1>1, <1>2, <1>3, <1>4, <1>5, <1>6 DEF Mirror

LEMMA ShownRest ==
  ASSUME ShownInv, NEW p \in Procs, Begin(p) \/ Undo(p) \/ Prune(p) \/ Abort(p)
  PROVE  SnapshotsWereShown' /\ RowsShown' /\ HeldShown(p)' /\ shown \subseteq shown'
<1>a. /\ TypeOK /\ SnapshotsWereShown /\ RowsShown /\ InHand(p)
      /\ job[p] \in Jobs /\ history \in Seq(Entries)
  BY DEF ShownInv, TypeOK
<1>1. CASE Begin(p) \/ Abort(p)
  <2>1. UNCHANGED <<tables, shown>> /\ pc'[p] \notin {"save", "note"}
    BY <1>1, <1>a DEF Begin, StartMirror, StartUndo, StartUndoId, StartPrune, Start, Abort, Stop,
                      Goto, TypeOK, ghosts
  <2>. QED
    BY <1>1, <2>1, ShownReads DEF HeldShown, Next
<1>2. CASE FindSnapshots(p) \/ ListTree(p) \/ ReadRows(p)
  <2>1. UNCHANGED <<tables, shown>> /\ pc'[p] \notin {"save", "note"}
    BY <1>2, <1>a DEF FindSnapshots, ListTree, ReadRows, Goto, TypeOK, ghosts
  <2>. QED
    BY <1>2, <2>1, ShownReads DEF HeldShown, Next, Undo, Prune
<1>3. CASE RecordUndo(p) \/ RecordFold(p)
  <2>1. /\ ledger' = ledger /\ shown' = shown /\ pc'[p] \notin {"save", "note"}
        /\ \E f, c : Append1(f, "rebase_undo", c) \/ Append1(f, "fold", c)
    BY <1>3, <1>a DEF RecordUndo, RecordFold, Goto, TypeOK, ghosts
  <2>2. SnapshotsWereShown'
    BY <1>a, <2>1, AppendShown
  <2>. QED
    BY <1>a, <2>1, <2>2 DEF RowsShown, HeldShown, Content
<1>4. CASE Restore(p) /\ UNCHANGED <<ledger, shown>>
  <2>1. UNCHANGED <<tables, shown>> /\ pc'[p] \notin {"save", "note"}
    BY <1>4, <1>a DEF Restore, Stop, Goto, TypeOK, tables
  <2>. QED
    BY <1>4, <2>1, ShownReads DEF HeldShown, Next, Undo
<1>5. ASSUME NEW f \in Files, NEW r, Put(f, r), Restore(p) \/ Fold(p)
      PROVE  SnapshotsWereShown' /\ RowsShown' /\ HeldShown(p)' /\ shown \subseteq shown'
  <2>1. history' = history /\ pc'[p] \notin {"save", "note"}
    BY <1>5, <1>a DEF Restore, Fold, Stop, Goto, TypeOK
  <2>2. RowsShown' /\ shown \subseteq shown'
    BY <1>5, <1>a, PutShown
  <2>. QED
    BY <1>a, <2>1, <2>2 DEF SnapshotsWereShown, HeldShown
<1>6. CASE Restore(p)
  <2>1. ASSUME NEW i \in job[p].snaps PROVE history[i].file \in Files
    <3>1. i \in 1..Len(history)
      BY <1>a, <2>1 DEF InHand
    <3>2. history[i] \in Entries
      BY <1>a, <3>1
    <3>. QED
      BY <3>2 DEF Entries
  <2>. QED
    BY <1>4, <1>5, <1>6, <2>1 DEF Restore
<1>7. CASE Fold(p)
  <2>1. Least(job[p].orphans) \in Files
    BY <1>7, <1>a, JobFields, LeastFile DEF Fold, InHand
  <2>. QED
    BY <1>5, <1>7, <2>1 DEF Fold
<1>. QED
  BY <1>1, <1>2, <1>3, <1>6, <1>7 DEF Undo, Prune
LEMMA ShownNext == ShownInv /\ [Next]_vars => ShownInv'
<1>. SUFFICES ASSUME ShownInv, [Next]_vars PROVE ShownInv'
  OBVIOUS
<1>1. TypeOK'
  BY TypesNext DEF ShownInv
<1>2. CASE UNCHANGED vars
  <2>1. SnapshotsWereShown' /\ RowsShown'
    BY <1>2, ShownReads DEF vars, tables, ghosts
  <2>2. \A p \in Procs : HeldShown(p)'
    BY <1>2 DEF ShownInv, HeldShown, vars, ghosts
  <2>. QED
    BY <1>1, <2>1, <2>2 DEF ShownInv
<1>3. ASSUME NEW p \in Procs, Begin(p) \/ Mirror(p) \/ Undo(p) \/ Prune(p) \/ Abort(p)
      PROVE  ShownInv'
  <2>1. SnapshotsWereShown' /\ RowsShown' /\ HeldShown(p)' /\ shown \subseteq shown'
    BY <1>3, ShownMirror, ShownRest
  <2>2. \A q \in Procs : q # p => pc'[q] = pc[q] /\ job'[q] = job[q]
    BY <1>3, OthersStay DEF ShownInv
  <2>3. \A q \in Procs : HeldShown(q)'
    BY <2>1, <2>2, HeldStays
  <2>. QED
    BY <1>1, <2>1, <2>3 DEF ShownInv
<1>4. ASSUME NEW f \in Files, UpScans(f) \/ UpApplies(f) PROVE ShownInv'
  <2>1. \E r : Put(f, r)
    BY <1>4 DEF UpScans, UpApplies
  <2>2. RowsShown' /\ shown \subseteq shown'
    BY <2>1, PutShown DEF ShownInv
  <2>3. history' = history \/ \E c : Append1(f, "apply", c)
    BY <1>4 DEF UpScans, UpApplies
  <2>4. SnapshotsWereShown'
    <3>1. CASE history' = history
      BY <3>1, <2>2 DEF ShownInv, SnapshotsWereShown
    <3>2. CASE \E c : Append1(f, "apply", c)
      BY <3>2, <2>2, AppendShown DEF ShownInv
    <3>. QED
      BY <2>3, <3>1, <3>2
  <2>5. pc' = pc /\ job' = job
    BY <1>4 DEF UpScans, UpApplies
  <2>6. \A p \in Procs : HeldShown(p)'
    BY <2>2, <2>5 DEF ShownInv, HeldShown
  <2>. QED
    BY <1>1, <2>2, <2>4, <2>6 DEF ShownInv
<1>5. ASSUME NEW f \in Files, Switch(f) \/ \E b \in Bodies \cup {None} : Edit(f, b) PROVE ShownInv'
  <2>1. UNCHANGED <<tables, shown, pc, job>>
    BY <1>5 DEF Switch, Edit, ghosts
  <2>2. \A p \in Procs : HeldShown(p)'
    BY <2>1 DEF ShownInv, HeldShown
  <2>. QED
    BY <1>1, <2>1, <2>2, ShownReads DEF ShownInv
<1>. QED
  BY <1>2, <1>3, <1>4, <1>5 DEF Next

\* What runRebaseMirror saves for an undo is a content the row did show, sha and
\* body together, whatever other commands did to the row since it was read.
THEOREM SnapshotsAreWhole == Spec => []SnapshotsWereShown
<1>1. ShownInv => SnapshotsWereShown
  BY DEF ShownInv
<1>. QED
  BY <1>1, ShownInit, ShownNext, PTL DEF Spec

-----------------------------------------------------------------------------
(* What a mirror declares *)

Growing == ran \subseteq ran' /\ declared \subseteq declared' /\ gone \subseteq gone'

LEMMA GhostsGrow == ASSUME [Next]_vars PROVE Growing
<1>1. CASE UNCHANGED vars
  BY <1>1 DEF vars, ghosts, Growing
<1>2. ASSUME NEW p \in Procs, Begin(p) \/ Mirror(p) \/ Undo(p) \/ Prune(p) \/ Abort(p)
      PROVE  Growing
  <2>1. CASE Begin(p) \/ Abort(p)
    BY <2>1 DEF Begin, StartMirror, StartUndo, StartUndoId, StartPrune, Start, Abort, ghosts, Growing
  <2>2. CASE Mirror(p)
    BY <2>2 DEF Mirror, HashFile, ReadBody, ReadRow, Register, Note, Save, Overwrite, ghosts, Growing
  <2>3. CASE Undo(p) \/ Prune(p)
    BY <2>3 DEF Undo, Prune, FindSnapshots, Restore, RecordUndo, ListTree, ReadRows, Fold,
                RecordFold, ghosts, Growing
  <2>. QED
    BY <1>2, <2>1, <2>2, <2>3
<1>3. ASSUME NEW f \in Files, Switch(f) \/ UpScans(f) \/ UpApplies(f)
                              \/ \E b \in Bodies \cup {None} : Edit(f, b)
      PROVE  Growing
  BY <1>3 DEF Switch, UpScans, UpApplies, Edit, ghosts, Growing
<1>. QED
  BY <1>1, <1>2, <1>3 DEF Next

\* A mirror holds only files that were run or declared, prune's included: those
\* were applied when it read the rows.
Mirroring == WithFile \cup {"hash", "fold", "folded"}
HeldAccounted(p) ==
  /\ pc[p] \in Mirroring => job[p].files \subseteq ran \cup declared
  /\ pc[p] \in WithFile => job[p].file \in ran \cup declared
AccountedInv == TypeOK /\ AppliedIsAccounted /\ \A p \in Procs : HeldAccounted(p)

\* A row that is written is accounted for if it was before, or if its file is.
LEMMA PutAccounted ==
  ASSUME TypeOK, AppliedIsAccounted, Growing, NEW f \in Files, NEW r, Put(f, r),
         r.state = "applied" => ledger[f].state = "applied" \/ f \in ran' \cup declared'
  PROVE  AppliedIsAccounted'
<1>1. ledger' = [ledger EXCEPT ![f] = r]
  BY DEF Put
<1>2. ASSUME NEW g \in Files, ledger'[g].state = "applied" PROVE g \in ran' \cup declared'
  <2>1. CASE g = f
    BY <1>1, <1>2, <2>1 DEF TypeOK, AppliedIsAccounted, Growing
  <2>2. CASE g # f
    BY <1>1, <1>2, <2>2 DEF TypeOK, AppliedIsAccounted, Growing
  <2>. QED
    BY <2>1, <2>2
<1>. QED
  BY <1>2 DEF AppliedIsAccounted

LEMMA KeptAccounted ==
  ASSUME AppliedIsAccounted, Growing, ledger' = ledger
  PROVE  AppliedIsAccounted'
BY DEF AppliedIsAccounted, Growing

\* The next file of a mirror.
LEMMA NextFileAccounted ==
  ASSUME AccountedInv, Growing, NEW p \in Procs, pc[p] \in Mirroring, NextFile(p, job[p].file)
  PROVE  HeldAccounted(p)'
<1>1. pc'[p] = "hash" /\ job'[p] = [NoJob EXCEPT !.files = job[p].files \ {job[p].file}]
  BY DEF NextFile, Goto, AccountedInv, TypeOK
<1>2. job'[p].files \subseteq job[p].files
  BY <1>1 DEF NoJob
<1>. QED
  BY <1>1, <1>2 DEF AccountedInv, HeldAccounted, Growing, WithFile
LEMMA AccountedMirror ==
  ASSUME AccountedInv, Growing, NEW p \in Procs, Mirror(p)
  PROVE  AppliedIsAccounted' /\ HeldAccounted(p)'
<1>. DEFINE f == job[p].file
            new == [state |-> "applied", sha |-> job[p].sha, asha |-> job[p].sha, asql |-> job[p].sql]
<1>a. /\ TypeOK /\ AppliedIsAccounted /\ HeldAccounted(p) /\ InHand(p)
      /\ job[p] \in Jobs /\ job[p].files \in SUBSET Files
  BY JobFields DEF AccountedInv, TypeOK
<1>b. ASSUME pc'[p] = "idle" PROVE HeldAccounted(p)'
  BY <1>b DEF HeldAccounted, Mirroring, WithFile
<1>c. ASSUME pc[p] \in WithFile, pc'[p] \in WithFile, job'[p].files = job[p].files, job'[p].file = f
      PROVE  HeldAccounted(p)'
  BY <1>a, <1>c DEF HeldAccounted, Mirroring, Growing
<1>1. CASE HashFile(p)
  <2>1. AppliedIsAccounted'
    BY <1>1, KeptAccounted DEF HashFile, tables, AccountedInv
  <2>2. CASE Stop(p)
    BY <1>a, <1>b, <2>1, <2>2 DEF Stop, Goto, TypeOK
  <2>3. CASE ~Stop(p)
    <3>1. /\ job[p].files # {} /\ pc[p] = "hash" /\ Goto(p, "body")
          /\ job' = [job EXCEPT ![p] = [job[p] EXCEPT !.file = Least(job[p].files),
                                                      !.sha = disk[Least(job[p].files)]]]
      BY <1>1, <1>a, <2>3 DEF HashFile, TypeOK
    <3>2. Least(job[p].files) \in job[p].files
      BY <1>a, <3>1, LeastFile
    <3>3. /\ pc'[p] = "body" /\ job'[p].files = job[p].files
          /\ job'[p].file = Least(job[p].files)
      BY <1>a, <3>1 DEF Goto, TypeOK, Jobs
    <3>. QED
      BY <1>a, <2>1, <3>1, <3>2, <3>3 DEF HeldAccounted, Mirroring, Growing
  <2>. QED
    BY <2>2, <2>3
<1>2. CASE ReadBody(p)
  <2>1. AppliedIsAccounted' /\ pc[p] = "body"
    BY <1>2, KeptAccounted DEF ReadBody, tables, AccountedInv
  <2>2. CASE Stop(p)
    BY <1>a, <1>b, <2>1, <2>2 DEF Stop, Goto, TypeOK
  <2>3. CASE ~Stop(p)
    <3>1. Goto(p, "row") /\ job' = [job EXCEPT ![p] = [job[p] EXCEPT !.sql = disk[f]]]
      BY <1>2, <1>a, <2>3 DEF ReadBody, TypeOK
    <3>2. pc'[p] = "row" /\ job'[p].files = job[p].files /\ job'[p].file = f
      BY <1>a, <3>1 DEF Goto, TypeOK, Jobs
    <3>. QED
      BY <1>c, <2>1, <3>2 DEF WithFile
  <2>. QED
    BY <2>2, <2>3
<1>3. CASE ReadRow(p)
  <2>1. AppliedIsAccounted' /\ pc[p] = "row" /\ pc[p] \in Mirroring
    BY <1>3, KeptAccounted DEF ReadRow, tables, AccountedInv, Mirroring, WithFile
  <2>2. CASE NextFile(p, f)
    BY <2>1, <2>2, NextFileAccounted
  <2>3. CASE ~NextFile(p, f)
    <3>1. pc'[p] \in {"register", "save"} /\ job'[p].files = job[p].files /\ job'[p].file = f
      BY <1>3, <1>a, <2>3 DEF ReadRow, Goto, TypeOK, Jobs
    <3>. QED
      BY <1>c, <2>1, <3>1 DEF WithFile
  <2>. QED
    BY <2>2, <2>3
<1>4. CASE Register(p)
  <2>1. f \in Files /\ pc[p] = "register"
    BY <1>4, <1>a DEF Register, InHand
  <2>2. CASE Stop(p) /\ ledger' = ledger
    BY <1>a, <1>b, <2>2, KeptAccounted DEF Stop, Goto, TypeOK
  <2>3. CASE Put(f, new) /\ Goto(p, "note") /\ UNCHANGED job
    <3>1. pc'[p] = "note" /\ job'[p].files = job[p].files /\ job'[p].file = f
      BY <1>a, <2>3 DEF Goto, TypeOK
    <3>2. f \in ran' \cup declared'
      BY <1>a, <2>1 DEF HeldAccounted, WithFile, Growing
    <3>3. AppliedIsAccounted'
      BY <1>a, <2>1, <2>3, <3>2, PutAccounted
    <3>. QED
      BY <1>c, <2>1, <3>1, <3>3 DEF WithFile
  <2>. QED
    BY <1>4, <2>2, <2>3 DEF Register
<1>5. CASE Note(p)
  <2>1. AppliedIsAccounted' /\ NextFile(p, f) /\ pc[p] \in Mirroring
    BY <1>5, KeptAccounted DEF Note, AccountedInv, Mirroring, WithFile
  <2>. QED
    BY <2>1, NextFileAccounted
<1>6. CASE Save(p)
  <2>1. /\ AppliedIsAccounted' /\ pc[p] = "save" /\ pc'[p] = "write"
        /\ job'[p].files = job[p].files /\ job'[p].file = f
    BY <1>6, <1>a, KeptAccounted DEF Save, Goto, AccountedInv, TypeOK
  <2>. QED
    BY <1>c, <2>1 DEF WithFile
<1>7. CASE Overwrite(p)
  <2>1. f \in Files /\ pc[p] = "write" /\ pc[p] \in Mirroring /\ Put(f, new) /\ NextFile(p, f)
    BY <1>7, <1>a DEF Overwrite, InHand, Mirroring, WithFile
  <2>2. f \in ran' \cup declared'
    BY <1>a, <2>1 DEF HeldAccounted, WithFile, Growing
  <2>3. AppliedIsAccounted'
    BY <1>a, <2>1, <2>2, PutAccounted
  <2>. QED
    BY <2>1, <2>3, NextFileAccounted
<1>. QED
  BY <1>1, <1>2, <1>3, <1>4, <1>5, <1>6, <1>7 DEF Mirror

LEMMA AccountedRest ==
  ASSUME AccountedInv, Growing, NEW p \in Procs, Begin(p) \/ Undo(p) \/ Prune(p) \/ Abort(p)
  PROVE  AppliedIsAccounted' /\ HeldAccounted(p)'
<1>a. /\ TypeOK /\ AppliedIsAccounted /\ HeldAccounted(p) /\ InHand(p)
      /\ job[p] \in Jobs /\ history \in Seq(Entries)
  BY DEF AccountedInv, TypeOK
<1>b. ASSUME pc'[p] \notin Mirroring PROVE HeldAccounted(p)'
  BY <1>b DEF HeldAccounted, Mirroring
<1>1. CASE Begin(p)
  <2>1. AppliedIsAccounted'
    BY <1>1, KeptAccounted DEF Begin, StartMirror, StartUndo, StartUndoId, StartPrune, Start,
                               tables, AccountedInv
  <2>2. CASE StartMirror(p)
    <3>1. PICK S \in SUBSET Files : Start(p, "hash", S, {}) /\ declared' = declared \cup S
      BY <2>2 DEF StartMirror
    <3>2. pc'[p] = "hash" /\ job'[p].files = S
      BY <1>a, <3>1 DEF Start, Goto, TypeOK, NoJob
    <3>. QED
      BY <2>1, <3>1, <3>2 DEF HeldAccounted, WithFile
  <2>3. CASE ~StartMirror(p)
    <3>1. pc'[p] \in {"find", "restore", "tree"}
      BY <1>1, <1>a, <2>3 DEF Begin, StartUndo, StartUndoId, StartPrune, Start, Goto, TypeOK
    <3>. QED
      BY <1>b, <2>1, <3>1 DEF Mirroring, WithFile
  <2>. QED
    BY <2>2, <2>3
<1>2. CASE Abort(p)
  <2>1. pc'[p] = "idle" /\ AppliedIsAccounted'
    BY <1>2, <1>a, KeptAccounted DEF Abort, Stop, Goto, TypeOK, tables
  <2>. QED
    BY <1>b, <2>1 DEF Mirroring, WithFile
<1>3. CASE FindSnapshots(p) \/ RecordUndo(p) \/ ListTree(p)
  <2>1. pc'[p] \in {"restore", "rows"} /\ AppliedIsAccounted'
    BY <1>3, <1>a, KeptAccounted DEF FindSnapshots, RecordUndo, ListTree, Goto, TypeOK, tables
  <2>. QED
    BY <1>b, <2>1 DEF Mirroring, WithFile
<1>4. CASE Restore(p)
  <2>1. pc'[p] \in {"idle", "undone"} /\ HeldAccounted(p)'
    <3>1. pc'[p] \in {"idle", "undone"}
      BY <1>4, <1>a DEF Restore, Stop, Goto, TypeOK
    <3>. QED
      BY <1>b, <3>1 DEF Mirroring, WithFile
  <2>2. CASE ledger' = ledger
    BY <1>a, <2>1, <2>2, KeptAccounted
  <2>3. ASSUME NEW i \in job[p].snaps,
               Put(history[i].file, [ledger[history[i].file] EXCEPT !.sha = history[i].sha,
                     !.asha = history[i].sha, !.asql = history[i].sql])
        PROVE  AppliedIsAccounted'
    <3>. DEFINE g == history[i].file
                r == [ledger[g] EXCEPT !.sha = history[i].sha, !.asha = history[i].sha,
                                       !.asql = history[i].sql]
    <3>1. i \in 1..Len(history)
      BY <1>a DEF InHand
    <3>2. history[i] \in Entries
      BY <1>a, <3>1
    <3>3. g \in Files
      BY <3>2 DEF Entries
    <3>4. r.state = ledger[g].state /\ Put(g, r)
      BY <2>3, <3>3 DEF TypeOK, Rows
    <3>. HIDE DEF g, r
    <3>. QED
      BY <1>a, <3>3, <3>4, PutAccounted
  <2>. QED
    BY <1>4, <2>1, <2>2, <2>3 DEF Restore
<1>5. CASE ReadRows(p)
  <2>1. AppliedIsAccounted'
    BY <1>5, <1>a, KeptAccounted DEF ReadRows, tables
  <2>2. \A g \in ToMirror(job[p].files \cap job[p].seen) : g \in ran \cup declared
    BY <1>a, JobFields DEF ToMirror, AppliedIsAccounted
  <2>3. /\ pc'[p] \in {"hash", "fold"}
        /\ job'[p].files = ToMirror(job[p].files \cap job[p].seen)
    BY <1>5, <1>a DEF ReadRows, Goto, TypeOK, NoJob
  <2>. QED
    BY <2>1, <2>2, <2>3 DEF HeldAccounted, WithFile, Growing
<1>6. CASE Fold(p)
  <2>. DEFINE g == Least(job[p].orphans)
  <2>1. g \in Files
    BY <1>6, <1>a, JobFields, LeastFile DEF Fold, InHand
  <2>2. Put(g, [ledger[g] EXCEPT !.state = "folded"]) /\ pc[p] = "fold"
    BY <1>6 DEF Fold
  <2>3. [ledger[g] EXCEPT !.state = "folded"].state # "applied"
    BY <2>1 DEF TypeOK, Rows
  <2>. HIDE DEF g
  <2>4. AppliedIsAccounted'
    BY <1>a, <2>1, <2>2, <2>3, PutAccounted
  <2>5. pc'[p] = "folded" /\ job'[p].files = job[p].files
    BY <1>6, <1>a DEF Fold, Goto, TypeOK
  <2>. QED
    BY <1>a, <2>2, <2>4, <2>5 DEF HeldAccounted, Mirroring, WithFile, Growing
<1>7. CASE RecordFold(p)
  <2>1. AppliedIsAccounted' /\ pc[p] = "folded"
    BY <1>7, <1>a, KeptAccounted DEF RecordFold
  <2>2. pc'[p] \in {"hash", "fold"} /\ job'[p].files = job[p].files
    BY <1>7, <1>a DEF RecordFold, Goto, TypeOK, Jobs
  <2>. QED
    BY <1>a, <2>1, <2>2 DEF HeldAccounted, Mirroring, WithFile, Growing
<1>. QED
  BY <1>1, <1>2, <1>3, <1>4, <1>5, <1>6, <1>7 DEF Undo, Prune

LEMMA AccountedInit == Init => AccountedInv
<1>. SUFFICES ASSUME Init PROVE AccountedInv
  OBVIOUS
<1>1. AppliedIsAccounted /\ \A p \in Procs : HeldAccounted(p)
  BY DEF Init, AppliedIsAccounted, HeldAccounted, Mirroring, WithFile, NoRow
<1>. QED
  BY <1>1, TypesInit DEF AccountedInv

LEMMA AccountedNext == AccountedInv /\ [Next]_vars => AccountedInv'
<1>. SUFFICES ASSUME AccountedInv, [Next]_vars PROVE AccountedInv'
  OBVIOUS
<1>1. TypeOK' /\ Growing
  BY TypesNext, GhostsGrow DEF AccountedInv
<1>2. ASSUME pc' = pc, job' = job PROVE \A p \in Procs : HeldAccounted(p)'
  BY <1>1, <1>2 DEF AccountedInv, HeldAccounted, Growing
<1>3. CASE UNCHANGED vars \/ \E f \in Files : Switch(f) \/ \E b \in Bodies \cup {None} : Edit(f, b)
  <2>1. ledger' = ledger /\ pc' = pc /\ job' = job
    BY <1>3 DEF vars, tables, Switch, Edit
  <2>. QED
    BY <1>1, <1>2, <2>1, KeptAccounted DEF AccountedInv
<1>4. ASSUME NEW p \in Procs, Begin(p) \/ Mirror(p) \/ Undo(p) \/ Prune(p) \/ Abort(p)
      PROVE  AccountedInv'
  <2>1. AppliedIsAccounted' /\ HeldAccounted(p)'
    BY <1>1, <1>4, AccountedMirror, AccountedRest
  <2>2. ASSUME NEW q \in Procs, q # p PROVE HeldAccounted(q)'
    <3>1. pc'[q] = pc[q] /\ job'[q] = job[q]
      BY <1>4, <2>2, OthersStay DEF AccountedInv
    <3>. QED
      BY <1>1, <3>1 DEF AccountedInv, HeldAccounted, Growing
  <2>. QED
    BY <1>1, <2>1, <2>2 DEF AccountedInv
<1>5. ASSUME NEW f \in Files, UpScans(f) \/ UpApplies(f) PROVE AccountedInv'
  <2>1. PICK r : Put(f, r) /\ (r.state = "applied" => ledger[f].state = "applied" \/ f \in ran')
    <3>1. CASE UpScans(f)
      <4>. DEFINE r == [ledger[f] EXCEPT !.sha = disk[f],
                                         !.state = IF @ = "folded" THEN @ ELSE "pending"]
      <4>1. ledger[f] \in Rows
        BY DEF AccountedInv, TypeOK
      <4>2. r.state # "applied"
        BY <4>1 DEF Rows
      <4>3. Put(f, r)
        BY <3>1 DEF UpScans
      <4>. HIDE DEF r
      <4>. QED
        BY <4>2, <4>3
    <3>2. CASE UpApplies(f)
      BY <3>2 DEF UpApplies
    <3>. QED
      BY <1>5, <3>1, <3>2
  <2>2. AppliedIsAccounted'
    BY <1>1, <2>1, PutAccounted DEF AccountedInv
  <2>. QED
    BY <1>1, <1>2, <1>5, <2>2 DEF AccountedInv, UpScans, UpApplies
<1>. QED
  BY <1>3, <1>4, <1>5 DEF Next

\* runRebasePrune goes on to mirror what it was not asked to mirror by name; still
\* nothing comes out applied that was neither run nor declared by an operator.
THEOREM AppliedStaysAccounted == Spec => []AppliedIsAccounted
<1>1. AccountedInv => AppliedIsAccounted
  BY DEF AccountedInv
<1>. QED
  BY <1>1, AccountedInit, AccountedNext, PTL DEF Spec
-----------------------------------------------------------------------------
(* What a prune folds *)

\* An orphan was absent when the tree was listed, and stays one that was.
HeldAbsent(p) ==
  /\ pc[p] = "rows" => \A f \in Files : Orphaned(f, job[p].seen, job[p].inactive) => f \in gone
  /\ pc[p] \in {"fold", "folded"} => job[p].orphans \subseteq gone
FoldedInv ==
  /\ TypeOK /\ FoldedWasAbsent
  /\ \A f \in Files : disk[f] = None => f \in gone
  /\ \A p \in Procs : HeldAbsent(p)

LEMMA PutFolded ==
  ASSUME TypeOK, FoldedWasAbsent, Growing, NEW f \in Files, NEW r, Put(f, r),
         r.state = "folded" => ledger[f].state = "folded" \/ f \in gone'
  PROVE  FoldedWasAbsent'
<1>1. ledger' = [ledger EXCEPT ![f] = r]
  BY DEF Put
<1>2. ASSUME NEW g \in Files, ledger'[g].state = "folded" PROVE g \in gone'
  <2>1. CASE g = f
    BY <1>1, <1>2, <2>1 DEF TypeOK, FoldedWasAbsent, Growing
  <2>2. CASE g # f
    BY <1>1, <1>2, <2>2 DEF TypeOK, FoldedWasAbsent, Growing
  <2>. QED
    BY <2>1, <2>2
<1>. QED
  BY <1>2 DEF FoldedWasAbsent

LEMMA KeptFolded ==
  ASSUME FoldedWasAbsent, Growing, ledger' = ledger
  PROVE  FoldedWasAbsent'
BY DEF FoldedWasAbsent, Growing

LEMMA FoldedOthers ==
  ASSUME FoldedInv, Growing, NEW p \in Procs, Begin(p) \/ Mirror(p) \/ Undo(p) \/ Abort(p)
  PROVE  FoldedWasAbsent' /\ HeldAbsent(p)'
<1>a. /\ TypeOK /\ FoldedWasAbsent /\ InHand(p)
      /\ job[p] \in Jobs /\ history \in Seq(Entries)
  BY DEF FoldedInv, TypeOK
<1>1. HeldAbsent(p)'
  <2>1. pc'[p] \notin {"rows", "fold", "folded"}
    <3>1. CASE Begin(p) \/ Abort(p)
      BY <1>a, <3>1 DEF Begin, StartMirror, StartUndo, StartUndoId, StartPrune, Start, Abort, Stop,
                        Goto, TypeOK
    <3>2. CASE HashFile(p) \/ ReadBody(p) \/ ReadRow(p) \/ Register(p)
      BY <1>a, <3>2 DEF HashFile, ReadBody, ReadRow, Register, NextFile, Stop, Goto, TypeOK
    <3>3. CASE Note(p) \/ Save(p) \/ Overwrite(p)
      BY <1>a, <3>3 DEF Note, Save, Overwrite, NextFile, Goto, TypeOK
    <3>4. CASE Undo(p)
      BY <1>a, <3>4 DEF Undo, FindSnapshots, Restore, RecordUndo, Stop, Goto, TypeOK
    <3>. QED
      BY <3>1, <3>2, <3>3, <3>4 DEF Mirror
  <2>. QED
    BY <2>1 DEF HeldAbsent
<1>2. CASE ledger' = ledger
  BY <1>a, <1>1, <1>2, KeptFolded
<1>3. CASE Register(p) \/ Overwrite(p)
  <2>1. (\E r : r.state = "applied" /\ Put(job[p].file, r) /\ job[p].file \in Files) \/ ledger' = ledger
    BY <1>3, <1>a DEF Register, Overwrite, InHand
  <2>. QED
    BY <1>a, <1>1, <1>2, <2>1, PutFolded
<1>4. CASE Restore(p)
  <2>1. ASSUME NEW i \in job[p].snaps,
               Put(history[i].file, [ledger[history[i].file] EXCEPT !.sha = history[i].sha,
                     !.asha = history[i].sha, !.asql = history[i].sql])
        PROVE  FoldedWasAbsent'
    <3>. DEFINE g == history[i].file
                r == [ledger[g] EXCEPT !.sha = history[i].sha, !.asha = history[i].sha,
                                       !.asql = history[i].sql]
    <3>1. i \in 1..Len(history)
      BY <1>a DEF InHand
    <3>2. history[i] \in Entries
      BY <1>a, <3>1
    <3>3. g \in Files
      BY <3>2 DEF Entries
    <3>4. r.state = ledger[g].state /\ Put(g, r)
      BY <2>1, <3>3 DEF TypeOK, Rows
    <3>. HIDE DEF g, r
    <3>. QED
      BY <1>a, <3>3, <3>4, PutFolded
  <2>. QED
    BY <1>1, <1>2, <1>4, <2>1 DEF Restore
<1>. QED
  <2>1. CASE Begin(p) \/ Abort(p)
    BY <1>2, <2>1 DEF Begin, StartMirror, StartUndo, StartUndoId, StartPrune, Start, Abort, tables
  <2>2. CASE HashFile(p) \/ ReadBody(p) \/ ReadRow(p) \/ Note(p) \/ Save(p)
    BY <1>2, <2>2 DEF HashFile, ReadBody, ReadRow, Note, Save, tables
  <2>3. CASE FindSnapshots(p) \/ RecordUndo(p)
    BY <1>2, <2>3 DEF FindSnapshots, RecordUndo, tables
  <2>. QED
    BY <1>3, <1>4, <2>1, <2>2, <2>3 DEF Mirror, Undo

LEMMA FoldedPrune ==
  ASSUME FoldedInv, Growing, NEW p \in Procs, Prune(p)
  PROVE  FoldedWasAbsent' /\ HeldAbsent(p)'
<1>a. /\ TypeOK /\ FoldedWasAbsent /\ HeldAbsent(p) /\ InHand(p)
      /\ job[p] \in Jobs /\ job[p].files \in SUBSET Files /\ job[p].orphans \in SUBSET Files
      /\ \A f \in Files : disk[f] = None => f \in gone
  BY JobFields DEF FoldedInv, TypeOK
<1>1. CASE ListTree(p)
  <2>1. /\ pc'[p] = "rows" /\ job'[p].seen = Tree /\ job'[p].inactive = inactive
        /\ ledger' = ledger
    BY <1>1, <1>a DEF ListTree, Goto, TypeOK, Jobs, tables
  <2>2. ASSUME NEW f \in Files, Orphaned(f, Tree, inactive) PROVE f \in gone
    BY <1>a, <2>2 DEF Orphaned, Tree, OnDisk
  <2>. QED
    BY <1>a, <2>1, <2>2, KeptFolded DEF HeldAbsent, Growing, Orphaned
<1>2. CASE ReadRows(p)
  <2>1. /\ pc[p] = "rows" /\ pc'[p] \in {"hash", "fold"} /\ ledger' = ledger
        /\ job'[p].orphans = {f \in job[p].files : /\ ledger[f].state \in {"applied", "pending"}
                                                   /\ Orphaned(f, job[p].seen, job[p].inactive)}
    BY <1>2, <1>a DEF ReadRows, Goto, TypeOK, NoJob, tables
  <2>2. job'[p].orphans \subseteq gone
    BY <1>a, <2>1 DEF HeldAbsent
  <2>. QED
    BY <1>a, <2>1, <2>2, KeptFolded DEF HeldAbsent, Growing
<1>3. CASE Fold(p)
  <2>. DEFINE g == Least(job[p].orphans)
  <2>1. g \in job[p].orphans /\ g \in Files
    BY <1>3, <1>a, LeastFile DEF Fold, InHand
  <2>2. Put(g, [ledger[g] EXCEPT !.state = "folded"]) /\ pc[p] = "fold"
    BY <1>3 DEF Fold
  <2>3. g \in gone'
    BY <1>a, <2>1, <2>2 DEF HeldAbsent, Growing
  <2>. HIDE DEF g
  <2>4. FoldedWasAbsent'
    BY <1>a, <2>1, <2>2, <2>3, PutFolded
  <2>5. pc'[p] = "folded" /\ job'[p].orphans = job[p].orphans
    BY <1>3, <1>a DEF Fold, Goto, TypeOK
  <2>. QED
    BY <1>a, <2>2, <2>4, <2>5 DEF HeldAbsent, Growing
<1>4. CASE RecordFold(p)
  <2>1. pc[p] = "folded" /\ ledger' = ledger /\ pc'[p] \in {"hash", "fold"}
    BY <1>4, <1>a DEF RecordFold, Goto, TypeOK
  <2>2. job'[p].orphans \subseteq job[p].orphans
    BY <1>4, <1>a DEF RecordFold, TypeOK, Jobs
  <2>. QED
    BY <1>a, <2>1, <2>2, KeptFolded DEF HeldAbsent, Growing
<1>. QED
  BY <1>1, <1>2, <1>3, <1>4 DEF Prune

LEMMA FoldedInit == Init => FoldedInv
<1>. SUFFICES ASSUME Init PROVE FoldedInv
  OBVIOUS
<1>1. FoldedWasAbsent /\ \A p \in Procs : HeldAbsent(p)
  BY DEF Init, FoldedWasAbsent, HeldAbsent, NoRow
<1>2. \A f \in Files : disk[f] = None => f \in gone
  BY DEF Init, OnDisk
<1>. QED
  BY <1>1, <1>2, TypesInit DEF FoldedInv

LEMMA FoldedNext == FoldedInv /\ [Next]_vars => FoldedInv'
<1>. SUFFICES ASSUME FoldedInv, [Next]_vars PROVE FoldedInv'
  OBVIOUS
<1>1. TypeOK' /\ Growing
  BY TypesNext, GhostsGrow DEF FoldedInv
<1>2. ASSUME pc' = pc, job' = job PROVE \A p \in Procs : HeldAbsent(p)'
  BY <1>1, <1>2 DEF FoldedInv, HeldAbsent, Growing, Orphaned
<1>3. ASSUME disk' = disk PROVE \A f \in Files : disk'[f] = None => f \in gone'
  BY <1>1, <1>3 DEF FoldedInv, Growing
<1>4. CASE UNCHANGED vars \/ \E f \in Files : Switch(f)
  <2>1. ledger' = ledger /\ pc' = pc /\ job' = job /\ disk' = disk
    BY <1>4 DEF vars, tree, tables, Switch
  <2>. QED
    BY <1>1, <1>2, <1>3, <2>1, KeptFolded DEF FoldedInv
<1>5. ASSUME NEW f \in Files, NEW b \in Bodies \cup {None}, Edit(f, b) PROVE FoldedInv'
  <2>1. ledger' = ledger /\ pc' = pc /\ job' = job
    BY <1>5 DEF Edit, tables
  <2>2. \A g \in Files : disk'[g] = None => g \in gone'
    BY <1>1, <1>5 DEF Edit, FoldedInv, TypeOK, Growing
  <2>. QED
    BY <1>1, <1>2, <2>1, <2>2, KeptFolded DEF FoldedInv
<1>6. ASSUME NEW p \in Procs, Begin(p) \/ Mirror(p) \/ Undo(p) \/ Prune(p) \/ Abort(p)
      PROVE  FoldedInv'
  <2>1. FoldedWasAbsent' /\ HeldAbsent(p)'
    BY <1>1, <1>6, FoldedOthers, FoldedPrune
  <2>2. ASSUME NEW q \in Procs, q # p PROVE HeldAbsent(q)'
    <3>1. pc'[q] = pc[q] /\ job'[q] = job[q]
      BY <1>6, <2>2, OthersStay DEF FoldedInv
    <3>. QED
      BY <1>1, <3>1 DEF FoldedInv, HeldAbsent, Growing, Orphaned
  <2>3. disk' = disk
    <3>1. CASE Begin(p) \/ Abort(p)
      BY <3>1 DEF Begin, StartMirror, StartUndo, StartUndoId, StartPrune, Start, Abort, tree
    <3>2. CASE Mirror(p)
      BY <3>2 DEF Mirror, HashFile, ReadBody, ReadRow, Register, Note, Save, Overwrite, tree
    <3>3. CASE Undo(p) \/ Prune(p)
      BY <3>3 DEF Undo, Prune, FindSnapshots, Restore, RecordUndo, ListTree, ReadRows, Fold,
                  RecordFold, tree
    <3>. QED
      BY <1>6, <3>1, <3>2, <3>3
  <2>. QED
    BY <1>1, <1>3, <2>1, <2>2, <2>3 DEF FoldedInv
<1>7. ASSUME NEW f \in Files, UpScans(f) \/ UpApplies(f) PROVE FoldedInv'
  <2>1. PICK r : Put(f, r) /\ (r.state = "folded" => ledger[f].state = "folded")
    <3>. DEFINE r == [ledger[f] EXCEPT !.sha = disk[f],
                                       !.state = IF @ = "folded" THEN @ ELSE "pending"]
                t == [ledger[f] EXCEPT !.state = "applied", !.asha = ledger[f].sha, !.asql = disk[f]]
    <3>1. ledger[f] \in Rows
      BY DEF FoldedInv, TypeOK
    <3>2. (r.state = "folded" => ledger[f].state = "folded") /\ t.state # "folded"
      BY <3>1 DEF Rows
    <3>3. CASE UpScans(f)
      BY <3>2, <3>3 DEF UpScans
    <3>4. CASE UpApplies(f)
      BY <3>2, <3>4 DEF UpApplies
    <3>. QED
      BY <1>7, <3>3, <3>4
  <2>2. FoldedWasAbsent'
    BY <1>1, <2>1, PutFolded DEF FoldedInv
  <2>3. pc' = pc /\ job' = job /\ disk' = disk
    BY <1>7 DEF UpScans, UpApplies, tree
  <2>. QED
    BY <1>1, <1>2, <1>3, <2>2, <2>3 DEF FoldedInv
<1>. QED
  BY <1>4, <1>5, <1>6, <1>7 DEF Next

\* runRebasePrune folds only rows whose file was absent from the tree, however long
\* it waits for the operator and whichever steps are switched off.
THEOREM PruneSparesTheTree == Spec => []FoldedWasAbsent
<1>1. FoldedInv => FoldedWasAbsent
  BY DEF FoldedInv
<1>. QED
  BY <1>1, FoldedInit, FoldedNext, PTL DEF Spec
================================================================================
