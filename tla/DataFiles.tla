-------------------------------- MODULE DataFiles --------------------------------
(***************************************************************************)
(* dump and insert: the rows of tables written to files and loaded again.  *)
(*                                                                         *)
(* dump reads each table in a statement of its own and then writes its     *)
(* file, so that the files are of different moments; a crash may leave one *)
(* cut off. insert takes the files in the order of their names, each in a  *)
(* transaction of its own that, on request, disables the triggers of the   *)
(* table and enables them again, and stops at the first that fails: what   *)
(* was loaded before stays. Others write rows in between.                  *)
(*                                                                         *)
(* A row is its key. A row of a table with a parent needs the row of the   *)
(* same key there. What triggers do to the rows is left out.               *)
(***************************************************************************)
EXTENDS Integers, Sequences, FiniteSets, Listing

CONSTANTS Tables,       \* base tables of the declared schemas, in order of name
          ParentOf,     \* [Tables -> the table its foreign key names, or 0]
          Rows,         \* keys
          NoFile, CutOff,   \* a file that is absent, one that was not written whole
          MaxRuns,      \* bound: dump and insert commands
          MaxWrites     \* bound: rows others insert or delete, crashes

ASSUME DataAssumption ==
  /\ Tables \subseteq Nat \ {0} /\ IsFiniteSet(Tables)
  /\ NoFile # CutOff /\ \A S \in SUBSET Rows : S # NoFile /\ S # CutOff
  /\ MaxRuns \in Nat /\ MaxWrites \in Nat

VARIABLES
  rows,        \* rows[t]: the rows of table t
  triggers,    \* triggers[t]: whether the user triggers of t are enabled
  jsonFiles,   \* jsonFiles[t]: the rows in <schema>.<table>.json
  loading,     \* what the command does next
  todo,        \* the tables or files it has left
  body,        \* what it read last
  quiet,       \* --no-triggers
  tx,          \* the open transaction: rows to come, and the state of the triggers
  runs, writes,           \* how much of the bounds is used
  dumped,      \* dumped[t]: what a dump read of t; not seen by the code
  onEmpty      \* all tables were empty when the insert began and nobody else wrote

dataVars == <<rows, triggers, jsonFiles, loading, todo, body, quiet, tx, runs, writes, dumped, onEmpty>>

NoLoad == [adds |-> {}, on |-> FALSE]

FaultyFileOf(t) == CHOOSE u \in Tables : TRUE                   \* for its name only

\* The file of a table is named for its schema and its name.
FileOf(t) == t

FaultyEnabled == tx.on                                          \* not enabled again

\* The state of the triggers once the load has enabled them again.
Enabled == TRUE

\* A row that is there already, or whose parent is not, fails the whole statement.
Accepts(t, new) == /\ new \cap rows[t] = {}
                   /\ ParentOf[t] # 0 => new \subseteq rows[ParentOf[t]]
Admitted(t, new) == IF Accepts(t, new) THEN new ELSE NoFile

DataInit ==
  /\ rows \in [Tables -> SUBSET Rows]
  /\ \A t \in Tables : ParentOf[t] # 0 => rows[t] \subseteq rows[ParentOf[t]]
  /\ triggers \in [Tables -> BOOLEAN]
  /\ jsonFiles = [t \in Tables |-> NoFile]
  /\ loading = "idle" /\ todo = <<>> /\ body = NoFile /\ quiet = FALSE /\ tx = NoLoad
  /\ runs = 0 /\ writes = 0
  /\ dumped = [t \in Tables |-> {}] /\ onEmpty = FALSE

LoadEnds == loading' = "idle" /\ todo' = <<>> /\ body' = NoFile /\ tx' = NoLoad

-----------------------------------------------------------------------------
(* dump *)

\* --all, --table or the list to choose from: any tables, in order.
DumpBegin(S) ==
  /\ loading = "idle" /\ runs < MaxRuns
  /\ runs' = runs + 1
  /\ todo' = Ascending(S) /\ loading' = "read"
  /\ UNCHANGED <<rows, triggers, jsonFiles, body, quiet, tx, writes, dumped, onEmpty>>

ReadTable ==
  /\ loading = "read"
  /\ body' = rows[Head(todo)]
  /\ loading' = "write"
  /\ UNCHANGED <<rows, triggers, jsonFiles, todo, quiet, tx, runs, writes, dumped, onEmpty>>

WriteJson ==
  /\ loading = "write"
  /\ jsonFiles' = [jsonFiles EXCEPT ![FileOf(Head(todo))] = body]
  /\ dumped' = [dumped EXCEPT ![Head(todo)] = body]
  /\ IF Len(todo) = 1 THEN LoadEnds
     ELSE todo' = Tail(todo) /\ loading' = "read" /\ UNCHANGED <<body, tx>>
  /\ UNCHANGED <<rows, triggers, quiet, runs, writes, onEmpty>>

-----------------------------------------------------------------------------
(* insert *)

\* The files of the folder, in order of name.
Collected == Ascending({t \in Tables : jsonFiles[t] # NoFile})

LoadBegin(q) ==
  /\ loading \in {"idle", "loaded"} /\ runs < MaxRuns /\ Collected # <<>>
  /\ runs' = runs + 1
  /\ todo' = Collected /\ loading' = "open" /\ quiet' = q
  /\ onEmpty' = (\A t \in Tables : rows[t] = {})
  /\ UNCHANGED <<rows, triggers, jsonFiles, body, tx, writes, dumped>>

\* The file is read, then the transaction begins.
ReadJson ==
  /\ loading = "open"
  /\ body' = jsonFiles[Head(todo)]
  /\ tx' = [adds |-> {}, on |-> triggers[Head(todo)]]
  /\ loading' = IF quiet THEN "disable" ELSE "insert"
  /\ UNCHANGED <<rows, triggers, jsonFiles, todo, quiet, runs, writes, dumped, onEmpty>>

Disable ==
  /\ loading = "disable"
  /\ tx' = [tx EXCEPT !.on = FALSE]
  /\ loading' = "insert"
  /\ UNCHANGED <<rows, triggers, jsonFiles, todo, body, quiet, runs, writes, dumped, onEmpty>>

\* All rows of the file in one statement; a file that was cut off does not parse.
Insert ==
  /\ loading = "insert"
  /\ LET new == IF body = CutOff THEN NoFile ELSE Admitted(Head(todo), body) IN
       IF new = NoFile THEN LoadEnds
       ELSE /\ tx' = [tx EXCEPT !.adds = new]
            /\ loading' = IF quiet THEN "enable" ELSE "commit"
            /\ UNCHANGED <<todo, body>>
  /\ UNCHANGED <<rows, triggers, jsonFiles, quiet, runs, writes, dumped, onEmpty>>

Enable ==
  /\ loading = "enable"
  /\ tx' = [tx EXCEPT !.on = Enabled]
  /\ loading' = "commit"
  /\ UNCHANGED <<rows, triggers, jsonFiles, todo, body, quiet, runs, writes, dumped, onEmpty>>

CommitLoad ==
  /\ loading = "commit"
  /\ rows' = [rows EXCEPT ![Head(todo)] = @ \cup tx.adds]
  /\ triggers' = [triggers EXCEPT ![Head(todo)] = tx.on]
  /\ IF Len(todo) = 1 THEN loading' = "loaded" /\ todo' = <<>> /\ body' = NoFile /\ tx' = NoLoad
     ELSE todo' = Tail(todo) /\ loading' = "open" /\ UNCHANGED <<body, tx>>
  /\ UNCHANGED <<jsonFiles, quiet, runs, writes, dumped, onEmpty>>

-----------------------------------------------------------------------------
(* Around the commands *)

\* The command dies; a file that was being written is cut off.
DataDies ==
  /\ loading \notin {"idle", "loaded"} /\ writes < MaxWrites
  /\ writes' = writes + 1
  /\ \/ UNCHANGED jsonFiles
     \/ /\ loading = "write"
        /\ jsonFiles' = [jsonFiles EXCEPT ![FileOf(Head(todo))] = CutOff]
  /\ LoadEnds
  /\ UNCHANGED <<rows, triggers, quiet, runs, dumped, onEmpty>>

\* Someone else writes the rows of a table, as far as keys allow. What an open load
\* inserted, its table when the triggers are off, and the parents are locked.
OthersWrite(t, S) ==
  /\ writes < MaxWrites /\ S # rows[t]
  /\ ParentOf[t] # 0 => S \subseteq rows[ParentOf[t]]
  /\ \A u \in Tables : ParentOf[u] = t => rows[u] \subseteq S
  /\ loading \in {"disable", "insert", "enable", "commit"} =>
       Head(todo) # t /\ ParentOf[Head(todo)] # t
  /\ writes' = writes + 1
  /\ rows' = [rows EXCEPT ![t] = S]
  /\ onEmpty' = (onEmpty /\ loading = "idle")
  /\ UNCHANGED <<triggers, jsonFiles, loading, todo, body, quiet, tx, runs, dumped>>

DataNext ==
  \/ \E S \in (SUBSET Tables) \ {{}} : DumpBegin(S)
  \/ ReadTable \/ WriteJson
  \/ \E q \in BOOLEAN : LoadBegin(q)
  \/ ReadJson \/ Disable \/ Insert \/ Enable \/ CommitLoad \/ DataDies
  \/ \E t \in Tables, S \in SUBSET Rows : OthersWrite(t, S)

DataSpec == DataInit /\ [][DataNext]_dataVars

-----------------------------------------------------------------------------
(* Properties *)

\* A file is loaded whole or not at all, and whatever fails or dies on the way, a
\* load never leaves triggers disabled that were enabled: both happen in the one
\* transaction of the file, others keep writing meanwhile.
LoadIsWhole ==
  [][loading' # loading =>
       \A t \in Tables : /\ rows'[t] # rows[t] => rows'[t] = rows[t] \cup jsonFiles[t]
                         /\ triggers[t] => triggers'[t]]_dataVars

\* A load that succeeds on empty tables brings back, for every table with a file,
\* the rows the dump had read of it, and nothing for the others.
RestoresTheDump ==
  loading = "loaded" /\ onEmpty => \A t \in Tables : rows[t] = dumped[t]
=============================================================================
