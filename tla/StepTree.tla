-------------------------------- MODULE StepTree --------------------------------
(***************************************************************************)
(* The files of a step: its includes resolved one after the other, from    *)
(* the tree, a git repository or an archive, then sorted by version.       *)
(*                                                                         *)
(* A command lists the files of a step several times (gate, scan, apply).  *)
(* The tree may change between any two includes and a remote between any   *)
(* two fetches; what was fetched once is kept for the rest of the command. *)
(* A path that is absent falls back and is then passed over, a remote that *)
(* cannot be had ends the command.                                         *)
(*                                                                         *)
(* File names are numbered in byte order. The content a remote offers at   *)
(* some time is a snapshot, of which only the names in the folder asked    *)
(* for matter. A file is known by its path below the tree or below what    *)
(* was fetched (Rel): files of two sources may have the same one, and then *)
(* only the first is listed.                                               *)
(***************************************************************************)
EXTENDS Integers, Sequences, FiniteSets, SequencesExt, FiniteSetsExt, Listing

CONSTANTS Names,          \* file names, numbered in byte order
          Version,        \* [Names -> Seq(Nat)]: <<>> for a name that does not parse
          Excluded,       \* names the step excludes
          Folders,        \* folders of the tree; one without files does not exist
          SnapshotNames,  \* [Snapshots -> SUBSET Names]
          NoRoot,         \* nothing fetched
          IncludeLists,   \* the include lists a step may have
          Trees,          \* what the folders may hold at the start
          Offers,         \* what the remotes may offer at the start
          MaxLists,       \* bound: times the command lists the files
          MaxMoves        \* bound: changes of the tree and of the remotes

Snapshots == DOMAIN SnapshotNames

\* An include: kind, folder or remote, name of a single file (0: the folder),
\* fallback folder, and for git the target and whether it is a pinned ref.
\* dir is the folder a file's identity has.
Include == [kind : {"local", "git", "url"}, at : STRING, one : Names \cup {0},
            fallback : STRING, dir : STRING, target : STRING, pinned : BOOLEAN]

\* Every remote an include may name, with its target, and what it may offer there.
RemoteIncludes == {inc \in UNION {Range(l) : l \in IncludeLists} : inc.kind # "local"}
Places == {<<inc.at, inc.target>> : inc \in RemoteIncludes}
Roots == Snapshots \cup {NoRoot}
Offer == [tag : Roots, branch : Roots]

ASSUME StepTreeAssumption ==
  /\ Names \subseteq Nat \ {0} /\ IsFiniteSet(Names) /\ Excluded \subseteq Names
  /\ \A x \in Names : Version[x] \in Seq(Nat)
  /\ NoRoot \notin Snapshots /\ \A s \in Snapshots : SnapshotNames[s] \subseteq Names
  /\ \A l \in IncludeLists : l \in Seq(Include)
  /\ Trees \subseteq [Folders -> SUBSET Names] /\ Offers \subseteq [Places -> Offer]
  /\ MaxLists \in Nat /\ MaxMoves \in Nat

VARIABLES
  tree,      \* tree[d]: the names in folder d
  offer,     \* offer[<<r, t>>]: what remote r has as tag and as branch t
  includes,  \* of the step
  cache,     \* remoteCache: what was fetched in this command, by kind, remote and target
  phase,     \* "between", "walking", "full", "cut" or "failed"
  nth,       \* the include that is next
  files,     \* the files so far, then the sorted list
  lists, moves,        \* how much of the bounds is used
  taken,     \* snapshots a list took files from, with their key; not seen by the code
  took       \* the files each include behind nth gave in this listing; not seen either

treeVars == <<tree, offer, includes, cache, phase, nth, files, lists, moves, taken, took>>

Less(a, b) == \/ Len(a) < Len(b) /\ \A k \in 1..Len(a) : a[k] = b[k]
              \/ \E k \in 1..Len(a) : /\ k <= Len(b) /\ a[k] < b[k]
                                      /\ \A j \in 1..(k - 1) : a[j] = b[j]

-----------------------------------------------------------------------------
(* The order of the files *)

FaultyComponent(v, k) == IF k <= Len(v) THEN v[Len(v)] ELSE -1    \* the last one only

\* Component k, the empty string before every number.
Component(v, k) == IF k <= Len(v) THEN v[k] ELSE -1

\* CompareVersion: -1, 0 or 1, decided by the first component that differs.
CompareVersion(a, b) ==
  LET differ == {k \in 1..Len(a) \cup 1..Len(b) : Component(a, k) # Component(b, k)} IN
    IF differ = {} THEN 0
    ELSE IF Component(a, Min(differ)) < Component(b, Min(differ)) THEN -1 ELSE 1

\* Names that both parse go by version, then by name; any other pair by name.
FileLess(f, g) ==
  LET parsed == Version[f.name] # <<>> /\ Version[g.name] # <<>>
      c == CompareVersion(Version[f.name], Version[g.name])
  IN  IF parsed /\ c # 0 THEN c < 0 ELSE f.name < g.name

\* sort.Slice of at most twelve files: each goes behind the last that is not greater.
SortIn(s, f) == LET k == Max({0} \cup {i \in 1..Len(s) : ~FileLess(f, s[i])})
                IN  InsertAt(s, k + 1, f)
SortFiles(s) ==
  LET sorted[n \in 0..Len(s)] == IF n = 0 THEN <<>> ELSE SortIn(sorted[n - 1], s[n])
  IN  sorted[Len(s)]

-----------------------------------------------------------------------------
(* The walk *)

\* A fetched root is kept under its kind, its remote and its target.
Key(inc) == <<inc.kind, inc.at, inc.target>>
FaultyKept(key, root) == UNCHANGED cache                 \* fetched every time
Kept(key, root) == cache' = [cache EXCEPT ![key] = root]

\* What a fetch may come back with: a pinned ref is cloned as a tag and, when that
\* fails for whatever reason, as a branch; an archive is one file.
Offered(inc) ==
  LET o == offer[<<inc.at, inc.target>>] IN
    {o.branch} \cup {t \in {o.tag} : inc.pinned /\ t # NoRoot}

\* What the folder or the single file of an include gives, without the excluded.
Given(inc, names) ==
  {x \in (IF inc.one = 0 THEN names ELSE names \cap {inc.one}) : x \notin Excluded}

\* The folder of a local include: path, then fallback, if there is one.
LocalFolder(inc) ==
  CASE tree[inc.at] # {} /\ (inc.one # 0 => inc.one \in tree[inc.at]) -> inc.at
    [] OTHER -> inc.fallback

\* The path a file is known by: a single file of an archive is below itself.
Rel(inc, dir, x) ==
  IF inc.kind = "url" /\ inc.one # 0 THEN [dir |-> ".", name |-> 0] ELSE [dir |-> dir, name |-> x]
Entry(inc, dir, x) == [rel |-> Rel(inc, dir, x), name |-> x, from |-> nth]

\* Files of names under dir whose path was not listed before, in order of name.
Fresh(inc, dir, names) ==
  LET new == {x \in names : \A i \in 1..Len(files) : files[i].rel # Rel(inc, dir, x)}
  IN  [i \in 1..Cardinality(new) |-> Entry(inc, dir, Ascending(new)[i])]

TreeInit ==
  /\ tree \in Trees /\ offer \in Offers
  /\ includes \in IncludeLists
  /\ cache = [k \in {Key(inc) : inc \in RemoteIncludes} |-> NoRoot]
  /\ phase = "between" /\ nth = 0 /\ files = <<>>
  /\ lists = 0 /\ moves = 0 /\ taken = {} /\ took = <<>>

\* ResolveFiles begins.
Walk ==
  /\ phase \in {"between", "full", "cut"} /\ lists < MaxLists
  /\ lists' = lists + 1 /\ phase' = "walking"
  /\ nth' = 1 /\ files' = <<>> /\ took' = <<>>
  /\ UNCHANGED <<tree, offer, includes, cache, moves, taken>>

NextInclude(gave) == nth' = nth + 1 /\ took' = Append(took, gave)

\* The files of one include. A single file that was listed before ends the walk
\* there, with what has been listed so far and unsorted.
Add(inc, dir, names) ==
  LET given == Given(inc, names) IN
    IF inc.one # 0 /\ given # {} /\ Fresh(inc, dir, given) = <<>>
    THEN phase' = "cut" /\ UNCHANGED <<nth, files, took>>
    ELSE /\ files' = files \o Fresh(inc, dir, given)
         /\ NextInclude({Entry(inc, dir, x) : x \in given}) /\ UNCHANGED phase

Here(kinds) == phase = "walking" /\ nth <= Len(includes) /\ includes[nth].kind \in kinds

\* An include of the tree. One that is absent, and its fallback too, gives nothing.
TakeLocal ==
  /\ Here({"local"})
  /\ LET inc == includes[nth]
         d == LocalFolder(inc)
     IN  IF d \in Folders THEN Add(inc, d, tree[d])
         ELSE NextInclude({}) /\ UNCHANGED <<phase, files>>
  /\ UNCHANGED <<tree, offer, includes, cache, lists, moves, taken>>

\* fetchGit, fetchURL: the root is the one kept, or is fetched and kept. Without
\* the folder or the file asked for the command ends.
TakeRemote ==
  /\ Here({"git", "url"})
  /\ LET inc == includes[nth]
         found(root) == root # NoRoot /\ SnapshotNames[root] # {}
                        /\ (inc.one # 0 => inc.one \in SnapshotNames[root])
     IN  \E root \in (IF cache[Key(inc)] # NoRoot THEN {cache[Key(inc)]} ELSE Offered(inc)) :
           /\ IF root = NoRoot THEN UNCHANGED cache ELSE Kept(Key(inc), root)
           /\ IF found(root)
              THEN /\ Add(inc, inc.dir, SnapshotNames[root])
                   /\ taken' = taken \cup {<<Key(inc), root>>}
              ELSE phase' = "failed" /\ UNCHANGED <<nth, files, taken, took>>
  /\ UNCHANGED <<tree, offer, includes, lists, moves>>

\* A clone, a download or the unpacking of an archive fails: nothing is kept and
\* the command ends.
FetchFails ==
  /\ Here({"git", "url"}) /\ cache[Key(includes[nth])] = NoRoot
  /\ phase' = "failed"
  /\ UNCHANGED <<tree, offer, includes, cache, nth, files, lists, moves, taken, took>>

SortList ==
  /\ phase = "walking" /\ nth > Len(includes)
  /\ phase' = "full"
  /\ files' = SortFiles(files)
  /\ UNCHANGED <<tree, offer, includes, cache, nth, lists, moves, taken, took>>

\* Someone changes a folder of the tree, or pushes to a remote.
TreeChanges(d, x) ==
  /\ moves < MaxMoves /\ moves' = moves + 1
  /\ tree' = [tree EXCEPT ![d] = IF x \in @ THEN @ \ {x} ELSE @ \cup {x}]
  /\ UNCHANGED <<offer, includes, cache, phase, nth, files, lists, taken, took>>

RemoteMoves(k, s, as) ==
  /\ moves < MaxMoves /\ moves' = moves + 1
  /\ offer' = [offer EXCEPT ![k] = IF as = "tag" THEN [@ EXCEPT !.tag = s]
                                                 ELSE [@ EXCEPT !.branch = s]]
  /\ UNCHANGED <<tree, includes, cache, phase, nth, files, lists, taken, took>>

TreeNext ==
  \/ Walk \/ TakeLocal \/ TakeRemote \/ FetchFails \/ SortList
  \/ \E d \in Folders, x \in Names : TreeChanges(d, x)
  \/ \E k \in DOMAIN offer, s \in Snapshots \cup {NoRoot}, as \in {"tag", "branch"} :
       RemoteMoves(k, s, as)

TreeSpec == TreeInit /\ [][TreeNext]_treeVars

-----------------------------------------------------------------------------
(* Properties *)

\* A list that comes back in full has every path an include gave, once, and nothing
\* else; where includes gave different files of the same path it has the one of the
\* first of them, the others are not listed. No remote was passed over, and however
\* often the files are listed and a remote moves meanwhile, one command sees one state
\* of it: the gate, the scan and the apply of an up speak of the same files. (A list
\* that is cut short, at a single file whose path was listed before, lacks the files of
\* that include and of all behind it, and no error says so.)
ListsTheSources ==
  phase = "full" =>
    /\ \A j \in 1..Len(files) :
         files[j].from \in 1..Len(includes) /\ files[j] \in took[files[j].from]
    /\ \A i, j \in 1..Len(files) : files[i].rel = files[j].rel => i = j
    /\ \A i \in 1..Len(includes) : \A f \in took[i] :
         \E j \in 1..Len(files) : files[j].rel = f.rel /\ files[j].from <= i
    /\ \A i \in 1..Len(includes) :
         includes[i].kind # "local" =>
           LET key == Key(includes[i]) IN
             /\ \E u \in taken : u[1] = key
             /\ \A u \in taken :
                  u[1] = key => {f.name : f \in took[i]} = Given(includes[i], SnapshotNames[u[2]])

\* When every name parses, the order is that of the versions, component by
\* component as numbers, and of the names where these agree, whichever include a
\* file came from and in whatever order the includes are written.
SortedByVersion ==
  phase = "full" /\ (\A i \in 1..Len(files) : Version[files[i].name] # <<>>) =>
    \A i, j \in 1..Len(files) : i < j =>
      LET v == Version[files[i].name]
          w == Version[files[j].name]
      IN  Less(v, w) \/ (~Less(w, v) /\ files[i].name <= files[j].name)
=============================================================================
