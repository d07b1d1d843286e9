------------------------------ MODULE MCStandalone ------------------------------
(***************************************************************************)
(* The components that stand alone, side by side: part says which one of   *)
(* them moves, the variables of the others keep their first value. The     *)
(* state spaces add up, they do not multiply.                              *)
(***************************************************************************)
EXTENDS Down, StepTree, Gate, Destroy, DataFiles, Proof, TLC

CONSTANTS d1, t1, t2, nothing, noroot, r1, r2, nofile, cutoff

VARIABLE part

-----------------------------------------------------------------------------
(* Down: two migrations, each with a text of its own *)

DownStart == DownInit /\ folder[1] = t1 /\ folder[2] = t2

-----------------------------------------------------------------------------
(* StepTree: 1.10, 1.2, a name that does not parse, 10 and 1, in byte order *)

MCVersion == <<<<1, 10>>, <<1, 2>>, <<>>, <<10>>, <<1>>>>
MCSnapshots == [s |-> {1, 5}, t |-> {2, 3}, u |-> {1, 4}]

Local(d, one, fallback) ==
  [kind |-> "local", at |-> d, one |-> one, fallback |-> fallback, dir |-> d,
   target |-> "", pinned |-> FALSE]
Git(remote, pinned) ==
  [kind |-> "git", at |-> remote, one |-> 0, fallback |-> "", dir |-> "g",
   target |-> "main", pinned |-> pinned]
Url(archive, one) ==
  [kind |-> "url", at |-> archive, one |-> one, fallback |-> "", dir |-> "",
   target |-> "", pinned |-> FALSE]

\* g and h are repositories with a folder of the same path, u and v archives.
MCLists ==
  LET a == Local("a", 0, "")
      two == Local("a", 2, "b")
      b == Local("b", 0, "a")
  IN  {<<a, Git("g", FALSE)>>, <<Git("g", FALSE), b, Git("g", TRUE)>>, <<two, a>>,
       <<a, two, Url("u", 0)>>, <<Url("u", 0), b, two>>, <<b, a>>,
       <<Git("h", FALSE), Git("g", TRUE)>>, <<Url("u", 0), Url("v", 0), Url("v", 1)>>,
       <<Url("u", 1), Url("v", 1), a>>}
MCTrees == {[a |-> x, b |-> y] : x \in {{2, 4, 5}, {1, 2, 3, 4}}, y \in {{}, {1, 2}}}
MCOffers ==
  {[k \in {<<"g", "main">>, <<"h", "main">>, <<"u", "">>, <<"v", "">>} |->
      [tag |-> IF k[1] = "g" THEN tag ELSE noroot,
       branch |-> IF k[1] \in {"g", "v"} THEN "s" ELSE "u"]] : tag \in {noroot, "t"}}

TreeStart ==
  TreeInit /\ (part # "tree" => includes = <<Url("u", 0), Local("b", 0, "a"), Local("a", 2, "b")>>
                                /\ tree = [a |-> {2, 4, 5}, b |-> {}]
                                /\ offer[<<"g", "main">>].tag = noroot)

-----------------------------------------------------------------------------
(* Gate: an extension and its language, a language that is built in, a role *)

Object(k, n) == [kind |-> k, name |-> n]
MCObjects == {Object("extension", "plv8"), Object("language", "plv8"),
              Object("language", "plpgsql"), Object("role", "app")}
MCBuiltin == {Object("language", "plpgsql")}
MCSql ==
  LET statement == [does : {"needs"}, object : {o \in MCObjects : o.kind # "extension"}]
                   \cup [does : {"makes"}, object : {Object("extension", "plv8"), Object("role", "app")}]
  IN  UNION {[1..n -> statement] : n \in 0..2}

GateStart == GateInit /\ (part # "gate" => sql = <<>> /\ provides = MCBuiltin)

-----------------------------------------------------------------------------
(* Destroy: a table of public (1) with a view on it that is not of the tree (2), a   *)
(* table of app (3), an extension (4) with a function (5), a sequence (6), a         *)
(* materialized view (7), and a table of public that is not of the tree (8)          *)

MCKind == <<"table", "view", "table", "extension", "function", "sequence", "matview", "table">>
MCSchema == [o \in 1..8 |-> IF o = 3 THEN "app" ELSE "public"]
MCNeeds == [o \in 1..8 |-> IF o \in {2, 7} THEN {1} ELSE {}]
MCOwner == [o \in 1..8 |-> IF o = 5 THEN 4 ELSE 0]
MCDeclared == <<"app", "public">>

DestroyStart ==
  DestroyInit /\ {3, 8} \subseteq live
  /\ (part # "destroy" => live = {3, 8} /\ hasLedger = FALSE)

-----------------------------------------------------------------------------
(* DataFiles: a table and one whose rows need its rows *)

MCParent == <<0, 1>>

DataStart ==
  DataInit /\ (part # "data" => rows = [t \in Tables |-> {}] /\ \A t \in Tables : ~triggers[t])

-----------------------------------------------------------------------------
(* Proof: a file with and without a counterpart in .upgraded, and a migration *)

ProofStart ==
  /\ ProofInit
  /\ source[1] = "a" /\ upgraded[1] \in {"a", "none", "empty"}
  /\ source[2] \in {"unstable", "none", "broken"} /\ upgraded[2] \in {"none", "b"}
  /\ IF part = "proof" THEN liveDb[1] = (IF upgraded[1] = "empty" THEN "none" ELSE "a")
     ELSE upgraded = NoTree /\ liveDb = NoTree /\ source[2] = "none"

-----------------------------------------------------------------------------

StandaloneInit ==
  /\ part \in {"down", "tree", "gate", "destroy", "data", "proof"}
  /\ DownStart /\ TreeStart /\ GateStart /\ DestroyStart /\ DataStart /\ ProofStart

StandaloneNext ==
  /\ UNCHANGED part
  /\ IF part = "down" THEN DownNext ELSE UNCHANGED downVars
  /\ IF part = "tree" THEN TreeNext ELSE UNCHANGED treeVars
  /\ IF part = "gate" THEN GateNext ELSE UNCHANGED gateVars
  /\ IF part = "destroy" THEN DestroyNext ELSE UNCHANGED destroyVars
  /\ IF part = "data" THEN DataNext ELSE UNCHANGED dataVars
  /\ IF part = "proof" THEN ProofNext ELSE UNCHANGED proofVars

StandaloneVars ==
  <<part, downVars, treeVars, gateVars, destroyVars, dataVars, proofVars>>

StandaloneSpec == StandaloneInit /\ [][StandaloneNext]_StandaloneVars /\ DownFairness
=============================================================================
