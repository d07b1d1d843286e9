------------------------------ MODULE Down_proofs ------------------------------
(***************************************************************************)
(* Theorems about Down, for any number of commands, migrations, turns and  *)
(* tool calls, whatever the agent answers. The invariant has a part for    *)
(* the ledger and one for the locals of a command: what is staged under a  *)
(* path reverts that path, every proposal reverts its file, and a command  *)
(* that writes or runs a script holds one the ledger has for its target.   *)
(* A turn ends with no more calls answered than it had because those left  *)
(* and those answered add up. For the end of a session each step is shown  *)
(* to bring the command nearer to it, in an order that is well-founded.    *)
(***************************************************************************)
EXTENDS Down, Listing_proofs, SequenceTheorems, TLAPS

Labels == {"idle", "cache", "read", "ask", "tools", "store", "write", "run"}
Proposal == [file : Migration, sha : Texts, script : Script]

\* The locals of a command at label l.
LocalOK(l, s) ==
  /\ s \in Session
  /\ l # "idle" => s.targets # <<>>
  /\ l \in {"ask", "tools"} => s.text # Nothing
  /\ l \in {"store", "write", "run"} => s.script # Nothing
  /\ l = "tools" => s.left + s.answered <= MaxBlocks /\ s.turn < MaxTurns
  /\ \A f \in Migration : s.staged[f] # Nothing => s.staged[f].reverts = f
  /\ l = "store" => s.script.reverts = Head(s.targets).file

\* What it writes or runs was accepted for its target, in the proposals P.
Backed(l, s, P) ==
  l \in {"write", "run"} =>
    /\ s.script.reverts = Head(s.targets).file
    /\ \E i \in 1..Len(P) :
         P[i] = [file |-> Head(s.targets).file, sha |-> Head(s.targets).sha, script |-> s.script]

Commands ==
  /\ at \in [Downs -> Labels]
  /\ session \in [Downs -> Session]
  /\ \A p \in Downs : LocalOK(at[p], session[p]) /\ Backed(at[p], session[p], proposals)

FolderOK ==
  /\ folder \in [Path -> Texts \cup Script \cup {Nothing}]
  /\ \A f \in Migration : folder[f] \notin Script /\ folder[DownFile(f)] \notin Texts

RowsOK ==
  /\ row \in [Path -> [state : {"none", "pending", "applied", "reverted"},
                       sha : Texts \cup Script \cup {Nothing}]]
  /\ \A f \in Migration : row[f].sha \notin Script
  /\ \A x \in Path : row[x].state # "none" => row[x].sha # Nothing
  /\ order \in Seq(Path)
  /\ schema \in [Migration -> Texts \cup {Nothing}] /\ escaped \subseteq Migration
  /\ OnlyUpTakesAway

ProposalsOK ==
  /\ proposals \in Seq(Proposal)
  /\ \A i \in 1..Len(proposals) : proposals[i].script.reverts = proposals[i].file

CountersOK ==
  /\ downs \in 0..MaxDowns /\ upSteps \in 0..MaxUpSteps
  /\ changes \in 0..MaxChanges /\ kills \in 0..MaxKills

DownInv == Commands /\ FolderOK /\ RowsOK /\ ProposalsOK /\ CountersOK

-----------------------------------------------------------------------------
(* Paths and sessions *)

LEMMA Paths ==
  ASSUME NEW f \in Migration
  PROVE  /\ f \in Path /\ DownFile(f) \in Path /\ DownFile(f) \notin Migration
         /\ OfPath(f) = f /\ OfPath(DownFile(f)) = f
         /\ \A g \in Migration : DownFile(f) # g /\ (DownFile(f) = DownFile(g) => f = g)
BY DownAssumption DEF Migration, Path, DownFile, OfPath

LEMMA PathKinds ==
  ASSUME NEW x \in Path
  PROVE  OfPath(x) \in Migration /\ (x \notin Migration => x = DownFile(OfPath(x)))
BY DownAssumption DEF Migration, Path, DownFile, OfPath

LEMMA NothingElse ==
  /\ Nothing \notin Texts /\ Nothing \notin Script
  /\ \A t \in Texts : t \notin Script
BY DownAssumption

LEMMA IdleSession == LocalOK("idle", Idle)
<1>1. Idle \in Session
  BY DownAssumption DEF Idle, Session
<1>. QED
  BY <1>1 DEF LocalOK, Idle

LEMMA FreshSession ==
  ASSUME NEW ts \in Seq(Target), NEW d \in BOOLEAN
  PROVE  /\ [Idle EXCEPT !.dry = d, !.targets = ts] \in Session
         /\ \A g \in [Migration -> Script \cup {Nothing}] :
              [Idle EXCEPT !.targets = ts, !.dry = d, !.staged = g] \in Session
<1>1. Idle \in Session
  BY IdleSession DEF LocalOK
<1>2. ASSUME NEW s \in Session PROVE [s EXCEPT !.dry = d, !.targets = ts] \in Session
  BY DEF Session
<1>3. ASSUME NEW s \in Session, NEW g \in [Migration -> Script \cup {Nothing}]
      PROVE  [s EXCEPT !.targets = ts, !.dry = d, !.staged = g] \in Session
  BY DEF Session
<1>. QED
  BY <1>1, <1>2, <1>3

LEMMA MoreTargets ==
  ASSUME NEW ts \in Seq(Target), ts # <<>>, Len(ts) # 1
  PROVE  Tail(ts) \in Seq(Target) /\ Tail(ts) # <<>>
<1>1. Len(ts) \in Nat /\ Len(ts) # 0
  BY EmptySeq
<1>2. Tail(ts) \in Seq(Target) /\ Len(Tail(ts)) = Len(ts) - 1
  BY HeadTailProperties
<1>3. Len(Tail(ts)) # 0
  BY <1>1, <1>2
<1>4. ASSUME Tail(ts) = <<>> PROVE FALSE
  BY <1>3, <1>4
<1>. QED
  BY <1>2, <1>4

\* Fields of a session.
LEMMA SessionFields ==
  ASSUME NEW s \in Session
  PROVE  /\ s.targets \in Seq(Target)
         /\ s.staged \in [Migration -> Script \cup {Nothing}]
         /\ s.text \in Texts \cup {Nothing}
         /\ s.turn \in 0..MaxTurns /\ s.left \in 0..MaxBlocks /\ s.answered \in 0..MaxBlocks
         /\ s.script \in Script \cup {Nothing}
         /\ s.targets # <<>> => Head(s.targets) \in Target /\ Tail(s.targets) \in Seq(Target)
BY DEF Session

\* The assignments the actions make.
LEMMA SessionUpdates ==
  ASSUME NEW s \in Session
  PROVE  /\ \A c \in Script \cup {Nothing} : [s EXCEPT !.script = c] \in Session
         /\ \A t \in Texts : [s EXCEPT !.text = t] \in Session
         /\ \A n \in 0..MaxBlocks : [s EXCEPT !.left = n, !.answered = 0] \in Session
         /\ \A n \in 0..MaxBlocks, m \in 0..MaxBlocks :
              [s EXCEPT !.left = n, !.answered = m] \in Session
         /\ \A n \in 0..MaxTurns, m \in 0..MaxBlocks :
              [s EXCEPT !.turn = n, !.answered = m] \in Session
         /\ [s EXCEPT !.committed = TRUE] \in Session
         /\ \A g \in [Migration -> Script \cup {Nothing}] : [s EXCEPT !.staged = g] \in Session
<1>1. \A c \in Script \cup {Nothing} : [s EXCEPT !.script = c] \in Session
  BY DEF Session
<1>2. \A t \in Texts : [s EXCEPT !.text = t] \in Session
  BY DEF Session
<1>3. \A n \in 0..MaxBlocks, m \in 0..MaxBlocks :
        [s EXCEPT !.left = n, !.answered = m] \in Session
  BY DEF Session
<1>4. \A n \in 0..MaxTurns, m \in 0..MaxBlocks :
        [s EXCEPT !.turn = n, !.answered = m] \in Session
  BY DEF Session
<1>5. [s EXCEPT !.committed = TRUE] \in Session
  BY DEF Session
<1>6. \A g \in [Migration -> Script \cup {Nothing}] : [s EXCEPT !.staged = g] \in Session
  BY DEF Session
<1>7. 0 \in 0..MaxBlocks
  BY DownAssumption
<1>. QED
  BY <1>1, <1>2, <1>3, <1>4, <1>5, <1>6, <1>7

-----------------------------------------------------------------------------
(* The steps of a command *)

\* Proposals are only appended, so what was accepted stays.
LEMMA StaysBacked ==
  ASSUME NEW l, NEW s, NEW P, NEW Q, Len(P) \in Nat, Len(Q) \in Nat, Len(P) <= Len(Q),
         \A i \in 1..Len(P) : Q[i] = P[i], Backed(l, s, P)
  PROVE  Backed(l, s, Q)
BY DEF Backed

\* One command moves; the others stay where they are.
LEMMA OneMoves ==
  ASSUME Commands, ProposalsOK, NEW p \in Downs, NEW l \in Labels, NEW s,
         at' = [at EXCEPT ![p] = l], session' = [session EXCEPT ![p] = s],
         LocalOK(l, s), Backed(l, s, proposals'),
         Len(proposals') \in Nat, Len(proposals) <= Len(proposals'),
         \A i \in 1..Len(proposals) : proposals'[i] = proposals[i]
  PROVE  Commands'
<1>1. s \in Session
  BY DEF LocalOK
<1>2. at' \in [Downs -> Labels] /\ session' \in [Downs -> Session]
  BY <1>1 DEF Commands
<1>3. ASSUME NEW q \in Downs
      PROVE  LocalOK(at'[q], session'[q]) /\ Backed(at'[q], session'[q], proposals')
  <2>1. CASE q = p
    BY <2>1 DEF Commands
  <2>2. CASE q # p
    <3>1. at'[q] = at[q] /\ session'[q] = session[q]
      BY <2>2 DEF Commands
    <3>2. LocalOK(at[q], session[q]) /\ Backed(at[q], session[q], proposals)
      BY DEF Commands
    <3>3. Len(proposals) \in Nat
      BY DEF ProposalsOK
    <3>4. Backed(at[q], session[q], proposals')
      BY <3>2, <3>3, StaysBacked
    <3>. QED
      BY <3>1, <3>2, <3>4
  <2>. QED
    BY <2>1, <2>2
<1>. QED
  BY <1>2, <1>3 DEF Commands

\* A command that neither stores nor holds a script moves.
LEMMA PlainMove ==
  ASSUME Commands, ProposalsOK, NEW p \in Downs, NEW l \in Labels \ {"write", "run"}, NEW s,
         at' = [at EXCEPT ![p] = l], session' = [session EXCEPT ![p] = s],
         LocalOK(l, s), UNCHANGED proposals
  PROVE  Commands'
<1>1. Backed(l, s, proposals')
  BY DEF Backed
<1>2. Len(proposals) \in Nat
  BY DEF ProposalsOK
<1>3. l \in Labels /\ proposals' = proposals
  OBVIOUS
<1>4. /\ Len(proposals') \in Nat /\ Len(proposals) <= Len(proposals')
      /\ \A i \in 1..Len(proposals) : proposals'[i] = proposals[i]
  BY <1>2, <1>3
<1>. QED
  BY <1>1, <1>3, <1>4, OneMoves

\* A command ends.
LEMMA Ends ==
  ASSUME Commands, ProposalsOK, NEW p \in Downs, End(p), UNCHANGED proposals
  PROVE  Commands'
BY PlainMove, IdleSession DEF End, To, Set, Labels

\* The locals of a command at the start of a step.
LEMMA Here ==
  ASSUME Commands, NEW p \in Downs
  PROVE  /\ at[p] \in Labels /\ session[p] \in Session
         /\ LocalOK(at[p], session[p]) /\ Backed(at[p], session[p], proposals)
         /\ at = [at EXCEPT ![p] = at[p]] /\ session = [session EXCEPT ![p] = session[p]]
BY DEF Commands

LEMMA LookUpStep ==
  ASSUME Commands, ProposalsOK, NEW p \in Downs, LookUp(p)
  PROVE  Commands'
<1>. DEFINE s == session[p]
            t == Head(s.targets)
<1>1. at[p] = "cache" /\ LocalOK("cache", s) /\ s \in Session /\ UNCHANGED proposals
  BY Here DEF LookUp, target
<1>2. CASE Cached(t.file, t.sha) = {}
  <2>1. LocalOK("read", s)
    BY <1>1 DEF LocalOK
  <2>2. at' = [at EXCEPT ![p] = "read"] /\ session' = [session EXCEPT ![p] = s]
    BY <1>2, Here DEF LookUp, To
  <2>. QED
    BY <1>1, <2>1, <2>2, PlainMove DEF Labels
<1>3. CASE Cached(t.file, t.sha) # {}
  <2>1. PICK i \in Cached(t.file, t.sha) :
          /\ session' = [session EXCEPT ![p] = [s EXCEPT !.script = proposals[i].script]]
          /\ at' = [at EXCEPT ![p] = "run"]
    BY <1>3 DEF LookUp, Set, To
  <2>. DEFINE c == proposals[i].script
              r == [s EXCEPT !.script = c]
  <2>2. /\ i \in 1..Len(proposals) /\ proposals[i] \in Proposal
        /\ proposals[i].file = t.file /\ proposals[i].sha = t.sha
        /\ c \in Script /\ c.reverts = t.file
    <3>1. i \in 1..Len(proposals) /\ proposals[i].file = t.file /\ proposals[i].sha = t.sha
      BY <2>1 DEF Cached
    <3>2. proposals[i] \in Proposal /\ proposals[i].script.reverts = proposals[i].file
      BY <3>1 DEF ProposalsOK
    <3>. QED
      BY <3>1, <3>2 DEF Proposal
  <2>3. r \in Session
    BY <1>1, <2>2, SessionUpdates
  <2>4. r.targets = s.targets /\ r.script = c /\ r.staged = s.staged /\ c # Nothing
    BY <1>1, <2>2, NothingElse DEF Session
  <2>5. LocalOK("run", r)
    BY <1>1, <2>3, <2>4 DEF LocalOK
  <2>6. proposals[i] = [file |-> t.file, sha |-> t.sha, script |-> c]
    BY <2>2 DEF Proposal
  <2>7. Backed("run", r, proposals)
    BY <2>2, <2>4, <2>6 DEF Backed
  <2>8. /\ Len(proposals') \in Nat /\ Len(proposals) <= Len(proposals')
        /\ \A j \in 1..Len(proposals) : proposals'[j] = proposals[j]
    BY <1>1 DEF ProposalsOK
  <2>9. Backed("run", r, proposals')
    BY <1>1, <2>7
  <2>. HIDE DEF r
  <2>. QED
    BY <2>1, <2>5, <2>8, <2>9, OneMoves DEF Labels, r
<1>. QED
  BY <1>2, <1>3

LEMMA ReadForwardStep ==
  ASSUME Commands, ProposalsOK, FolderOK, NEW p \in Downs, ReadForward(p)
  PROVE  Commands'
<1>. DEFINE s == session[p]
            text == folder[Head(s.targets).file]
<1>1. at[p] = "read" /\ LocalOK("read", s) /\ s \in Session /\ UNCHANGED proposals
  BY Here DEF ReadForward, target
<1>2. CASE text = Nothing
  BY <1>1, <1>2, Ends DEF ReadForward
<1>3. CASE text # Nothing
  <2>1. Head(s.targets) \in Target
    BY <1>1, SessionFields DEF LocalOK
  <2>2. Head(s.targets).file \in Migration
    BY <2>1 DEF Target
  <2>3. text \in Texts
    BY <1>3, <2>2, Paths DEF FolderOK
  <2>. DEFINE r == [s EXCEPT !.text = text]
  <2>4. r \in Session /\ r.targets = s.targets /\ r.staged = s.staged /\ r.text = text
    BY <1>1, <2>3, SessionUpdates DEF Session
  <2>5. LocalOK("ask", r)
    BY <1>1, <1>3, <2>4 DEF LocalOK
  <2>. QED
    BY <1>1, <1>3, <2>5, PlainMove DEF ReadForward, Set, To, Labels
<1>. QED
  BY <1>2, <1>3

LEMMA AskStep ==
  ASSUME Commands, ProposalsOK, NEW p \in Downs, Ask(p)
  PROVE  Commands'
<1>. DEFINE s == session[p]
<1>1. at[p] = "ask" /\ LocalOK("ask", s) /\ s \in Session /\ UNCHANGED proposals
  BY Here DEF Ask, target
<1>2. CASE s.turn = MaxTurns
  BY <1>1, <1>2, Ends DEF Ask
<1>3. CASE s.turn # MaxTurns
  <2>1. PICK n \in 0..MaxBlocks :
          /\ session' = [session EXCEPT ![p] = [s EXCEPT !.left = n, !.answered = 0]]
          /\ at' = [at EXCEPT ![p] = "tools"]
    BY <1>3 DEF Ask, Set, To
  <2>. DEFINE r == [s EXCEPT !.left = n, !.answered = 0]
  <2>2. /\ r \in Session /\ r.targets = s.targets /\ r.staged = s.staged /\ r.text = s.text
        /\ r.left = n /\ r.answered = 0 /\ r.turn = s.turn
    BY <1>1, SessionUpdates DEF Session
  <2>3. r.left + r.answered <= MaxBlocks /\ r.turn < MaxTurns
    BY <1>1, <1>3, <2>2, SessionFields, DownAssumption
  <2>4. LocalOK("tools", r)
    BY <1>1, <2>2, <2>3 DEF LocalOK
  <2>. QED
    BY <1>1, <2>1, <2>4, PlainMove DEF Labels
<1>. QED
  BY <1>2, <1>3

\* A tool call is answered: one less is left, one more answered.
LEMMA Answered ==
  ASSUME Commands, NEW p \in Downs, Calling(p)
  PROVE  LocalOK("tools", Answer(session[p]))
<1>. DEFINE s == session[p]
<1>1. at[p] = "tools" /\ s.left > 0 /\ LocalOK("tools", s) /\ s \in Session
  BY Here DEF Calling
<1>2. /\ s.left \in 0..MaxBlocks /\ s.answered \in 0..MaxBlocks /\ s.left + s.answered <= MaxBlocks
  BY <1>1, SessionFields DEF LocalOK
<1>3. s.left - 1 \in 0..MaxBlocks /\ s.answered + 1 \in 0..MaxBlocks
  BY <1>1, <1>2, DownAssumption
<1>. DEFINE r == [s EXCEPT !.left = s.left - 1, !.answered = s.answered + 1]
<1>4. Answer(s) = r
  BY DEF Answer
<1>5. /\ r \in Session /\ r.targets = s.targets /\ r.staged = s.staged /\ r.text = s.text
      /\ r.left = s.left - 1 /\ r.answered = s.answered + 1 /\ r.turn = s.turn
  BY <1>1, <1>3, SessionUpdates DEF Session
<1>6. r.left + r.answered <= MaxBlocks
  BY <1>2, <1>5
<1>. QED
  BY <1>1, <1>4, <1>5, <1>6 DEF LocalOK

\* The steps that answer a call and stage nothing.
LEMMA AnswerStep ==
  ASSUME Commands, ProposalsOK, NEW p \in Downs, Calling(p), Set(p, Answer(session[p])),
         UNCHANGED <<at, proposals>>
  PROVE  Commands'
<1>1. at' = [at EXCEPT ![p] = "tools"]
  BY Here DEF Calling
<1>. QED
  BY <1>1, Answered, PlainMove DEF Labels, Set

LEMMA ProposeStep ==
  ASSUME Commands, ProposalsOK, NEW p \in Downs, NEW f \in Migration, Propose(p, f)
  PROVE  Commands'
<1>. DEFINE s == Answer(session[p])
            c == [reverts |-> f, shown |-> s.text]
            g == [s.staged EXCEPT ![f] = c]
            r == [s EXCEPT !.staged = g]
<1>1. LocalOK("tools", s) /\ s \in Session /\ at' = [at EXCEPT ![p] = "tools"] /\ UNCHANGED proposals
  BY Here, Answered DEF Propose, Calling, LocalOK, target
<1>2. c \in Script
  BY <1>1, SessionFields DEF LocalOK, Script
<1>3. g \in [Migration -> Script \cup {Nothing}]
  BY <1>1, <1>2, SessionFields
<1>. HIDE DEF s
<1>4. /\ r \in Session /\ r.targets = s.targets /\ r.staged = g /\ r.text = s.text
      /\ r.left = s.left /\ r.answered = s.answered /\ r.turn = s.turn
  BY <1>1, <1>3, SessionUpdates DEF Session
<1>5. \A h \in Migration : g[h] # Nothing => g[h].reverts = h
  BY <1>1, SessionFields DEF LocalOK
<1>6. LocalOK("tools", r)
  BY <1>1, <1>4, <1>5 DEF LocalOK
<1>7. session' = [session EXCEPT ![p] = r]
  BY DEF Propose, Set, s
<1>. HIDE DEF r
<1>. QED
  BY <1>1, <1>6, <1>7, PlainMove DEF Labels

LEMMA CommitDownStep ==
  ASSUME Commands, ProposalsOK, NEW p \in Downs, CommitDown(p)
  PROVE  Commands'
<1>. DEFINE s == Answer(session[p])
            r == [s EXCEPT !.committed = TRUE]
<1>1. LocalOK("tools", s) /\ s \in Session /\ at' = [at EXCEPT ![p] = "tools"] /\ UNCHANGED proposals
  BY Here, Answered DEF CommitDown, Calling, LocalOK, target
<1>. HIDE DEF s
<1>2. r \in Session
  BY <1>1, SessionUpdates
<1>3. /\ r.targets = s.targets /\ r.staged = s.staged /\ r.text = s.text
      /\ r.left = s.left /\ r.answered = s.answered /\ r.turn = s.turn
  BY <1>1 DEF Session
<1>4. LocalOK("tools", r)
  BY <1>1, <1>2, <1>3 DEF LocalOK
<1>5. session' = [session EXCEPT ![p] = r]
  BY DEF CommitDown, Set, s
<1>. HIDE DEF r
<1>. QED
  BY <1>1, <1>4, <1>5, PlainMove DEF Labels

LEMMA EndTurnStep ==
  ASSUME Commands, ProposalsOK, NEW p \in Downs, EndTurn(p)
  PROVE  Commands'
<1>. DEFINE s == session[p]
            f == Head(s.targets).file
<1>1. /\ at[p] = "tools" /\ LocalOK("tools", s) /\ s \in Session /\ UNCHANGED proposals
      /\ s.turn < MaxTurns
  BY Here DEF EndTurn, target, LocalOK
<1>2. CASE End(p)
  BY <1>1, <1>2, Ends
<1>3. CASE Accepted(s) # Nothing /\ Set(p, [s EXCEPT !.script = Accepted(s)]) /\ To(p, "store")
  <2>. DEFINE r == [s EXCEPT !.script = Accepted(s)]
  <2>1. f \in Migration
    BY <1>1, SessionFields DEF LocalOK, Target
  <2>2. Accepted(s) \in Script \cup {Nothing} /\ Accepted(s).reverts = f
    BY <1>1, <1>3, <2>1, SessionFields DEF LocalOK, Accepted
  <2>3. /\ r \in Session /\ r.targets = s.targets /\ r.staged = s.staged
        /\ r.script = Accepted(s)
    BY <1>1, <2>2, SessionUpdates DEF Session
  <2>4. LocalOK("store", r)
    BY <1>1, <1>3, <2>2, <2>3 DEF LocalOK
  <2>. QED
    BY <1>1, <1>3, <2>4, PlainMove DEF Set, To, Labels
<1>4. CASE Set(p, NextTurn(s)) /\ To(p, "ask")
  <2>. DEFINE n == s.turn + 1
              m == 0
              r == [s EXCEPT !.turn = n, !.answered = m]
  <2>1. n \in 0..MaxTurns /\ m \in 0..MaxBlocks
    BY <1>1, SessionFields, DownAssumption
  <2>2. NextTurn(s) = r
    BY DEF NextTurn
  <2>3. r \in Session /\ r.targets = s.targets /\ r.staged = s.staged /\ r.text = s.text
    BY <1>1, <2>1, SessionUpdates DEF Session
  <2>4. LocalOK("ask", r)
    BY <1>1, <2>3 DEF LocalOK
  <2>. HIDE DEF r
  <2>. QED
    BY <1>1, <1>4, <2>2, <2>4, PlainMove DEF Set, To, Labels
<1>. QED
  BY <1>2, <1>3, <1>4 DEF EndTurn

LEMMA StoreStep ==
  ASSUME Commands, ProposalsOK, NEW p \in Downs, Store(p)
  PROVE  Commands' /\ ProposalsOK'
<1>. DEFINE s == session[p]
            t == Head(s.targets)
            c == [file |-> t.file, sha |-> t.sha, script |-> s.script]
<1>1. /\ at[p] = "store" /\ LocalOK("store", s) /\ s \in Session
      /\ session' = [session EXCEPT ![p] = s] /\ at' = [at EXCEPT ![p] = "write"]
      /\ proposals' = Append(proposals, c)
  BY Here DEF Store, To
<1>2. t \in Target /\ s.script \in Script /\ s.script.reverts = t.file
  BY <1>1, SessionFields DEF LocalOK
<1>3. c \in Proposal
  BY <1>2 DEF Proposal, Target
<1>4. /\ Len(proposals) \in Nat /\ Len(proposals') = Len(proposals) + 1
      /\ proposals' \in Seq(Proposal)
      /\ \A i \in 1..Len(proposals) : proposals'[i] = proposals[i]
      /\ proposals'[Len(proposals) + 1] = c
  BY <1>1, <1>3 DEF ProposalsOK
<1>5. LocalOK("write", s)
  BY <1>1 DEF LocalOK
<1>6. Backed("write", s, proposals')
  BY <1>2, <1>4 DEF Backed
<1>7. Commands'
  <2>1. Len(proposals') \in Nat /\ Len(proposals) <= Len(proposals')
    BY <1>4
  <2>. QED
    BY <1>1, <1>4, <1>5, <1>6, <2>1, OneMoves DEF Labels
<1>8. \A i \in 1..Len(proposals') : proposals'[i].script.reverts = proposals'[i].file
  BY <1>2, <1>4 DEF ProposalsOK
<1>. QED
  BY <1>4, <1>7, <1>8 DEF ProposalsOK

LEMMA WriteScriptStep ==
  ASSUME Commands, ProposalsOK, FolderOK, NEW p \in Downs, WriteScript(p)
  PROVE  Commands' /\ FolderOK'
<1>. DEFINE s == session[p]
            f == Head(s.targets).file
<1>1. /\ at[p] = "write" /\ LocalOK("write", s) /\ Backed("write", s, proposals) /\ s \in Session
      /\ session' = [session EXCEPT ![p] = s] /\ at' = [at EXCEPT ![p] = "run"]
      /\ UNCHANGED proposals
  BY Here DEF WriteScript, To, target
<1>2. LocalOK("run", s) /\ Backed("run", s, proposals)
  BY <1>1 DEF LocalOK, Backed
<1>3. /\ Len(proposals') \in Nat /\ Len(proposals) <= Len(proposals')
      /\ \A j \in 1..Len(proposals) : proposals'[j] = proposals[j]
  BY <1>1 DEF ProposalsOK
<1>4. Backed("run", s, proposals')
  BY <1>1, <1>2
<1>5. Commands'
  BY <1>1, <1>2, <1>3, <1>4, OneMoves DEF Labels
<1>6. FolderOK'
  <2>1. f \in Migration /\ s.script \in Script
    BY <1>1, SessionFields DEF LocalOK, Target
  <2>2. CASE folder' = [folder EXCEPT ![DownFile(f)] = s.script]
    <3>1. folder' \in [Path -> Texts \cup Script \cup {Nothing}]
      BY <2>1, <2>2 DEF FolderOK
    <3>2. ASSUME NEW g \in Migration
          PROVE  folder'[g] \notin Script /\ folder'[DownFile(g)] \notin Texts
      <4>1. folder'[g] = folder[g]
        BY <2>1, <2>2, Paths DEF FolderOK
      <4>2. folder'[DownFile(g)] = folder[DownFile(g)] \/ folder'[DownFile(g)] = s.script
        BY <2>1, <2>2, Paths DEF FolderOK
      <4>. QED
        BY <2>1, <4>1, <4>2, NothingElse DEF FolderOK
    <3>. QED
      BY <3>1, <3>2 DEF FolderOK
  <2>3. CASE UNCHANGED folder
    BY <2>3 DEF FolderOK
  <2>. QED
    BY <2>2, <2>3 DEF WriteScript
<1>. QED
  BY <1>5, <1>6

\* On to the next target, with what is staged.
LEMMA ProceedStep ==
  ASSUME Commands, ProposalsOK, NEW p \in Downs, at[p] = "run", Proceed(p), UNCHANGED proposals
  PROVE  Commands'
<1>. DEFINE s == session[p]
<1>1. LocalOK("run", s) /\ s \in Session
  BY Here
<1>2. CASE Len(s.targets) = 1
  BY <1>2, Ends DEF Proceed
<1>3. CASE Len(s.targets) # 1
  <2>1. s.targets \in Seq(Target) /\ s.targets # <<>>
    BY <1>1, SessionFields DEF LocalOK
  <2>2. Tail(s.targets) \in Seq(Target) /\ Tail(s.targets) # <<>>
    BY <1>3, <2>1, MoreTargets
  <2>. DEFINE r == NextTarget(s)
  <2>3. r \in Session
    BY <1>1, <2>2, FreshSession, SessionFields DEF NextTarget, Session
  <2>4. r.targets = Tail(s.targets) /\ r.staged = s.staged
    BY DEF NextTarget, Idle
  <2>5. LocalOK("cache", r)
    BY <1>1, <2>2, <2>3, <2>4 DEF LocalOK
  <2>. HIDE DEF r
  <2>6. session' = [session EXCEPT ![p] = r] /\ at' = [at EXCEPT ![p] = "cache"]
    BY <1>3 DEF Proceed, Set, To, r
  <2>. QED
    BY <2>5, <2>6, PlainMove DEF Labels
<1>. QED
  BY <1>2, <1>3

LEMMA BeginStep ==
  ASSUME Commands, ProposalsOK, RowsOK, NEW p \in Downs, NEW n \in 1..NMigrations,
         NEW dry \in BOOLEAN, Begin(p, n, dry)
  PROVE  Commands'
<1>1. PICK s \in Newest(n) :
        /\ \A i \in 1..n : order[s[i]] \in Migration
        /\ Set(p, [Idle EXCEPT !.dry = dry,
                     !.targets = [i \in 1..n |-> [file |-> order[s[i]],
                                                  sha |-> row[order[s[i]]].sha]]])
  BY DEF Begin
<1>. DEFINE ts == [i \in 1..n |-> [file |-> order[s[i]], sha |-> row[order[s[i]]].sha]]
            r == [Idle EXCEPT !.dry = dry, !.targets = ts]
<1>2. n \in Nat /\ n >= 1
  BY DownAssumption
<1>3. ASSUME NEW i \in 1..n PROVE ts[i] \in Target
  <2>1. s[i] \in Applied
    BY <1>1 DEF Newest
  <2>2. order[s[i]] \in Migration /\ row[order[s[i]]].state = "applied"
    BY <1>1, <2>1 DEF Applied
  <2>3. row[order[s[i]]].sha \in Texts
    BY <2>2, Paths DEF RowsOK
  <2>. QED
    BY <2>2, <2>3 DEF Target
<1>4. ts \in Seq(Target) /\ ts # <<>>
  <2>1. ts \in Seq(Target) /\ Len(ts) = n
    BY <1>2, <1>3
  <2>. QED
    BY <1>2, <2>1
<1>. HIDE DEF ts
<1>5. r \in Session
  BY <1>4, FreshSession
<1>6. r.targets = ts /\ \A f \in Migration : r.staged[f] = Nothing
  BY DEF Idle
<1>7. LocalOK("cache", r)
  BY <1>4, <1>5, <1>6 DEF LocalOK
<1>. HIDE DEF r
<1>8. session' = [session EXCEPT ![p] = r] /\ at' = [at EXCEPT ![p] = "cache"] /\ UNCHANGED proposals
  BY <1>1 DEF Begin, Set, To, target, r, ts
<1>. QED
  BY <1>7, <1>8, PlainMove DEF Labels

-----------------------------------------------------------------------------
(* The steps of up *)

\* One field of one row.
LEMMA RowFields ==
  ASSUME RowsOK, NEW x \in Path
  PROVE  row[x].state \in {"none", "pending", "applied", "reverted"}
BY DEF RowsOK

LEMMA UpScanStep ==
  ASSUME RowsOK, FolderOK, NEW x \in Path, UpScan(x)
  PROVE  RowsOK'
<1>. DEFINE r == [row[x] EXCEPT !.sha = folder[x], !.state = IF @ = "none" THEN "pending" ELSE @]
<1>1. row' = [row EXCEPT ![x] = r]
  BY DEF UpScan, RowsOK
<1>2. /\ folder[x] \in Texts \cup Script /\ folder[x] # Nothing
      /\ x \in Migration => folder[x] \notin Script
  BY DEF UpScan, FolderOK
<1>3. /\ r.sha = folder[x] /\ r.state \in {"pending", "reverted"}
      /\ r \in [state : {"none", "pending", "applied", "reverted"},
                sha : Texts \cup Script \cup {Nothing}]
  BY <1>2 DEF UpScan, RowsOK
<1>. HIDE DEF r
<1>4. /\ row' \in [Path -> [state : {"none", "pending", "applied", "reverted"},
                            sha : Texts \cup Script \cup {Nothing}]]
      /\ row'[x] = r /\ \A y \in Path : y # x => row'[y] = row[y]
  BY <1>1, <1>3 DEF RowsOK
<1>5. \A f \in Migration : row'[f].sha \notin Script
  BY <1>2, <1>3, <1>4, Paths DEF RowsOK
<1>6. \A y \in Path : row'[y].state # "none" => row'[y].sha # Nothing
  BY <1>2, <1>3, <1>4 DEF RowsOK
<1>7. order' \in Seq(Path)
  BY DEF UpScan, RowsOK
<1>8. UNCHANGED <<schema, escaped>>
  BY DEF UpScan, target
<1>9. \A y \in Path : row'[y].state = "applied" <=> row[y].state = "applied"
  BY <1>3, <1>4 DEF UpScan
<1>10. OnlyUpTakesAway'
  BY <1>8, <1>9, Paths DEF RowsOK, OnlyUpTakesAway
<1>. QED
  BY <1>4, <1>5, <1>6, <1>7, <1>8, <1>10 DEF RowsOK

LEMMA UpApplyStep ==
  ASSUME RowsOK, FolderOK, NEW x \in Path, UpApply(x)
  PROVE  RowsOK'
<1>. DEFINE r == [row[x] EXCEPT !.state = "applied"]
<1>1. row' = [row EXCEPT ![x] = r]
  BY DEF UpApply, RowsOK
<1>2. /\ r.sha = row[x].sha /\ r.state = "applied"
      /\ r \in [state : {"none", "pending", "applied", "reverted"},
                sha : Texts \cup Script \cup {Nothing}]
  BY DEF RowsOK
<1>. HIDE DEF r
<1>3. /\ row' \in [Path -> [state : {"none", "pending", "applied", "reverted"},
                            sha : Texts \cup Script \cup {Nothing}]]
      /\ row'[x] = r /\ \A y \in Path : y # x => row'[y] = row[y]
  BY <1>1, <1>2 DEF RowsOK
<1>4. \A f \in Migration : row'[f].sha \notin Script
  BY <1>2, <1>3, Paths DEF RowsOK
<1>5. row[x].state = "pending" /\ folder[x] # Nothing /\ UNCHANGED order
  BY DEF UpApply
<1>6. \A y \in Path : row'[y].state # "none" => row'[y].sha # Nothing
  BY <1>2, <1>3, <1>5 DEF RowsOK
<1>7. schema' \in [Migration -> Texts \cup {Nothing}] /\ escaped' \subseteq Migration /\ OnlyUpTakesAway'
  <2>. escaped' = escaped \ {x} /\ escaped' \subseteq Migration
    BY DEF UpApply, RowsOK
  <2>1. CASE x \in Migration
    <3>1. schema' = [schema EXCEPT ![x] = folder[x]]
      BY <2>1, Paths DEF UpApply, Effect
    <3>2. folder[x] \in Texts
      BY <1>5, <2>1 DEF FolderOK
    <3>3. schema' \in [Migration -> Texts \cup {Nothing}]
      BY <3>1, <3>2 DEF RowsOK
    <3>4. ASSUME NEW f \in Migration, row'[f].state = "applied"
          PROVE  schema'[f] # Nothing \/ row'[DownFile(f)].state = "applied" \/ f \in escaped'
      <4>1. CASE f = x
        BY <1>5, <3>1, <4>1 DEF RowsOK
      <4>2. CASE f # x
        <5>1. row'[f] = row[f] /\ row'[DownFile(f)] = row[DownFile(f)] /\ schema'[f] = schema[f]
          BY <1>3, <2>1, <3>1, <4>2, Paths DEF RowsOK
        <5>2. schema[f] # Nothing \/ row[DownFile(f)].state = "applied" \/ f \in escaped
          BY <3>4, <5>1 DEF RowsOK, OnlyUpTakesAway
        <5>3. f \in escaped => f \in escaped'
          BY <4>2
        <5>. QED
          BY <5>1, <5>2, <5>3
      <4>. QED
        BY <4>1, <4>2
    <3>. QED
      BY <3>3, <3>4 DEF OnlyUpTakesAway
  <2>2. CASE x \notin Migration
    <3>1. OfPath(x) \in Migration /\ x = DownFile(OfPath(x))
      BY <2>2, PathKinds
    <3>2. schema' = [schema EXCEPT ![OfPath(x)] = Nothing]
      BY <2>2 DEF UpApply, Effect
    <3>3. schema' \in [Migration -> Texts \cup {Nothing}]
      BY <3>1, <3>2 DEF RowsOK
    <3>4. ASSUME NEW f \in Migration, row'[f].state = "applied"
          PROVE  schema'[f] # Nothing \/ row'[DownFile(f)].state = "applied" \/ f \in escaped'
      <4>1. CASE f = OfPath(x)
        BY <1>2, <1>3, <3>1, <4>1
      <4>2. CASE f # OfPath(x)
        <5>1. DownFile(f) # x /\ f # x /\ f \in Path /\ DownFile(f) \in Path
          BY <2>2, <3>1, <4>2, Paths
        <5>2. row'[f] = row[f] /\ row'[DownFile(f)] = row[DownFile(f)] /\ schema'[f] = schema[f]
          BY <1>3, <3>1, <3>2, <4>2, <5>1 DEF RowsOK
        <5>3. schema[f] # Nothing \/ row[DownFile(f)].state = "applied" \/ f \in escaped
          BY <3>4, <5>2 DEF RowsOK, OnlyUpTakesAway
        <5>4. f \in escaped => f \in escaped'
          BY <5>1
        <5>. QED
          BY <5>2, <5>3, <5>4
      <4>. QED
        BY <4>1, <4>2
    <3>. QED
      BY <3>3, <3>4 DEF OnlyUpTakesAway
  <2>. QED
    BY <2>1, <2>2
<1>. QED
  BY <1>3, <1>4, <1>5, <1>6, <1>7 DEF RowsOK

LEMMA DeclareStep ==
  ASSUME RowsOK, FolderOK, NEW f \in Migration, Declare(f)
  PROVE  RowsOK'
<1>. DEFINE r == [row[f] EXCEPT !.sha = folder[f]]
<1>1. row' = [row EXCEPT ![f] = r] /\ UNCHANGED <<order, schema, escaped>> /\ f \in Path
  BY Paths DEF Declare, RowsOK, target
<1>2. folder[f] \in Texts
  BY <1>1 DEF Declare, FolderOK
<1>3. /\ r.sha = folder[f] /\ r.state = row[f].state
      /\ r \in [state : {"none", "pending", "applied", "reverted"},
                sha : Texts \cup Script \cup {Nothing}]
  BY <1>1, <1>2 DEF RowsOK
<1>. HIDE DEF r
<1>4. /\ row' \in [Path -> [state : {"none", "pending", "applied", "reverted"},
                            sha : Texts \cup Script \cup {Nothing}]]
      /\ row'[f] = r /\ \A y \in Path : y # f => row'[y] = row[y]
  BY <1>1, <1>3 DEF RowsOK
<1>5. \A g \in Migration : row'[g].sha \notin Script
  BY <1>2, <1>3, <1>4, Paths, NothingElse DEF RowsOK
<1>6. \A y \in Path : row'[y].state # "none" => row'[y].sha # Nothing
  BY <1>2, <1>3, <1>4, NothingElse DEF RowsOK
<1>7. \A y \in Path : row'[y].state = row[y].state
  BY <1>3, <1>4
<1>8. OnlyUpTakesAway'
  BY <1>1, <1>7, Paths DEF RowsOK, OnlyUpTakesAway
<1>. QED
  BY <1>1, <1>4, <1>5, <1>6, <1>8 DEF RowsOK

LEMMA ChangeStep ==
  ASSUME FolderOK, NEW f \in Migration, NEW t \in Texts \cup {Nothing}, Change(f, t)
  PROVE  FolderOK'
<1>1. folder' = [folder EXCEPT ![f] = t] /\ f \in Path
  BY Paths DEF Change
<1>2. folder' \in [Path -> Texts \cup Script \cup {Nothing}]
  BY <1>1 DEF FolderOK
<1>3. ASSUME NEW g \in Migration
      PROVE  folder'[g] \notin Script /\ folder'[DownFile(g)] \notin Texts
  <2>1. folder'[DownFile(g)] = folder[DownFile(g)]
    BY <1>1, Paths DEF FolderOK
  <2>2. folder'[g] = folder[g] \/ folder'[g] = t
    BY <1>1, Paths DEF FolderOK
  <2>. QED
    BY <2>1, <2>2, NothingElse DEF FolderOK
<1>. QED
  BY <1>2, <1>3 DEF FolderOK

\* A script that reverts f and is rolled back, whether it carries a COMMIT or not.
LEMMA RolledBackStep ==
  ASSUME RowsOK, CountersOK, NEW f \in Migration, NEW commits \in BOOLEAN,
         schema' = RolledBack(f, commits), Escape(f, commits),
         UNCHANGED <<row, order, downs, upSteps, changes>>
  PROVE  RowsOK' /\ CountersOK'
<1>1. CASE commits
  <2>1. /\ schema' = [schema EXCEPT ![f] = Nothing]
        /\ escaped' = escaped \cup {f} /\ kills' \in 0..MaxKills
    <3>1. OfPath(DownFile(f)) = f /\ DownFile(f) \notin Migration
      BY Paths
    <3>2. RolledBack(f, commits) = [schema EXCEPT ![f] = Nothing]
      BY <1>1, <3>1 DEF RolledBack, Effect
    <3>3. escaped' = escaped \cup {f} /\ kills' = kills + 1 /\ kills < MaxKills
      BY <1>1 DEF Escape
    <3>4. kills' \in 0..MaxKills
      BY <3>3, DownAssumption DEF CountersOK
    <3>. QED
      BY <3>2, <3>3, <3>4
  <2>2. schema' \in [Migration -> Texts \cup {Nothing}]
    BY <2>1 DEF RowsOK
  <2>3. \A g \in Migration : schema'[g] = schema[g] \/ g \in escaped'
    BY <2>1 DEF RowsOK
  <2>4. OnlyUpTakesAway'
    BY <2>1, <2>3 DEF RowsOK, OnlyUpTakesAway
  <2>. QED
    BY <2>1, <2>2, <2>4 DEF RowsOK, CountersOK
<1>2. CASE ~commits
  <2>1. UNCHANGED <<schema, escaped, kills>>
    BY <1>2 DEF RolledBack, Escape
  <2>. QED
    BY <2>1 DEF RowsOK, OnlyUpTakesAway, CountersOK
<1>. QED
  BY <1>1, <1>2

-----------------------------------------------------------------------------
(* The invariant *)

LEMMA Frames ==
  /\ Commands /\ UNCHANGED <<cmd, proposals>> => Commands'
  /\ FolderOK /\ UNCHANGED folder => FolderOK'
  /\ RowsOK /\ UNCHANGED <<row, order, schema, escaped>> => RowsOK'
  /\ ProposalsOK /\ UNCHANGED proposals => ProposalsOK'
  /\ CountersOK /\ UNCHANGED spent => CountersOK'
BY DEF Commands, cmd, FolderOK, RowsOK, OnlyUpTakesAway, ProposalsOK, CountersOK, spent

LEMMA DownInvInit == DownInit => DownInv
<1>. SUFFICES ASSUME DownInit PROVE DownInv
  OBVIOUS
<1>. USE DEF DownInit
<1>1. Commands
  BY IdleSession DEF Commands, Labels, LocalOK, Backed
<1>2. FolderOK
  BY Paths, NothingElse DEF FolderOK
<1>3. RowsOK
  BY Paths, NothingElse DEF RowsOK, NoFileRow, OnlyUpTakesAway
<1>4. ProposalsOK
  BY DEF ProposalsOK
<1>5. CountersOK
  BY DownAssumption DEF CountersOK
<1>. QED
  BY <1>1, <1>2, <1>3, <1>4, <1>5 DEF DownInv

\* What the steps of a command, between its begin and its end, leave alone.
LEMMA CommandStep ==
  ASSUME DownInv, NEW p \in Downs, DownStep(p)
  PROVE  DownInv'
<1>. USE Frames DEF DownInv, ledgerVars, target
<1>1. ASSUME LookUp(p) PROVE DownInv'
  <2>1. Commands'
    BY <1>1, LookUpStep
  <2>. QED
    BY <1>1, <2>1 DEF LookUp
<1>2. ASSUME ReadForward(p) PROVE DownInv'
  <2>1. Commands'
    BY <1>2, ReadForwardStep
  <2>. QED
    BY <1>2, <2>1 DEF ReadForward
<1>3. ASSUME Ask(p) PROVE DownInv'
  <2>1. Commands'
    BY <1>3, AskStep
  <2>. QED
    BY <1>3, <2>1 DEF Ask
<1>4. ASSUME Look(p) PROVE DownInv'
  <2>1. Commands'
    BY <1>4, AnswerStep DEF Look
  <2>. QED
    BY <1>4, <2>1 DEF Look
<1>5. ASSUME NEW x \in Path, GetFile(p, x) PROVE DownInv'
  <2>1. Commands'
    BY <1>5, AnswerStep, Ends DEF GetFile
  <2>. QED
    BY <1>5, <2>1 DEF GetFile
<1>6. ASSUME NEW f \in Migration, NEW commits \in BOOLEAN, Validate(p, f, commits)
      PROVE  DownInv'
  <2>1. /\ UNCHANGED <<folder, row, order, proposals, downs, upSteps, changes>>
        /\ schema' = RolledBack(f, commits) /\ Escape(f, commits)
    BY <1>6 DEF Validate
  <2>2. Commands'
    BY <1>6, AnswerStep DEF Validate
  <2>3. RowsOK' /\ CountersOK'
    BY <2>1, RolledBackStep
  <2>. QED
    BY <2>1, <2>2, <2>3
<1>7. ASSUME NEW f \in Migration, Propose(p, f) PROVE DownInv'
  <2>1. Commands'
    BY <1>7, ProposeStep
  <2>. QED
    BY <1>7, <2>1 DEF Propose
<1>8. ASSUME CommitDown(p) PROVE DownInv'
  <2>1. Commands'
    BY <1>8, CommitDownStep
  <2>. QED
    BY <1>8, <2>1 DEF CommitDown
<1>9. ASSUME BadCall(p) PROVE DownInv'
  <2>1. Commands'
    BY <1>9, Ends DEF BadCall
  <2>. QED
    BY <1>9, <2>1 DEF BadCall
<1>10. ASSUME EndTurn(p) PROVE DownInv'
  <2>1. Commands'
    BY <1>10, EndTurnStep
  <2>. QED
    BY <1>10, <2>1 DEF EndTurn
<1>11. ASSUME Store(p) PROVE DownInv'
  <2>1. Commands' /\ ProposalsOK'
    BY <1>11, StoreStep
  <2>. QED
    BY <1>11, <2>1 DEF Store
<1>12. ASSUME WriteScript(p) PROVE DownInv'
  <2>1. Commands' /\ FolderOK'
    BY <1>12, WriteScriptStep
  <2>. QED
    BY <1>12, <2>1 DEF WriteScript
<1>13. ASSUME PrintScript(p) PROVE DownInv'
  <2>1. Commands'
    BY <1>13, ProceedStep DEF PrintScript
  <2>. QED
    BY <1>13, <2>1 DEF PrintScript
<1>14. ASSUME NEW commits \in BOOLEAN, ExecuteDown(p, commits) PROVE DownInv'
  <2>. DEFINE f == session[p].script.reverts
  <2>1. Arguments # Placeholders
    BY DEF Arguments, Placeholders
  <2>2. /\ End(p) /\ UNCHANGED <<row, folder, order, proposals, downs, upSteps, changes>>
        /\ schema' = RolledBack(f, commits) /\ Escape(f, commits)
    BY <1>14, <2>1 DEF ExecuteDown
  <2>3. f \in Migration
    <3>1. at[p] = "run"
      BY <1>14 DEF ExecuteDown
    <3>2. session[p] \in Session /\ session[p].script # Nothing
      BY <3>1, Here DEF LocalOK
    <3>3. session[p].script \in Script
      BY <3>2, SessionFields
    <3>. QED
      BY <3>3 DEF Script
  <2>4. Commands'
    BY <2>2, Ends
  <2>5. RowsOK' /\ CountersOK'
    BY <2>2, <2>3, RolledBackStep
  <2>. QED
    BY <2>2, <2>4, <2>5
<1>. QED
  BY <1>1, <1>2, <1>3, <1>4, <1>5, <1>6, <1>7, <1>8, <1>9, <1>10, <1>11, <1>12, <1>13, <1>14
  DEF DownStep

LEMMA DownInvStep == DownInv /\ [DownNext]_downVars => DownInv'
<1>. SUFFICES ASSUME DownInv, [DownNext]_downVars PROVE DownInv'
  OBVIOUS
<1>. USE Frames DEF DownInv, ledgerVars, target, cmd
<1>1. ASSUME NEW x \in Path, UpScan(x) PROVE DownInv'
  <2>1. RowsOK'
    BY <1>1, UpScanStep
  <2>2. CountersOK'
    BY <1>1, DownAssumption DEF UpScan, CountersOK
  <2>. QED
    BY <1>1, <2>1, <2>2 DEF UpScan
<1>2. ASSUME NEW x \in Path, UpApply(x) PROVE DownInv'
  <2>1. RowsOK'
    BY <1>2, UpApplyStep
  <2>2. CountersOK'
    BY <1>2, DownAssumption DEF UpApply, CountersOK
  <2>. QED
    BY <1>2, <2>1, <2>2 DEF UpApply
<1>3. ASSUME NEW f \in Migration, Declare(f) PROVE DownInv'
  <2>1. RowsOK'
    BY <1>3, DeclareStep
  <2>2. CountersOK'
    BY <1>3, DownAssumption DEF Declare, CountersOK
  <2>. QED
    BY <1>3, <2>1, <2>2 DEF Declare
<1>4. ASSUME NEW f \in Migration, NEW t \in Texts \cup {Nothing}, Change(f, t) PROVE DownInv'
  <2>1. FolderOK'
    BY <1>4, ChangeStep
  <2>2. CountersOK'
    BY <1>4, DownAssumption DEF Change, CountersOK
  <2>. QED
    BY <1>4, <2>1, <2>2 DEF Change
<1>5. ASSUME NEW p \in Downs, NEW n \in 1..NMigrations, NEW dry \in BOOLEAN, Begin(p, n, dry)
      PROVE  DownInv'
  <2>1. Commands'
    BY <1>5, BeginStep
  <2>2. CountersOK'
    BY <1>5, DownAssumption DEF Begin, CountersOK
  <2>. QED
    BY <1>5, <2>1, <2>2 DEF Begin
<1>6. ASSUME NEW p \in Downs, Kill(p) PROVE DownInv'
  <2>1. Commands'
    BY <1>6, Ends DEF Kill
  <2>2. CountersOK'
    BY <1>6, DownAssumption DEF Kill, CountersOK
  <2>. QED
    BY <1>6, <2>1, <2>2 DEF Kill
<1>7. ASSUME NEW p \in Downs, DownStep(p) PROVE DownInv'
  BY <1>7, CommandStep
<1>8. CASE UNCHANGED downVars
  BY <1>8 DEF downVars
<1>. QED
  BY <1>1, <1>2, <1>3, <1>4, <1>5, <1>6, <1>7, <1>8 DEF DownNext

LEMMA DownInvariant == DownSpec => []DownInv
BY DownInvInit, DownInvStep, PTL DEF DownSpec

\* Types, and what a command has in hand at each step.
THEOREM DownTypes == DownSpec => []DownTypeOK
<1>1. DownInv => DownTypeOK
  BY DEF DownInv, Commands, Labels, LocalOK, FolderOK, RowsOK, ProposalsOK, Proposal,
         CountersOK, DownTypeOK
<1>. QED
  BY <1>1, DownInvariant, PTL

\* A script that is written, printed or executed was accepted for its target and
\* reverts it, whatever the agent stages and commits.
THEOREM RunsOnlyAccepted == DownSpec => []RunsWhatWasAccepted
<1>1. DownInv => RunsWhatWasAccepted
  BY DEF DownInv, Commands, Backed, RunsWhatWasAccepted
<1>. QED
  BY <1>1, DownInvariant, PTL

\* down takes the objects of an applied migration away in one way only, by a script
\* that ends the transaction it is run in.
THEOREM DownTakesNothing == DownSpec => []OnlyUpTakesAway
<1>1. DownInv => OnlyUpTakesAway
  BY DEF DownInv, RowsOK
<1>. QED
  BY <1>1, DownInvariant, PTL

-----------------------------------------------------------------------------
(* How far a command is from its end *)

\* The targets it has left, the statements left for the first of them, the turns left
\* of its session, and the calls left of the turn; before a request, one more than it
\* may bring.
Stage(l) == CASE l = "cache" -> 5 [] l = "read" -> 4 [] l \in {"ask", "tools"} -> 3
              [] l = "store" -> 2 [] l = "write" -> 1 [] OTHER -> 0
CallsLeft(l, s) == IF l = "ask" THEN MaxBlocks + 1 ELSE s.left
Distance(l, s) == <<Len(s.targets), Stage(l), MaxTurns - s.turn, CallsLeft(l, s)>>
Distances == Nat \X Nat \X Nat \X Nat

\* In the first of the four that differs, d is less than e.
Below(d, e) ==
  \/ d[1] < e[1]
  \/ d[1] = e[1] /\ d[2] < e[2]
  \/ d[1] = e[1] /\ d[2] = e[2] /\ d[3] < e[3]
  \/ d[1] = e[1] /\ d[2] = e[2] /\ d[3] = e[3] /\ d[4] < e[4]

\* There is no getting nearer for ever.
LEMMA LeastDistance ==
  ASSUME NEW S \in SUBSET Distances, S # {}
  PROVE  \E d \in S : \A e \in S : ~Below(e, d)
<1>1. ASSUME NEW T \in SUBSET S, T # {}, NEW k \in 1..4
      PROVE  \E d \in T : \A e \in T : d[k] <= e[k]
  <2>. DEFINE N == {e[k] : e \in T}
  <2>1. N \subseteq Nat /\ N # {}
    BY <1>1 DEF Distances
  <2>2. PICK n \in N : \A m \in N : n <= m
    BY <2>1, LeastNatural
  <2>3. PICK d \in T : d[k] = n
    BY <2>2
  <2>4. QED
    BY <2>2, <2>3
<1>2. PICK a \in S : \A e \in S : a[1] <= e[1]
  BY <1>1
<1>. DEFINE S2 == {e \in S : e[1] = a[1]}
<1>3. PICK b \in S2 : \A e \in S2 : b[2] <= e[2]
  <2>1. S2 \in SUBSET S /\ S2 # {} /\ 2 \in 1..4
    BY <1>2
  <2>2. QED
    BY <1>1, <2>1
<1>. DEFINE S3 == {e \in S2 : e[2] = b[2]}
<1>4. PICK c \in S3 : \A e \in S3 : c[3] <= e[3]
  <2>1. S3 \in SUBSET S /\ S3 # {} /\ 3 \in 1..4
    BY <1>3
  <2>2. QED
    BY <1>1, <2>1
<1>. DEFINE S4 == {e \in S3 : e[3] = c[3]}
<1>5. PICK d \in S4 : \A e \in S4 : d[4] <= e[4]
  <2>1. S4 \in SUBSET S /\ S4 # {} /\ 4 \in 1..4
    BY <1>4
  <2>2. QED
    BY <1>1, <2>1
<1>6. d \in S /\ d[1] = a[1] /\ d[2] = b[2] /\ d[3] = c[3]
  OBVIOUS
<1>7. ASSUME NEW e \in S, Below(e, d) PROVE FALSE
  <2>1. e \in Distances /\ d \in Distances
    BY <1>6
  <2>2. a[1] <= e[1]
    BY <1>2
  <2>3. e[1] = d[1] => b[2] <= e[2]
    BY <1>3, <1>6
  <2>4. e[1] = d[1] /\ e[2] = d[2] => c[3] <= e[3]
    BY <1>4, <1>6
  <2>5. e[1] = d[1] /\ e[2] = d[2] /\ e[3] = d[3] => d[4] <= e[4]
    BY <1>5, <1>6
  <2>6. QED
    BY <1>6, <1>7, <2>1, <2>2, <2>3, <2>4, <2>5 DEF Below, Distances
<1>8. QED
  BY <1>6, <1>7

LEMMA DistanceOfRunning ==
  ASSUME NEW l \in Labels, NEW s, LocalOK(l, s)
  PROVE  Distance(l, s) \in Distances
<1>1. s \in Session
  BY DEF LocalOK
<1>2. Len(s.targets) \in Nat /\ s.turn \in 0..MaxTurns /\ s.left \in 0..MaxBlocks
  BY <1>1, SessionFields
<1>3. Stage(l) \in Nat
  BY DEF Labels, Stage
<1>4. CallsLeft(l, s) \in Nat /\ MaxTurns - s.turn \in Nat
  BY <1>2, DownAssumption DEF CallsLeft
<1>5. QED
  BY <1>2, <1>3, <1>4 DEF Distance, Distances

-----------------------------------------------------------------------------
(* Every step counts *)

\* Where a step takes the command p: it ends, or is nearer to its end.
Nearer(p) ==
  \/ at'[p] = "idle"
  \/ Below(Distance(at'[p], session'[p]), Distance(at[p], session[p]))

\* The two ways the actions change the locals of p.
LEMMA Moved ==
  ASSUME Commands, NEW p \in Downs
  PROVE  /\ \A l : To(p, l) => at'[p] = l
         /\ \A s : Set(p, s) => session'[p] = s
         /\ UNCHANGED at => at'[p] = at[p]
         /\ UNCHANGED session => session'[p] = session[p]
         /\ End(p) => at'[p] = "idle"
BY DEF Commands, To, Set, End

\* A call answered, whatever else it leaves in the session.
LEMMA AnswerNears ==
  ASSUME Commands, NEW p \in Downs, Calling(p), UNCHANGED at,
         NEW s \in {Answer(session[p]), [Answer(session[p]) EXCEPT !.committed = TRUE]}
                   \cup {[Answer(session[p]) EXCEPT !.staged = g] :
                           g \in [Migration -> Script \cup {Nothing}]},
         session'[p] = s
  PROVE  Nearer(p)
<1>1. at[p] = "tools" /\ at'[p] = "tools" /\ session[p] \in Session
  BY Moved, Here DEF Calling
<1>2. /\ s.targets = session[p].targets /\ s.turn = session[p].turn
      /\ s.left = session[p].left - 1
  BY <1>1 DEF Answer, Session
<1>3. session[p].left \in Nat
  BY <1>1, SessionFields
<1>4. QED
  BY <1>1, <1>2, <1>3 DEF Nearer, Below, Distance, CallsLeft

LEMMA ToolNears ==
  ASSUME Commands, NEW p \in Downs,
         \/ Look(p) \/ CommitDown(p) \/ BadCall(p)
         \/ \E x \in Path : GetFile(p, x)
         \/ \E f \in Migration : Propose(p, f) \/ (\E commits \in BOOLEAN : Validate(p, f, commits))
  PROVE  Nearer(p)
<1>. DEFINE s == Answer(session[p])
<1>1. CASE Look(p) \/ (\E f \in Migration, commits \in BOOLEAN : Validate(p, f, commits))
  <2>1. Calling(p) /\ UNCHANGED at /\ session'[p] = s
    BY <1>1, Moved DEF Look, Validate
  <2>2. QED
    BY <2>1, AnswerNears
<1>2. CASE CommitDown(p)
  <2>1. Calling(p) /\ UNCHANGED at /\ session'[p] = [s EXCEPT !.committed = TRUE]
    BY <1>2, Moved DEF CommitDown
  <2>2. QED
    BY <2>1, AnswerNears
<1>3. ASSUME NEW f \in Migration, Propose(p, f) PROVE Nearer(p)
  <2>. DEFINE c == [reverts |-> f, shown |-> s.text]
              g == [s.staged EXCEPT ![f] = c]
  <2>1. Calling(p) /\ UNCHANGED at /\ session'[p] = [s EXCEPT !.staged[f] = c]
    BY <1>3, Moved DEF Propose
  <2>2. LocalOK("tools", s) /\ s.text \in Texts
    <3>1. at[p] = "tools" /\ LocalOK("tools", s)
      BY <2>1, Answered DEF Calling
    <3>2. s \in Session /\ s.text # Nothing
      BY <3>1 DEF LocalOK
    <3>3. QED
      BY <3>1, <3>2, SessionFields
  <2>3. g \in [Migration -> Script \cup {Nothing}]
    <3>1. s \in Session /\ c \in Script
      BY <2>2 DEF LocalOK, Script
    <3>2. s.staged \in [Migration -> Script \cup {Nothing}]
      BY <3>1, SessionFields
    <3>3. QED
      BY <3>1, <3>2
  <2>4. session'[p] = [s EXCEPT !.staged = g]
    BY <2>1
  <2>5. QED
    BY <2>1, <2>3, <2>4, AnswerNears
<1>4. CASE BadCall(p)
  BY <1>4, Moved DEF BadCall, Nearer
<1>5. ASSUME NEW x \in Path, GetFile(p, x) PROVE Nearer(p)
  <2>1. CASE folder[x] = Nothing
    BY <1>5, <2>1, Moved DEF GetFile, Nearer
  <2>2. CASE folder[x] # Nothing
    <3>1. Calling(p) /\ UNCHANGED at /\ session'[p] = s
      BY <1>5, <2>2, Moved DEF GetFile
    <3>2. QED
      BY <3>1, AnswerNears
  <2>3. QED
    BY <2>1, <2>2
<1>6. QED
  BY <1>1, <1>2, <1>3, <1>4, <1>5

LEMMA Stages ==
  /\ Stage("cache") = 5 /\ Stage("read") = 4 /\ Stage("ask") = 3 /\ Stage("tools") = 3
  /\ Stage("store") = 2 /\ Stage("write") = 1 /\ Stage("run") = 0
BY DEF Stage

LEMMA LabelsNear ==
  ASSUME Commands, NEW p \in Downs,
         LookUp(p) \/ ReadForward(p) \/ Store(p) \/ WriteScript(p)
  PROVE  Nearer(p)
<1>. DEFINE s == session[p]
<1>1. LocalOK(at[p], s) /\ s \in Session /\ Len(s.targets) \in Nat
  BY Here, SessionFields
<1>2. session'[p].targets = s.targets /\ Stage(at'[p]) < Stage(at[p]) => Nearer(p)
  BY DEF Nearer, Below, Distance
<1>3. CASE LookUp(p)
  <2>1. at[p] = "cache"
    BY <1>3 DEF LookUp
  <2>2. \/ at'[p] = "read" /\ session'[p] = s
        \/ \E c : at'[p] = "run" /\ session'[p] = [s EXCEPT !.script = c]
    BY <1>3, Moved DEF LookUp
  <2>3. session'[p].targets = s.targets
    BY <1>1, <2>2 DEF Session
  <2>4. Stage(at'[p]) < Stage(at[p])
    <3>1. at'[p] \in {"read", "run"}
      BY <2>2
    <3>2. QED
      BY <2>1, <3>1, Stages
  <2>5. QED
    BY <1>2, <2>3, <2>4
<1>4. CASE ReadForward(p)
  <2>1. at[p] = "read"
    BY <1>4 DEF ReadForward
  <2>2. \/ at'[p] = "idle"
        \/ \E t : at'[p] = "ask" /\ session'[p] = [s EXCEPT !.text = t]
    BY <1>4, Moved DEF ReadForward
  <2>3. CASE at'[p] = "idle"
    BY <2>3 DEF Nearer
  <2>4. CASE at'[p] # "idle"
    <3>1. session'[p].targets = s.targets
      BY <1>1, <2>2, <2>4 DEF Session
    <3>2. at'[p] = "ask"
      BY <2>2, <2>4
    <3>3. Stage(at'[p]) < Stage(at[p])
      BY <2>1, <3>2, Stages
    <3>4. QED
      BY <1>2, <3>1, <3>3
  <2>5. QED
    BY <2>3, <2>4
<1>5. CASE Store(p)
  <2>1. at[p] = "store" /\ at'[p] = "write" /\ session'[p] = s
    BY <1>5, Moved DEF Store
  <2>2. QED
    BY <1>2, <2>1 DEF Stage
<1>6. CASE WriteScript(p)
  <2>1. at[p] = "write" /\ at'[p] = "run" /\ session'[p] = s
    BY <1>6, Moved DEF WriteScript
  <2>2. QED
    BY <1>2, <2>1 DEF Stage
<1>7. QED
  BY <1>3, <1>4, <1>5, <1>6

\* A request takes its place among the calls of the turn, the end of a turn a turn.
LEMMA TurnNears ==
  ASSUME Commands, NEW p \in Downs, Ask(p) \/ EndTurn(p)
  PROVE  Nearer(p)
<1>. DEFINE s == session[p]
<1>1. /\ LocalOK(at[p], s) /\ s \in Session /\ Len(s.targets) \in Nat
      /\ s.turn \in 0..MaxTurns /\ MaxTurns \in Nat /\ MaxBlocks \in Nat
  BY Here, SessionFields, DownAssumption
<1>2. CASE Ask(p)
  <2>1. at[p] = "ask"
    BY <1>2 DEF Ask
  <2>2. CASE s.turn = MaxTurns
    BY <1>2, <2>2, Moved DEF Ask, Nearer
  <2>3. CASE s.turn # MaxTurns
    <3>1. PICK n \in 0..MaxBlocks :
            session'[p] = [s EXCEPT !.left = n, !.answered = 0] /\ at'[p] = "tools"
      BY <1>2, <2>3, Moved DEF Ask
    <3>. DEFINE r == [s EXCEPT !.left = n, !.answered = 0]
    <3>2. r.targets = s.targets /\ r.turn = s.turn /\ r.left = n /\ n < MaxBlocks + 1
      BY <1>1 DEF Session
    <3>. HIDE DEF r
    <3>3. QED
      BY <1>1, <2>1, <3>1, <3>2 DEF Nearer, Below, Distance, Stage, CallsLeft, r
  <2>4. QED
    BY <2>2, <2>3
<1>3. CASE EndTurn(p)
  <2>1. at[p] = "tools"
    BY <1>3 DEF EndTurn
  <2>2. \/ \E c : at'[p] = "store" /\ session'[p] = [s EXCEPT !.script = c]
        \/ at'[p] = "idle"
        \/ at'[p] = "ask" /\ session'[p] = NextTurn(s)
    BY <1>3, Moved DEF EndTurn
  <2>3. ASSUME NEW c, at'[p] = "store", session'[p] = [s EXCEPT !.script = c] PROVE Nearer(p)
    <3>1. session'[p].targets = s.targets
      BY <1>1, <2>3 DEF Session
    <3>2. QED
      BY <1>1, <2>1, <2>3, <3>1 DEF Nearer, Below, Distance, Stage
  <2>4. CASE at'[p] = "ask" /\ session'[p] = NextTurn(s)
    <3>1. session'[p].targets = s.targets /\ session'[p].turn = s.turn + 1
      BY <1>1, <2>4 DEF Session, NextTurn
    <3>2. QED
      BY <1>1, <2>1, <2>4, <3>1 DEF Nearer, Below, Distance, Stage
  <2>5. QED
    BY <2>2, <2>3, <2>4 DEF Nearer
<1>4. QED
  BY <1>2, <1>3

\* A target is done: the command ends, or has one less.
LEMMA ProceedNears ==
  ASSUME Commands, NEW p \in Downs, at[p] = "run", Proceed(p)
  PROVE  Nearer(p)
<1>. DEFINE s == session[p]
<1>1. LocalOK("run", s) /\ s \in Session
  BY Here
<1>2. s.targets \in Seq(Target) /\ s.targets # <<>>
  BY <1>1, SessionFields DEF LocalOK
<1>3. CASE Len(s.targets) = 1
  BY <1>3, Moved DEF Proceed, Nearer
<1>4. CASE Len(s.targets) # 1
  <2>1. at'[p] = "cache" /\ session'[p] = NextTarget(s)
    BY <1>4, Moved DEF Proceed
  <2>2. session'[p].targets = Tail(s.targets)
    BY <2>1 DEF NextTarget, Idle
  <2>3. Len(Tail(s.targets)) = Len(s.targets) - 1 /\ Len(s.targets) \in Nat
    BY <1>2, HeadTailProperties
  <2>4. QED
    BY <2>2, <2>3 DEF Nearer, Below, Distance
<1>5. QED
  BY <1>3, <1>4

LEMMA StepNears ==
  ASSUME Commands, NEW p \in Downs, DownStep(p)
  PROVE  Nearer(p)
<1>1. CASE LookUp(p) \/ ReadForward(p) \/ Store(p) \/ WriteScript(p)
  BY <1>1, LabelsNear
<1>2. CASE Ask(p) \/ EndTurn(p)
  BY <1>2, TurnNears
<1>3. CASE \/ Look(p) \/ CommitDown(p) \/ BadCall(p)
           \/ \E x \in Path : GetFile(p, x)
           \/ \E f \in Migration : Propose(p, f) \/ (\E commits \in BOOLEAN : Validate(p, f, commits))
  BY <1>3, ToolNears
<1>4. CASE PrintScript(p)
  BY <1>4, ProceedNears DEF PrintScript
<1>5. CASE \E commits \in BOOLEAN : ExecuteDown(p, commits)
  <2>1. at[p] = "run" /\ (Proceed(p) \/ End(p))
    BY <1>5 DEF ExecuteDown
  <2>2. End(p) => Nearer(p)
    BY Moved DEF Nearer
  <2>3. QED
    BY <2>1, <2>2, ProceedNears
<1>6. QED
  BY <1>1, <1>2, <1>3, <1>4, <1>5 DEF DownStep

\* What another command does, or anyone else, does not move this one.
LEMMA OthersStay ==
  ASSUME Commands, NEW p \in Downs, NEW q \in Downs, p # q,
         DownStep(p) \/ Kill(p) \/ (\E n \in 1..NMigrations, dry \in BOOLEAN : Begin(p, n, dry))
  PROVE  at'[q] = at[q] /\ session'[q] = session[q]
<1>1. /\ \A l : To(p, l) => at'[q] = at[q]
      /\ \A s : Set(p, s) => session'[q] = session[q]
      /\ UNCHANGED at => at'[q] = at[q]
      /\ UNCHANGED session => session'[q] = session[q]
      /\ End(p) => at'[q] = at[q] /\ session'[q] = session[q]
  BY DEF Commands, To, Set, End
<1>2. Proceed(p) => at'[q] = at[q] /\ session'[q] = session[q]
  BY <1>1 DEF Proceed
<1>3. QED
  BY <1>1, <1>2 DEF DownStep, Kill, Begin, LookUp, ReadForward, Ask, Look, GetFile, Validate,
     Propose, CommitDown, BadCall, EndTurn, Store, WriteScript, PrintScript, ExecuteDown

StaysOrNears ==
  \A p \in Downs : at[p] # "idle" =>
    /\ Distance(at[p], session[p]) \in Distances
    /\ DownStep(p) => Nearer(p)
    /\ (at'[p] = at[p] /\ session'[p] = session[p]) \/ Nearer(p)

\* A command that runs is brought nearer to its end by each of its steps, whatever the
\* agent answers, and nothing else sets it back; nearer is well-founded (LeastDistance).
\* With the fairness of DownSpec this is why every session ends.
THEOREM EveryStepCounts == DownSpec => [][StaysOrNears]_downVars
<1>1. ASSUME DownInv, [DownNext]_downVars, NEW p \in Downs, at[p] # "idle"
      PROVE  (at'[p] = at[p] /\ session'[p] = session[p]) \/ Nearer(p)
  <2>1. Commands
    BY <1>1 DEF DownInv
  <2>2. ASSUME NEW q \in Downs,
               \/ DownStep(q) \/ Kill(q)
               \/ \E n \in 1..NMigrations, dry \in BOOLEAN : Begin(q, n, dry)
        PROVE  (at'[p] = at[p] /\ session'[p] = session[p]) \/ Nearer(p)
    <3>1. CASE q # p
      BY <2>1, <2>2, <3>1, OthersStay
    <3>2. CASE q = p /\ DownStep(p)
      BY <2>1, <3>2, StepNears
    <3>3. CASE q = p /\ Kill(p)
      BY <2>1, <3>3, Moved DEF Kill, Nearer
    <3>4. CASE q = p /\ \E n \in 1..NMigrations, dry \in BOOLEAN : Begin(p, n, dry)
      BY <1>1, <3>4 DEF Begin
    <3>5. QED
      BY <2>2, <3>1, <3>2, <3>3, <3>4
  <2>3. CASE UNCHANGED cmd
    BY <2>3 DEF cmd
  <2>4. ASSUME NEW x \in Path, UpScan(x) \/ UpApply(x) PROVE UNCHANGED cmd
    BY <2>4 DEF UpScan, UpApply
  <2>5. ASSUME NEW f \in Migration, Declare(f) \/ (\E t \in Texts \cup {Nothing} : Change(f, t))
        PROVE  UNCHANGED cmd
    BY <2>5 DEF Declare, Change
  <2>6. CASE UNCHANGED downVars
    BY <2>3, <2>6 DEF downVars
  <2>7. QED
    BY <1>1, <2>2, <2>3, <2>4, <2>5, <2>6 DEF DownNext
<1>2. DownInv /\ [DownNext]_downVars => [StaysOrNears]_downVars
  <2>1. ASSUME DownInv, NEW p \in Downs
        PROVE  Distance(at[p], session[p]) \in Distances /\ (DownStep(p) => Nearer(p))
    BY <2>1, Here, DistanceOfRunning, StepNears DEF DownInv
  <2>2. QED
    BY <1>1, <2>1 DEF StaysOrNears
<1>3. QED
  BY <1>2, DownInvariant, PTL DEF DownSpec
=============================================================================
