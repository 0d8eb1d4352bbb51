----------------------------- MODULE MemoryLinks -----------------------------
(***************************************************************************)
(* Connected memories: the memory_links and memory_link_judgments tables of *)
(* memory.cpp, the thread of main.cpp that proposes links, and the recall   *)
(* that follows them.  The thread takes the memories of an account with the *)
(* fewest verdicts, asks the model about each of their near neighbours      *)
(* without the store's mutex, and writes a link and a verdict; requests     *)
(* remember and forget meanwhile, and SQLite gives a forgotten id away      *)
(* again.                                                                   *)
(*                                                                         *)
(* MemoryStore has the rest of the store.  Of it this module keeps that an  *)
(* embedding may arrive late, on an id that is another memory's by then.    *)
(* Consolidation and pruning are to it what Forget and Remember are.        *)
(***************************************************************************)
EXTENDS Integers, Sequences, FiniteSets

CONSTANTS
  MaxId,          (* bound: memory ids                                     *)
  Users, Agents, Texts,
  Inputs,         (* SUBSET [user, agent, text]: what is remembered         *)
  Similarity,     (* [Texts -> [Texts -> -10..10]]: cosines, in tenths      *)
  MinSimilarity, MaxSimilarity,   (* the band worth asking about            *)
  Neighbours,     (* candidates considered per anchor: 5 in the code        *)
  MaxAnchors,     (* anchors per run: 40 in the code                        *)
  Containing,     (* [Texts -> SUBSET Texts]: texts that contain a query    *)
  SharesTerm,     (* [Texts -> SUBSET Texts]: texts with a word of a query  *)
  Taught,         (* SUBSET Texts: deliberately taught, not logged          *)
  Recalls,        (* SUBSET [user, agent, query, k]: the recalls looked at  *)
  Anyone,         (* no agent named                                         *)
  NoRow, NoUser,
  MaxRemembered,  (* bounds: memories stored, failures of the endpoints,    *)
  MaxFaults,      (* process restarts                                       *)
  MaxRestarts

Ids == 1..MaxId

ASSUME LinkBounds ==
  {MaxId, MinSimilarity, MaxSimilarity, Neighbours, MaxAnchors, MaxRemembered, MaxFaults,
   MaxRestarts} \subseteq Nat
ASSUME LinkTexts ==
  /\ Similarity \in [Texts -> [Texts -> -10..10]]
  /\ \A t, s \in Texts : Similarity[t][s] = Similarity[s][t] /\ Similarity[t][t] = 10
ASSUME LinkRows ==
  /\ Inputs \subseteq [user : Users, agent : Agents, text : Texts]
  /\ \A u \in Users, t \in Texts :
       /\ NoRow # [user |-> u, text |-> t]
       /\ \A a \in Agents : NoRow # [user |-> u, agent |-> a, text |-> t]
       /\ \A i \in Ids : NoRow # [id |-> i, user |-> u, text |-> t]

ASSUME LinkRecalls ==
  \A r \in Recalls : /\ r.user \in Users /\ r.agent \in Agents \cup {Anyone}
                     /\ r.query \in Texts /\ r.k \in Nat \ {0}

VARIABLES
  memories,     (* id to row                                               *)
  vectors,      (* vec_memories: id to the text embedded and its partition  *)
  links, judged,(* pairs of ids                                            *)
  linker,       (* the link backfill thread                                *)
  late,         (* a row the embedding backfill has read                    *)
  (* History, read by properties and bounds only.                          *)
  answered,     (* pairs the model gave a verdict on                        *)
  stale,        (* ids given out again while something of the old row lived *)
  remembered, faults, restarts

tables == <<memories, vectors, links, judged>>
history == <<answered, stale, remembered, faults, restarts>>
vars == <<tables, linker, late, history>>

Row == [user : Users, agent : Agents, text : Texts]
Vector == [user : Users, text : Texts]
Pairs == {p \in Ids \X Ids : p[1] < p[2]}

Stored(i) == memories[i] # NoRow
Owned(u, i) == Stored(i) /\ memories[i].user = u
Pair(i, j) == IF i < j THEN <<i, j>> ELSE <<j, i>>
First(s, n) == SubSeq(s, 1, IF Len(s) < n THEN Len(s) ELSE n)
(* Rows of a query in its order: each id with how many rows come before it;  *)
(* LIMIT keeps the small ranks, and the loop over them takes the least.      *)
Ranked(S, Before(_, _)) ==
  {[id |-> i, rank |-> Cardinality({j \in S : Before(j, i)})] : i \in S}
Foremost(R) == CHOOSE r \in R : \A q \in R : r.rank <= q.rank
Of(i, P) == {p \in P : i \in {p[1], p[2]}}
Newest == CHOOSE m \in 0..MaxId : (m = 0 \/ Stored(m)) /\ \A i \in Ids : Stored(i) => i <= m
NewId == Newest + 1

Asleep == [at |-> "asleep", todo |-> {}, user |-> NoUser, anchors |-> {},
           anchor |-> 0, candidates |-> {}]

Init ==
  /\ memories = [i \in Ids |-> NoRow]
  /\ vectors = [i \in Ids |-> NoRow]
  /\ links = {} /\ judged = {}
  /\ linker = Asleep /\ late = NoRow
  /\ answered = {} /\ stale = {} /\ remembered = 0 /\ faults = 0 /\ restarts = 0

Fault == faults < MaxFaults /\ faults' = faults + 1

(***************************************************************************)
(* Requests                                                                *)
(***************************************************************************)
(* Something still refers to whatever had id i before.                       *)
InUse(i) == \/ vectors[i] # NoRow
            \/ late # NoRow /\ late.id = i
            \/ i = linker.anchor
            \/ \E c \in linker.candidates : c.id = i

Remember(row, embedded) ==
  /\ remembered < MaxRemembered /\ NewId <= MaxId
  /\ \A i \in Ids : memories[i] # row
  /\ memories' = [memories EXCEPT ![NewId] = row]
  /\ vectors' = IF embedded THEN [vectors EXCEPT ![NewId] = [user |-> row.user, text |-> row.text]]
                ELSE vectors
  /\ remembered' = remembered + 1
  /\ stale' = IF InUse(NewId) THEN stale \cup {NewId} ELSE stale
  /\ UNCHANGED <<links, judged, linker, late, answered, faults, restarts>>

(* ON DELETE CASCADE, with PRAGMA foreign_keys.                              *)
(* CascadeNone: the pragma left out.                                         *)
CascadeNone(i, P) == P
Cascade(i, P) == P \ Of(i, P)

Forget(i) ==
  /\ Stored(i)
  /\ memories' = [memories EXCEPT ![i] = NoRow]
  /\ vectors' = [vectors EXCEPT ![i] = NoRow]
  /\ links' = Cascade(i, links)
  /\ judged' = Cascade(i, judged)
  /\ answered' = answered \ Of(i, answered)
  /\ stale' = stale \ {i}
  /\ UNCHANGED <<linker, late, remembered, faults, restarts>>

(* The embedding backfill reads a row without vector, and later files the    *)
(* vector under the id and account it read.                                  *)
ReadLate(i) ==
  /\ late = NoRow /\ Stored(i) /\ vectors[i] = NoRow
  /\ late' = [id |-> i, user |-> memories[i].user, text |-> memories[i].text]
  /\ UNCHANGED <<tables, linker, history>>
WriteLate ==
  /\ late # NoRow
  /\ vectors' = [vectors EXCEPT ![late.id] = [user |-> late.user, text |-> late.text]]
  /\ late' = NoRow
  /\ UNCHANGED <<memories, links, judged, linker, history>>

(***************************************************************************)
(* The link backfill thread                                                 *)
(***************************************************************************)
Wake ==
  /\ linker.at = "asleep"
  /\ linker' = [linker EXCEPT !.at = "pool",
                  !.todo = {memories[i].user : i \in {j \in Ids : Stored(j)}}]
  /\ UNCHANGED <<tables, late, history>>

(* The memories of an account with the fewest verdicts so far.               *)
Verdicts(i) == Cardinality(Of(i, judged))
FewerVerdicts(i, j) == \/ Verdicts(i) < Verdicts(j)
                       \/ Verdicts(i) = Verdicts(j) /\ i < j
Anchors(u) ==
  {r \in Ranked({i \in Ids : Owned(u, i) /\ vectors[i] # NoRow}, FewerVerdicts) :
     r.rank < MaxAnchors}

BeginPool(u) ==
  /\ linker.at = "pool" /\ u \in linker.todo
  /\ linker' = [linker EXCEPT !.at = "scan", !.todo = @ \ {u}, !.user = u, !.anchors = Anchors(u)]
  /\ UNCHANGED <<tables, late, history>>

(* semantic_available: the last embedding failed.                            *)
SkipPool(u) ==
  /\ linker.at = "pool" /\ u \in linker.todo
  /\ linker' = [linker EXCEPT !.todo = @ \ {u}]
  /\ Fault
  /\ UNCHANGED <<tables, late, answered, stale, remembered, restarts>>

EndRun ==
  /\ linker.at = "pool" /\ linker.todo = {}
  /\ linker' = Asleep
  /\ UNCHANGED <<tables, late, history>>

(* The nearest vectors of a partition.                                       *)
Closer(t, i, j) ==
  \/ Similarity[t][vectors[i].text] > Similarity[t][vectors[j].text]
  \/ Similarity[t][vectors[i].text] = Similarity[t][vectors[j].text] /\ i < j
Nearest(u, t, n) ==
  {r \in Ranked({i \in Ids : vectors[i] # NoRow /\ vectors[i].user = u},
               LAMBDA i, j : Closer(t, i, j)) : r.rank < n}

(* AroundWithoutSelf: forgets that the anchor matches itself.                *)
AroundWithoutSelf == Neighbours
Around == Neighbours + 1

InBand(s) == MinSimilarity <= s /\ s <= MaxSimilarity
Candidates(a) ==
  IF vectors[a] = NoRow \/ ~Owned(linker.user, a) THEN {}
  ELSE {c \in Nearest(linker.user, vectors[a].text, Around) :
          /\ c.id # a /\ Stored(c.id) /\ memories[c.id].agent = memories[a].agent
          /\ InBand(Similarity[vectors[a].text][vectors[c.id].text])
          /\ Pair(a, c.id) \notin judged}

ScanAnchor ==
  /\ linker.at = "scan" /\ linker.anchors # {}
  /\ LET a == Foremost(linker.anchors)
     IN linker' = [linker EXCEPT !.at = "ask", !.anchors = @ \ {a}, !.anchor = a.id,
                                 !.candidates = Candidates(a.id)]
  /\ UNCHANGED <<tables, late, history>>

Asking == linker.at = "ask" /\ linker.candidates # {}
Candidate == Foremost(linker.candidates)
Asked == Pair(linker.anchor, Candidate.id)
Answered(at) == [linker EXCEPT !.at = at, !.candidates = @ \ {Candidate}]

(* link_memories: both ends must be there and belong to the account.         *)
(* LinkedUnchecked: without asking whose they are.                           *)
LinkedUnchecked(u, p) ==
  IF Stored(p[1]) /\ Stored(p[2]) THEN links \cup {p} ELSE links
Linked(u, p) ==
  IF Owned(u, p[1]) /\ Owned(u, p[2]) THEN links \cup {p} ELSE links

JudgeRelated ==
  /\ Asking
  /\ links' = Linked(linker.user, Asked)
  /\ linker' = [linker EXCEPT !.at = "related"]
  /\ UNCHANGED <<memories, vectors, judged, late, history>>

JudgeUnrelated ==
  /\ Asking
  /\ linker' = [linker EXCEPT !.at = "unrelated"]
  /\ UNCHANGED <<tables, late, history>>

(* A failure of the model is not a verdict: the pair stays unjudged.         *)
JudgeThrows ==
  /\ Asking
  /\ linker' = Answered("ask")
  /\ Fault
  /\ UNCHANGED <<tables, late, answered, stale, remembered, restarts>>

(* The verdict is recorded either way.                                       *)
(* VerdictIfRelated: only the positive ones.                                 *)
VerdictIfRelated(p) == IF linker.at = "related" THEN judged \cup {p} ELSE judged
Verdict(p) == judged \cup {p}

RecordVerdict ==
  /\ linker.at \in {"related", "unrelated"}
  /\ Stored(Asked[1]) /\ Stored(Asked[2])
  /\ judged' = Verdict(Asked)
  /\ answered' = answered \cup {Asked}
  /\ linker' = Answered("ask")
  /\ UNCHANGED <<memories, vectors, links, late, stale, remembered, faults, restarts>>

(* One of the two is gone: the insert violates its foreign key and throws,   *)
(* and with it ends the run, for every account.                              *)
AbortRun ==
  /\ linker.at \in {"related", "unrelated"}
  /\ ~(Stored(Asked[1]) /\ Stored(Asked[2]))
  /\ linker' = Asleep
  /\ UNCHANGED <<tables, late, history>>

EndAnchor ==
  /\ linker.at = "ask" /\ linker.candidates = {}
  /\ linker' = [linker EXCEPT !.at = "scan", !.anchor = 0]
  /\ UNCHANGED <<tables, late, history>>

EndPool ==
  /\ linker.at = "scan" /\ linker.anchors = {}
  /\ linker' = [linker EXCEPT !.at = "pool", !.user = NoUser]
  /\ UNCHANGED <<tables, late, history>>

LinkerStep ==
  \/ Wake \/ EndRun \/ ScanAnchor \/ JudgeRelated \/ JudgeUnrelated \/ JudgeThrows
  \/ RecordVerdict \/ AbortRun \/ EndAnchor \/ EndPool
  \/ \E u \in Users : BeginPool(u) \/ SkipPool(u)

Restart ==
  /\ restarts < MaxRestarts /\ restarts' = restarts + 1
  /\ linker' = Asleep /\ late' = NoRow
  /\ UNCHANGED <<tables, answered, stale, remembered, faults>>

Next ==
  \/ \E row \in Inputs, embedded \in BOOLEAN : Remember(row, embedded)
  \/ \E i \in Ids : Forget(i) \/ ReadLate(i)
  \/ WriteLate \/ LinkerStep \/ Restart

Spec == Init /\ [][Next]_vars
(* The thread sleeps a fixed time and calls the model with a timeout.        *)
FairSpec == Spec /\ WF_vars(LinkerStep)

(***************************************************************************)
(* recall: what the flat search finds, widened by links and by terms.  A    *)
(* hit is an id and its score, in thousandths of a percent of a cosine.     *)
(***************************************************************************)
Hit(i, score) == [id |-> i, score |-> score]
SourceWeight(t) == IF t \in Taught THEN 130 ELSE 100
IdsOf(hits) == {hits[n].id : n \in DOMAIN hits}
(* What ORDER BY gives: the nth has n - 1 before it.                         *)
InOrder(S, before) ==
  [n \in 1..Cardinality(S) |->
     CHOOSE s \in S : Cardinality({r \in S : <<r, s>> \in before}) = n - 1]
Ascending(S) == {p \in S \X S : p[1] < p[2]}
Descending(S) == {p \in S \X S : p[1] > p[2]}
Nearer(S, t) == {p \in S \X S : Closer(t, p[1], p[2])}
(* stable_sort by score, the best first.                                     *)
Better(hits, m, n) ==
  hits[m].score > hits[n].score \/ (hits[m].score = hits[n].score /\ m < n)
BestFirst(hits) == {p \in (DOMAIN hits) \X (DOMAIN hits) : Better(hits, p[1], p[2])}
ByScore(hits) ==
  LET order == InOrder(DOMAIN hits, BestFirst(hits))
  IN [n \in DOMAIN hits |-> hits[order[n]]]

Visible(r, i) == Owned(r.user, i) /\ r.agent \in {Anyone, memories[i].agent}

Semantic(r) ==
  LET near == {i \in {c.id : c \in Nearest(r.user, r.query, 8 * r.k)} : Visible(r, i)}
      found == InOrder(near, Nearer(near, r.query))
      score(i) == 100 * Similarity[r.query][vectors[i].text] * SourceWeight(memories[i].text)
  IN First(ByScore([n \in DOMAIN found |-> Hit(found[n], score(found[n]))]), r.k)

Keyword(r) ==
  LET match == {i \in Ids : Visible(r, i) /\ memories[i].text \in Containing[r.query]}
      found == InOrder(match, Descending(match))
      score(i) == 1000 * SourceWeight(memories[i].text)
  IN First([n \in DOMAIN found |-> Hit(found[n], score(found[n]))], r.k)

Direct(r, embedded) ==
  LET found == Semantic(r) IN IF embedded /\ found # <<>> THEN found ELSE Keyword(r)

(* LINK_DECAY.  InheritedWhole: without it.                                  *)
InheritedWhole(score) == score
Inherited(score) == (6 * score) \div 10

(* One hop from the hits there were, until there are k.                      *)
OverLinks(r, anchor, present) ==
  LET ends == {i \in Ids \ {anchor.id} : /\ Pair(anchor.id, i) \in links
                                         /\ Visible(r, i) /\ i \notin present}
      order == InOrder(ends, Ascending(ends))
  IN [n \in DOMAIN order |-> Hit(order[n], Inherited(anchor.score))]
Hop(r, hits, found, anchor) ==
  IF Len(found) >= r.k THEN found
  ELSE found \o OverLinks(r, anchor, IdsOf(hits) \cup IdsOf(found))
ExpandLinks(r, hits) ==
  LET found[n \in 0..Len(hits)] ==
        IF n = 0 THEN <<>> ELSE Hop(r, hits, found[n - 1], hits[n])
  IN found[Len(hits)]

(* floor_score: the lowest, for which 0 is no score.                         *)
Lower(floor, score) == IF floor = 0 \/ score < floor THEN score ELSE floor
Floor(hits) ==
  LET floor[n \in 0..Len(hits)] ==
        IF n = 0 THEN 0 ELSE Lower(floor[n - 1], hits[n].score)
  IN floor[Len(hits)]
(* FTS_CEILING under the weakest hit, FTS_ALONE without one.                 *)
(* TermBaseFlat: every term match enters at the same score.                  *)
TermBaseFlat(hits) == 50000
TermBase(hits) == IF hits = <<>> THEN 50000 ELSE (9 * Floor(hits)) \div 10
FtsFill(r, hits) ==
  LET terms == {i \in Ids : Visible(r, i) /\ memories[i].text \in SharesTerm[r.query]}
      order == First(InOrder(terms, Ascending(terms)), 4 * r.k)
      new == {order[n] : n \in DOMAIN order} \ IdsOf(hits)
      fresh == InOrder(new, Ascending(new))
      base == TermBase(hits)
  IN IF Len(hits) >= r.k THEN <<>>
     ELSE First([n \in DOMAIN fresh |-> Hit(fresh[n], (base * (100 - n)) \div 100)],
                r.k - Len(hits))

Widen(r, direct) ==
  LET linked == direct \o ExpandLinks(r, direct)
  IN First(ByScore(linked \o FtsFill(r, linked)), r.k)

(***************************************************************************)
(* Properties                                                              *)
(***************************************************************************)
(* A link joins two memories of one account, both still there: "a link whose *)
(* ends belong to two different accounts is the one thing here that must be  *)
(* impossible", whatever was forgotten, recycled or embedded late while the  *)
(* model was asked.  Unless an id was given out again in between, they are   *)
(* also memories of one agent, alike without being the same fact.            *)
LinksJoinOneAccount ==
  \A p \in links :
    /\ \E u \in Users : Owned(u, p[1]) /\ Owned(u, p[2])
    /\ {p[1], p[2]} \cap stale = {} =>
         /\ memories[p[1]].agent = memories[p[2]].agent
         /\ InBand(Similarity[memories[p[1]].text][memories[p[2]].text])

(* "a second run does not re-ask the same question": while two memories live *)
(* the model is asked about them until it has given one verdict, over runs,  *)
(* crashes and failures of the model.                                        *)
NoQuestionTwice ==
  Asking => Asked \notin answered

(* What the spine of recall stands on: the cosines of an account's texts are *)
(* above zero.  Below it, a factor less than one lifts a score.              *)
CosinesPositive == \A t, s \in Texts : Similarity[t][s] > 0

(* Widening keeps the spine: the best of the direct hits is first, and a     *)
(* direct hit comes back only with all that are better, after them, those of *)
(* one score in the order the flat search gave them; whatever a link brought *)
(* comes one hop after its anchor and below it; term matches come last; and  *)
(* everything is the caller's, once.                                         *)
RecallKeepsSpine ==
  \A r \in Recalls, embedded \in BOOLEAN :
    LET direct == Direct(r, embedded)
        out == Widen(r, direct)
        found == IdsOf(direct)
        linked(i) == \E d \in found : Pair(d, i) \in links
    IN /\ \A m, n \in DOMAIN out : out[m].id = out[n].id => m = n
       /\ Len(out) <= r.k
       /\ \A n \in DOMAIN out : Visible(r, out[n].id)
       /\ direct # <<>> => out[1].id \in found
       /\ \A m, n \in DOMAIN direct : Better(direct, m, n) =>
            \A q \in DOMAIN out : out[q].id = direct[n].id =>
              \E p \in DOMAIN out : p < q /\ out[p].id = direct[m].id
       /\ \A n \in DOMAIN out : out[n].id \notin found =>
            \/ \E d \in DOMAIN direct : /\ Pair(direct[d].id, out[n].id) \in links
                                        /\ direct[d].score > out[n].score
            \/ \A m \in n..Len(out) : out[m].id \notin found /\ ~linked(out[m].id)

(* Two memories of an account and an agent, embedded and alike, are judged   *)
(* sooner or later, unless one of them goes: a capped run is resumed where   *)
(* attention was least.                                                      *)
Alike(i, j) ==
  /\ Stored(i) /\ Stored(j) /\ vectors[i] # NoRow /\ vectors[j] # NoRow
  /\ memories[i].user = memories[j].user /\ memories[i].agent = memories[j].agent
  /\ \A e \in {i, j} : vectors[e] = [user |-> memories[e].user, text |-> memories[e].text]
  /\ InBand(Similarity[memories[i].text][memories[j].text])
PairsGetJudged ==
  \A p \in Pairs : (Alike(p[1], p[2]) /\ p \notin judged) ~> (p \in judged \/ ~Alike(p[1], p[2]))
=============================================================================
