----------------------------- MODULE MemoryStore -----------------------------
(***************************************************************************)
(* Long-term memory: the memories and vec_memories tables of memory.cpp and *)
(* the three parties that work on them.  Requests remember, recall and      *)
(* forget; the start-up thread of main.cpp fills in missing embeddings; the *)
(* consolidation thread merges near-duplicates and prunes what was never    *)
(* used.  Each holds the store's mutex while it reads or writes and lets go *)
(* of it for the embedding endpoint and for the model, and that is where    *)
(* the others come in.                                                      *)
(*                                                                         *)
(* A text stands for the facts it states; an embedding is the text it was   *)
(* computed from.  Each account has one memory scope.                       *)
(***************************************************************************)
EXTENDS Integers, FiniteSets

CONSTANTS
  MaxId,          (* bound: memory ids                                     *)
  Users, Texts, Facts,
  FactsOf,        (* [Texts -> SUBSET Facts]                               *)
  Alike,          (* [Texts -> SUBSET Texts]: within min_similarity        *)
  NoRow, NoUser,
  MaxRetries,     (* the backfill thread's patience: 12 in the code        *)
  MaxRemembered,  (* bounds: memories stored, process restarts             *)
  MaxRestarts

Ids == 1..MaxId
Sources == {"auto", "user", "consolidated"}

ASSUME BoundsAssumption == {MaxId, MaxRetries, MaxRemembered, MaxRestarts} \subseteq Nat
ASSUME TextsAssumption ==
  /\ FactsOf \in [Texts -> SUBSET Facts]
  /\ Alike \in [Texts -> SUBSET Texts]
  /\ \A t \in Texts : t \in Alike[t] /\ \A s \in Alike[t] : t \in Alike[s]

VARIABLES
  memories,     (* id to row                                               *)
  vectors,      (* vec_memories: id to the text embedded and its partition  *)
  fill,         (* the backfill thread                                     *)
  merge,        (* the consolidation thread                                *)
  (* History, read by properties and bounds only.                          *)
  owed,         (* facts an account asked to remember and did not forget    *)
  pruned,       (* those of them that a prune took the last word of         *)
  stale,        (* rows on an id given out while something of the old one lived *)
  remembered, restarts

history == <<owed, pruned, stale, remembered, restarts>>
vars == <<memories, vectors, fill, merge, history>>

Row == [user : Users, text : Texts, source : Sources, recalled : BOOLEAN]
Vector == [user : Users, text : Texts]
ASSUME RowsAssumption == NoRow \notin Row /\ NoRow \notin Vector

(***************************************************************************)
(* Helpers                                                                 *)
(***************************************************************************)
Stored(i) == memories[i] # NoRow
Missing == {i \in Ids : Stored(i) /\ vectors[i] = NoRow}
Holding(u, t) == {i \in Ids : Stored(i) /\ memories[i].user = u /\ memories[i].text = t}
Least(S) == CHOOSE i \in S : \A j \in S : i <= j

(* INTEGER PRIMARY KEY without AUTOINCREMENT: one past the largest id.       *)
NewId == 1 + (CHOOSE m \in 0..MaxId :
                /\ m = 0 \/ Stored(m)
                /\ \A i \in Ids : Stored(i) => i <= m)

(* Something still refers to whatever had id i before.                       *)
InUse(i) == \/ vectors[i] # NoRow
            \/ \E p \in fill.pending : p.id = i
            \/ \E m \in merge.cluster : m.id = i

Said(u, t) == {<<u, f>> : f \in FactsOf[t]}
Known(u, S) == UNION {Said(u, memories[i].text) :
                        i \in {j \in S : Stored(j) /\ memories[j].user = u}}

FillStart == [phase |-> "pass", pending |-> {}, progress |-> FALSE, retries |-> 0]
MergeIdle == [todo |-> {}, user |-> NoUser, seeds |-> {}, claimed |-> {}, cluster |-> {}]

Init ==
  /\ memories = [i \in Ids |-> NoRow]
  /\ vectors = [i \in Ids |-> NoRow]
  /\ fill = FillStart
  /\ merge = MergeIdle
  /\ owed = {} /\ pruned = {} /\ stale = {} /\ remembered = 0 /\ restarts = 0

(***************************************************************************)
(* Requests                                                                *)
(***************************************************************************)
(* INSERT OR IGNORE: a text the account holds stays as it is, its source too. *)
(* IgnoredNever: the unique index gone.                                      *)
IgnoredNever(u, t) == FALSE
Ignored(u, t) == Holding(u, t) # {}

(* remember, when the text is not ignored.  Without an embedding the row      *)
(* waits for the backfill -- next to whatever vector the id still has.  A     *)
(* source is "auto" for what the agent logs of a conversation and "user" for *)
(* what was asked for, in the panel or by the model's remember tool.         *)
Remember(u, t, source, embedded) ==
  /\ remembered < MaxRemembered /\ NewId <= MaxId
  /\ ~Ignored(u, t)
  /\ memories' = [memories EXCEPT ![NewId] =
                    [user |-> u, text |-> t, source |-> source, recalled |-> FALSE]]
  /\ vectors' = IF embedded THEN [vectors EXCEPT ![NewId] = [user |-> u, text |-> t]]
                            ELSE vectors
  /\ remembered' = remembered + 1
  /\ owed' = IF source = "user" /\ ~InUse(NewId) THEN owed \cup Said(u, t) ELSE owed
  /\ stale' = IF InUse(NewId) THEN stale \cup {NewId} ELSE stale
  /\ UNCHANGED <<pruned, fill, merge, restarts>>

(* recall counts its hits (touch_recalled).                                  *)
Recall(i) ==
  /\ Stored(i)
  /\ memories' = [memories EXCEPT ![i].recalled = TRUE]
  /\ UNCHANGED <<vectors, fill, merge, history>>

Drop(i) ==
  /\ Stored(i)
  /\ memories' = [memories EXCEPT ![i] = NoRow]
  /\ owed' = owed \ Said(memories[i].user, memories[i].text)
  /\ stale' = stale \ {i}
  /\ UNCHANGED <<pruned, remembered>>

Forget(i) ==
  /\ Drop(i)
  /\ vectors' = [vectors EXCEPT ![i] = NoRow]
  /\ UNCHANGED <<fill, merge, restarts>>

(***************************************************************************)
(* The backfill thread: passes of backfill_embeddings                       *)
(***************************************************************************)
FillCollect ==
  /\ fill.phase = "pass"
  /\ fill' = [fill EXCEPT !.phase = "filling", !.progress = FALSE,
                !.pending = {[id |-> i, user |-> memories[i].user, text |-> memories[i].text]
                             : i \in Missing}]
  /\ UNCHANGED <<memories, vectors, merge, history>>

NextPending == CHOOSE p \in fill.pending : \A q \in fill.pending : p.id <= q.id

(* The vector of the row as it was read, under the id it had.                *)
(* FillVectorGuessing: filed under the account of the pass's first row.      *)
FillVectorGuessing(p) == [user |-> CHOOSE u \in Users : TRUE, text |-> p.text]
FillVector(p) == [user |-> p.user, text |-> p.text]

FillOne ==
  /\ fill.phase = "filling" /\ fill.pending # {}
  /\ vectors' = [vectors EXCEPT ![NextPending.id] = FillVector(NextPending)]
  /\ fill' = [fill EXCEPT !.pending = @ \ {NextPending}, !.progress = TRUE]
  /\ UNCHANGED <<memories, merge, history>>

(* The endpoint is down, or the insert failed: the pass is over.             *)
FillFails ==
  /\ fill.phase = "filling" /\ fill.pending # {}
  /\ fill' = [fill EXCEPT !.pending = {}]
  /\ UNCHANGED <<memories, vectors, merge, history>>

FillEnd ==
  /\ fill.phase = "filling" /\ fill.pending = {}
  /\ fill' = IF fill.progress THEN FillStart ELSE [fill EXCEPT !.phase = "count"]
  /\ UNCHANGED <<memories, vectors, merge, history>>

(* A pass that filled nothing: done, or the endpoint is down.                *)
(* FillCountNothing: taken for done without asking what is still missing.    *)
FillCountNothing ==
  /\ fill.phase = "count"
  /\ fill' = [fill EXCEPT !.phase = "stopped"]
  /\ UNCHANGED <<memories, vectors, merge, history>>
FillCount ==
  /\ fill.phase = "count"
  /\ fill' = IF Missing = {} THEN [fill EXCEPT !.phase = "stopped"]
             ELSE [fill EXCEPT !.retries = @ + 1,
                               !.phase = IF fill.retries >= MaxRetries THEN "gave_up" ELSE "pass"]
  /\ UNCHANGED <<memories, vectors, merge, history>>

FillStep == FillCollect \/ FillOne \/ FillFails \/ FillEnd \/ FillCount

(***************************************************************************)
(* The consolidation thread                                                *)
(***************************************************************************)
Wake ==
  /\ merge = MergeIdle
  /\ merge' = [merge EXCEPT !.todo = {memories[i].user : i \in {j \in Ids : Stored(j)}}]
  /\ UNCHANGED <<memories, vectors, fill, history>>

(* The candidates of the next account; none while embeddings are off.        *)
BeginUser(u, semantic) ==
  /\ merge.user = NoUser /\ u \in merge.todo
  /\ merge' = [merge EXCEPT !.todo = @ \ {u}, !.user = u, !.claimed = {},
                 !.seeds = {i \in Ids : /\ semantic /\ Stored(i) /\ memories[i].user = u
                                        /\ vectors[i] # NoRow}]
  /\ UNCHANGED <<memories, vectors, fill, history>>

(* The rows joined to the account's vectors near the seed's.  The account is *)
(* the vector's, and the row is whatever has that id.                        *)
Cluster(seed) ==
  LET near == {i \in Ids \ merge.claimed :
                 /\ Stored(i) /\ vectors[i] # NoRow
                 /\ vectors[i].user = merge.user
                 /\ vectors[i].text \in Alike[vectors[seed].text]}
  IN IF vectors[seed] = NoRow \/ ~Stored(seed) \/ vectors[seed].user # merge.user THEN {}
     ELSE {[id |-> i, text |-> memories[i].text, owner |-> memories[i].user] : i \in near}

(* SeedScannedKeepsIt: the seed stays in the list of candidates.             *)
SeedScannedKeepsIt(seed) == merge.seeds
SeedScanned(seed) == merge.seeds \ {seed}

ScanSeed ==
  /\ merge.user # NoUser /\ merge.cluster = {} /\ merge.seeds # {}
  /\ LET seed == Least(merge.seeds)
         found == IF seed \in merge.claimed THEN {} ELSE Cluster(seed)
         kept == IF Cardinality(found) < 2 THEN {} ELSE found
     IN merge' = [merge EXCEPT !.seeds = SeedScanned(seed), !.cluster = kept,
                               !.claimed = @ \cup {m.id : m \in kept}]
  /\ UNCHANGED <<memories, vectors, fill, history>>

(* KEEP ALL, an empty answer, an error of the model or a rollback.           *)
KeepCluster ==
  /\ merge.cluster # {}
  /\ merge' = [merge EXCEPT !.cluster = {}]
  /\ UNCHANGED <<memories, vectors, fill, history>>

(* The merged sentence states all the cluster's texts did; it may be one the *)
(* account already holds.  Originals go by id, the row that now holds the    *)
(* sentence excepted.  OriginalsWithIt: not excepted.                        *)
OriginalsWithIt(new) == {m.id : m \in merge.cluster}
Originals(new) == {m.id : m \in merge.cluster} \ {new}

MergeCluster(t, embedded) ==
  /\ merge.cluster # {}
  /\ UNION {FactsOf[m.text] : m \in merge.cluster} \subseteq FactsOf[t]
  /\ LET held == Holding(merge.user, t)
         new == IF held # {} THEN Least(held) ELSE NewId
         row == IF held # {} THEN memories[new]
                ELSE [user |-> merge.user, text |-> t, source |-> "consolidated",
                      recalled |-> FALSE]
         reused == held = {} /\ InUse(new)
     IN /\ new <= MaxId
        /\ memories' = [i \in Ids |-> IF i \in Originals(new) THEN NoRow
                                      ELSE IF i = new THEN row ELSE memories[i]]
        /\ vectors' = [i \in Ids |->
             IF embedded /\ i = new THEN [user |-> merge.user, text |-> t]
             ELSE IF i \in Originals(new) THEN NoRow ELSE vectors[i]]
        /\ stale' = (IF reused THEN stale \cup {new} ELSE stale) \ Originals(new)
        /\ owed' = IF new \in stale' THEN owed \ Said(merge.user, t) ELSE owed
  /\ merge' = [merge EXCEPT !.cluster = {}]
  /\ UNCHANGED <<fill, pruned, remembered, restarts>>

(* prune_stale, with any of the rows it may take old enough.                 *)
Prunable(u) == {i \in Ids : /\ Stored(i) /\ memories[i].user = u
                            /\ memories[i].source = "auto" /\ ~memories[i].recalled}
EndUser(old) ==
  /\ merge.user # NoUser /\ merge.seeds = {} /\ merge.cluster = {}
  /\ old \subseteq Prunable(merge.user)
  /\ memories' = [i \in Ids |-> IF i \in old THEN NoRow ELSE memories[i]]
  /\ vectors' = [i \in Ids |-> IF i \in old THEN NoRow ELSE vectors[i]]
  /\ merge' = [MergeIdle EXCEPT !.todo = merge.todo]
  /\ LET lost == owed \cap (Known(merge.user, old) \ Known(merge.user, Ids \ old))
         left == Known(merge.user, Ids \ (old \cup stale))
     IN /\ pruned' = pruned \cup lost
        /\ owed' = owed \ (Known(merge.user, old) \ left)
  /\ stale' = stale \ old
  /\ UNCHANGED <<fill, remembered, restarts>>

MergeStep ==
  \/ \E u \in Users, semantic \in BOOLEAN : BeginUser(u, semantic)
  \/ ScanSeed \/ KeepCluster
  \/ \E t \in Texts, embedded \in BOOLEAN : MergeCluster(t, embedded)
  \/ \E old \in SUBSET Ids : EndUser(old)

(***************************************************************************)
(* Crashes                                                                 *)
(***************************************************************************)
Die == /\ restarts < MaxRestarts /\ restarts' = restarts + 1
       /\ fill' = FillStart
       /\ merge' = MergeIdle

(* The process dies and starts again.  A migration or a new embedding model  *)
(* drops every vector on the way up; a prune that died between its two       *)
(* statements has dropped the vector of a row it kept.                       *)
Restart ==
  /\ Die
  /\ \/ UNCHANGED vectors
     \/ vectors' = [i \in Ids |-> NoRow]
     \/ /\ merge.user # NoUser /\ merge.seeds = {} /\ merge.cluster = {}
        /\ \E i \in Prunable(merge.user) : vectors' = [vectors EXCEPT ![i] = NoRow]
  /\ UNCHANGED <<memories, owed, pruned, stale, remembered>>

(* It dies between forget's two statements.                                  *)
ForgetAndDie(i) ==
  /\ Drop(i)
  /\ Die
  /\ UNCHANGED vectors

Next ==
  \/ \E u \in Users, t \in Texts, source \in {"auto", "user"}, embedded \in BOOLEAN :
       Remember(u, t, source, embedded)
  \/ \E i \in Ids : Recall(i) \/ Forget(i) \/ ForgetAndDie(i)
  \/ FillStep \/ Wake \/ MergeStep \/ Restart

Spec == Init /\ [][Next]_vars

(* Both threads sleep fixed times and go on; the embedding endpoint and the  *)
(* model are called with timeouts.                                           *)
FairSpec == Spec /\ WF_vars(FillStep) /\ WF_vars(MergeStep)

(***************************************************************************)
(* Properties                                                              *)
(***************************************************************************)
(* What the tables and the two threads may hold.                             *)
TypeOK ==
  /\ memories \in [Ids -> Row \cup {NoRow}]
  /\ vectors \in [Ids -> Vector \cup {NoRow}]
  /\ fill \in [phase : {"pass", "filling", "count", "stopped", "gave_up"},
               pending : SUBSET [id : Ids, user : Users, text : Texts],
               progress : BOOLEAN, retries : 0..MaxRetries + 1]
  /\ merge \in [todo : SUBSET Users, user : Users \cup {NoUser}, seeds : SUBSET Ids,
                claimed : SUBSET Ids,
                cluster : SUBSET [id : Ids, text : Texts, owner : Users]]
  /\ merge.cluster # {} => merge.user # NoUser /\ Cardinality(merge.cluster) > 1
  /\ \A i \in Ids : Stored(i) => Holding(memories[i].user, memories[i].text) = {i}

(* A memory's embedding is that of its own text in its own account's         *)
(* partition, whatever the backfill, consolidation and requests interleave   *)
(* and wherever a crash falls -- unless its id was given out again while the *)
(* old memory's vector, or a thread that had read it, was still around.      *)
VectorIsOwn ==
  \A i \in Ids \ stale : Stored(i) /\ vectors[i] # NoRow =>
    vectors[i] = [user |-> memories[i].user, text |-> memories[i].text]

(* README: each merge is one transaction so a crash cannot lose a fact.  What *)
(* an account asked to remember, and neither forgot nor lost to a prune, one  *)
(* of its memories says: merges, crashes and concurrent requests lose        *)
(* nothing.  (What is left to a row on a recycled id is exempt, as above.)   *)
FactsKept == owed \subseteq UNION {Known(u, Ids) : u \in Users}

(* README: explicit user memories are never pruned.                          *)
(* The code does not keep this: see "Known differences" in the README.       *)
ExplicitNeverPruned == pruned = {}

(* main.cpp: the thread fills the backlog or gives up on it and says so; a   *)
(* failed pass is not taken for the end, and rows that come and go under it  *)
(* do not keep it from the others.                                           *)
BackfillServes ==
  \A i \in Ids : i \in Missing /\ fill.phase # "stopped"
                   ~> (i \notin Missing \/ fill.phase = "gave_up")

(* A consolidation run ends, although the rows it clusters are forgotten,    *)
(* merged and replaced while it waits for the model.                         *)
ConsolidationEnds == []<>(merge.user = NoUser /\ merge.todo = {})

(* consolidate: never one pool spanning accounts, for handing both to the    *)
(* model would write one person's wording into the other's memory.           *)
(* The code does not keep this: see "Known differences" in the README.       *)
PoolsStayApart == \A m \in merge.cluster : m.owner = merge.user
=============================================================================
