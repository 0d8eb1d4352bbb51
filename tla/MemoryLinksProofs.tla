-------------------------- MODULE MemoryLinksProofs --------------------------
(***************************************************************************)
(* Theorems of MemoryLinks, for every set of accounts, agents and texts,   *)
(* every band of similarity and every number of ids: a link joins two      *)
(* memories of one account, no verdict is asked for twice, and widening a  *)
(* recall keeps the order of what was found directly.                      *)
(***************************************************************************)
EXTENDS MemoryLinks, FiniteSetTheorems, WellFoundedInduction, TLAPS

(***************************************************************************)
(* Facts about ids, ranks and pairs.                                       *)
(***************************************************************************)
(* A non-empty set of natural numbers has a least element.                   *)
LEMMA LeastOf ==
  ASSUME NEW S, S \subseteq Nat, S # {}
  PROVE  \E n \in S : \A m \in S : n <= m
<1>1. IsWellFoundedOn(OpToRel(<, Nat), Nat)
  BY NatLessThanWellFounded, Zenon
<1>2. PICK n \in S : \A m \in S : ~(<<m, n>> \in OpToRel(<, Nat))
  BY <1>1, WFMin, Zenon
<1>3. \A m \in S : ~(m < n)
  BY <1>2, Zenon DEF OpToRel
<1> QED
  BY <1>3

(* The id of a new row is no row's.                                         *)
LEMMA NewIdIsFree == NewId \in Nat /\ NewId >= 1 /\ (NewId \in Ids => ~Stored(NewId))
<1> DEFINE Above == {m \in 0..MaxId : \A i \in Ids : Stored(i) => i <= m}
<1>1. MaxId \in Nat
  BY LinkBounds
<1>2. MaxId \in Above /\ Above \subseteq Nat
  BY <1>1 DEF Ids
<1>3. PICK m \in Above : \A k \in Above : m <= k
  <2> HIDE DEF Above
  <2> QED
    BY <1>2, LeastOf
<1>4. m = 0 \/ Stored(m)
  <2>1. SUFFICES ASSUME m # 0, ~Stored(m)
                 PROVE  m - 1 \in Above
    BY <1>1, <1>3
  <2>2. \A i \in Ids : Stored(i) => i <= m /\ i # m /\ i \in Int
    BY <2>1, <1>3 DEF Ids
  <2> QED
    BY <1>1, <1>3, <2>1, <2>2
<1> DEFINE New == CHOOSE n \in 0..MaxId :
                    (n = 0 \/ Stored(n)) /\ \A i \in Ids : Stored(i) => i <= n
<1>5. New \in 0..MaxId /\ \A i \in Ids : Stored(i) => i <= New
  BY <1>3, <1>4
<1>6. NewId = New + 1
  BY DEF NewId, Newest
<1> HIDE DEF New
<1> QED
  BY <1>1, <1>5, <1>6 DEF Ids

(* The least rank is one of the ranks.                                      *)
Ranks == [id : Ids, rank : Nat]
LEMMA ForemostIsOne ==
  ASSUME NEW R \in SUBSET Ranks, R # {}
  PROVE  Foremost(R) \in R
<1>1. {r.rank : r \in R} \subseteq Nat /\ {r.rank : r \in R} # {}
  BY DEF Ranks
<1>2. PICK n \in {r.rank : r \in R} : \A m \in {r.rank : r \in R} : n <= m
  BY <1>1, LeastOf
<1>3. \E r \in R : \A q \in R : r.rank <= q.rank
  BY <1>2
<1> QED
  BY <1>3 DEF Foremost

(* A number of ids is a rank.                                               *)
LEMMA CountIsNat ==
  ASSUME NEW S, S \subseteq Ids
  PROVE  Cardinality(S) \in Nat
<1>1. IsFiniteSet(Ids)
  BY FS_Interval, LinkBounds DEF Ids
<1>2. IsFiniteSet(S)
  BY <1>1, FS_Subset
<1> QED
  BY <1>2, FS_CardinalityType

(* What a query brings back is ranks of ids that were asked for, each once.  *)
LEMMA NearestFacts ==
  ASSUME NEW u, NEW t, NEW n
  PROVE  /\ Nearest(u, t, n) \subseteq Ranks
         /\ \A c \in Nearest(u, t, n) : vectors[c.id] # NoRow
         /\ \A c, d \in Nearest(u, t, n) : c.id = d.id => c = d
<1> DEFINE S == {i \in Ids : vectors[i] # NoRow /\ vectors[i].user = u}
           Rank(i) == Cardinality({j \in S : Closer(t, j, i)})
<1>1. \A c \in Nearest(u, t, n) : \E i \in S : c = [id |-> i, rank |-> Rank(i)]
  BY DEF Nearest, Ranked
<1>2. ASSUME NEW i \in S PROVE Rank(i) \in Nat
  BY CountIsNat
<1> HIDE DEF Rank
<1> QED
  BY <1>1, <1>2 DEF Ranks

LEMMA AnchorsFacts ==
  ASSUME NEW u
  PROVE  Anchors(u) \subseteq Ranks
<1> DEFINE S == {i \in Ids : Owned(u, i) /\ vectors[i] # NoRow}
           Rank(i) == Cardinality({j \in S : FewerVerdicts(j, i)})
<1>1. \A c \in Anchors(u) : \E i \in S : c = [id |-> i, rank |-> Rank(i)]
  BY DEF Anchors, Ranked
<1>2. ASSUME NEW i \in S PROVE Rank(i) \in Nat
  BY CountIsNat
<1> HIDE DEF Rank
<1> QED
  BY <1>1, <1>2 DEF Ranks

LEMMA PairFacts ==
  ASSUME NEW i \in Ids, NEW j \in Ids, i # j
  PROVE  /\ Pair(i, j) \in Pairs
         /\ \/ Pair(i, j)[1] = i /\ Pair(i, j)[2] = j
            \/ Pair(i, j)[1] = j /\ Pair(i, j)[2] = i
         /\ \A k \in Ids : k # i /\ Pair(i, k) = Pair(i, j) => k = j
BY LinkBounds DEF Ids, Pair, Pairs

(***************************************************************************)
(* The inductive invariant                                                 *)
(***************************************************************************)
LateRow == [id : Ids, user : Users, text : Texts]
LinkerRecord ==
  [at : {"asleep", "pool", "scan", "ask", "related", "unrelated"},
   todo : SUBSET Users, user : Users \cup {NoUser}, anchors : SUBSET Ranks,
   anchor : Ids \cup {0}, candidates : SUBSET Ranks]

(* The store: a vector, and a row on its way to one, are of the memory that  *)
(* has the id now, unless the id was given out again in between.             *)
StoreOK ==
  /\ memories \in [Ids -> Row \cup {NoRow}]
  /\ vectors \in [Ids -> Vector \cup {NoRow}]
  /\ late \in LateRow \cup {NoRow}
  /\ \A i \in Ids : Stored(i) /\ i \notin stale /\ vectors[i] # NoRow =>
       vectors[i].text = memories[i].text
  /\ late # NoRow /\ Stored(late.id) /\ late.id \notin stale =>
       late.text = memories[late.id].text

(* Two memories that may be linked, as long as they are what they were.      *)
Fit(i, j) ==
  Stored(i) /\ Stored(j) /\ i \notin stale /\ j \notin stale =>
    /\ memories[i].agent = memories[j].agent
    /\ InBand(Similarity[memories[i].text][memories[j].text])

(* The thread: what is still to be asked fits and is unanswered.             *)
LinkerOK ==
  /\ linker \in LinkerRecord
  /\ linker.at \in {"asleep", "pool", "scan"} => linker.candidates = {}
  /\ linker.at \in {"related", "unrelated"} => linker.candidates # {}
  /\ linker.candidates # {} => linker.anchor \in Ids
  /\ \A c \in linker.candidates : /\ c.id # linker.anchor
                                  /\ Fit(linker.anchor, c.id)
                                  /\ Pair(linker.anchor, c.id) \notin judged
  /\ \A c, d \in linker.candidates : c.id = d.id => c = d

LinksOK ==
  /\ links \subseteq Pairs
  /\ judged \subseteq Pairs /\ answered = judged
  /\ \A p \in links : /\ \E u \in Users : Owned(u, p[1]) /\ Owned(u, p[2])
                      /\ Fit(p[1], p[2])

IInv == StoreOK /\ LinkerOK /\ LinksOK

(***************************************************************************)
(* What the parties leave alone                                            *)
(***************************************************************************)

(* A memory that counts now is the one that counted before.                  *)
Kept(i) == Stored(i)' /\ i \notin stale' =>
             Stored(i) /\ i \notin stale /\ memories'[i] = memories[i]

LEMMA FitKept ==
  ASSUME NEW i, NEW j, Fit(i, j), Kept(i), Kept(j)
  PROVE  Fit(i, j)'
BY DEF Fit, Kept, Stored

LEMMA LinkerKept ==
  ASSUME LinkerOK, linker' = linker, judged' \subseteq judged,
         \A i \in Ids : i = linker.anchor \/ (\E c \in linker.candidates : c.id = i) => Kept(i)
  PROVE  LinkerOK'
<1>1. ASSUME NEW c \in linker.candidates
      PROVE  Fit(linker.anchor, c.id)'
  <2>1. PICK i \in Ids, j \in Ids : i = linker.anchor /\ j = c.id
    BY <1>1 DEF LinkerOK, LinkerRecord, Ranks
  <2>2. Fit(i, j) /\ Kept(i) /\ Kept(j)
    BY <1>1, <2>1 DEF LinkerOK
  <2>3. Fit(i, j)'
    BY <2>2, FitKept
  <2> QED
    BY <2>1, <2>3 DEF Fit, Stored
<1> QED
  BY <1>1 DEF LinkerOK

LEMMA LinksKept ==
  ASSUME LinksOK, links' \subseteq links, judged' \subseteq judged, answered' = judged',
         \A p \in links' : /\ Kept(p[1]) /\ Kept(p[2])
                           /\ memories'[p[1]] = memories[p[1]]
                           /\ memories'[p[2]] = memories[p[2]]
  PROVE  LinksOK'
<1>1. ASSUME NEW p \in links'
      PROVE  /\ \E u \in Users : Owned(u, p[1])' /\ Owned(u, p[2])'
             /\ Fit(p[1], p[2])'
  <2>1. PICK i \in Ids, j \in Ids : i = p[1] /\ j = p[2]
    BY <1>1 DEF LinksOK, Pairs
  <2>2. Fit(i, j)'
    BY <1>1, <2>1, FitKept DEF LinksOK
  <2> QED
    BY <1>1, <2>1, <2>2 DEF LinksOK, Owned, Stored, Fit
<1> QED
  BY <1>1 DEF LinksOK

(* Nothing is linked, judged, forgotten or given out again.                  *)
LEMMA LinksStay ==
  ASSUME LinksOK, UNCHANGED <<memories, links, judged, answered, stale>>
  PROVE  LinksOK'
BY DEF LinksOK, Fit, Owned, Stored

(***************************************************************************)
(* Requests and the embedding backfill                                     *)
(***************************************************************************)

(* A new memory gets an id nothing of the past refers to, or a stale one.    *)
LEMMA RememberStep ==
  ASSUME IInv, NEW row \in Inputs, NEW embedded \in BOOLEAN, Remember(row, embedded)
  PROVE  IInv'
<1>0. /\ UNCHANGED <<links, judged, linker, late, answered>>
      /\ stale' = IF InUse(NewId) THEN stale \cup {NewId} ELSE stale
  BY DEF Remember
<1>1. PICK new, vec : new = NewId /\ vec = [user |-> row.user, text |-> row.text]
  OBVIOUS
<1>2. new \in Ids /\ ~Stored(new)
  BY <1>1, NewIdIsFree DEF Remember, Ids
<1>3. /\ row \in Row /\ row # NoRow /\ vec \in Vector /\ vec.text = row.text
      /\ vec # NoRow
  BY <1>1, LinkRows DEF Row, Vector
<1>4. /\ memories' \in [Ids -> Row \cup {NoRow}] /\ memories'[new] = row
      /\ \A i \in Ids : i # new => memories'[i] = memories[i]
  BY <1>1, <1>2, <1>3 DEF Remember, IInv, StoreOK
<1>5. /\ vectors' \in [Ids -> Vector \cup {NoRow}]
      /\ vectors'[new] = vec \/ vectors'[new] = vectors[new]
      /\ \A i \in Ids : i # new => vectors'[i] = vectors[i]
  BY <1>1, <1>2, <1>3 DEF Remember, IInv, StoreOK
<1>6. \A i \in Ids : i # new => Kept(i)
  BY <1>0, <1>4 DEF Kept, Stored
<1>7. new \notin stale' => ~InUse(new) /\ new \notin stale
  BY <1>0, <1>1
<1>8. StoreOK'
  <2>1. ASSUME NEW i \in Ids, Stored(i)', i \notin stale', vectors'[i] # NoRow
        PROVE  vectors'[i].text = memories'[i].text
    BY <1>0, <1>3, <1>4, <1>5, <1>6, <1>7, <2>1 DEF IInv, StoreOK, Kept, Stored, InUse
  <2>2. ASSUME late # NoRow, Stored(late.id)', late.id \notin stale'
        PROVE  late.text = memories'[late.id].text
    <3>1. late \in LateRow /\ late.id \in Ids
      BY <2>2 DEF IInv, StoreOK, LateRow
    <3>2. late.id # new
      BY <1>1, <1>7, <2>2, <3>1 DEF InUse
    <3>3. Stored(late.id) /\ late.id \notin stale /\ memories'[late.id] = memories[late.id]
      BY <1>0, <1>6, <2>2, <3>1, <3>2 DEF Kept, Stored
    <3> QED
      BY <2>2, <3>3 DEF IInv, StoreOK
  <2> QED
    BY <1>0, <1>4, <1>5, <2>1, <2>2 DEF IInv, StoreOK
<1>9. LinkerOK'
  <2>1. \A i \in Ids : i = linker.anchor \/ (\E c \in linker.candidates : c.id = i) => Kept(i)
    BY <1>6, <1>7 DEF Kept, InUse
  <2> QED
    BY <1>0, <2>1, LinkerKept DEF IInv
<1>10. LinksOK'
  <2>1. ASSUME NEW p \in links'
        PROVE  p[1] \in Ids \ {new} /\ p[2] \in Ids \ {new}
    BY <1>0, <1>2, <2>1 DEF IInv, LinksOK, Pairs, Owned
  <2>2. \A p \in links' : /\ Kept(p[1]) /\ Kept(p[2])
                          /\ memories'[p[1]] = memories[p[1]]
                          /\ memories'[p[2]] = memories[p[2]]
    BY <1>4, <1>6, <2>1
  <2>3. LinksOK /\ links' \subseteq links /\ judged' \subseteq judged /\ answered' = judged'
    BY <1>0 DEF IInv, LinksOK
  <2> QED
    BY <2>2, <2>3, LinksKept
<1> QED
  BY <1>8, <1>9, <1>10 DEF IInv

(* The pairs of a memory go with it.                                        *)
LEMMA ForgetStep ==
  ASSUME IInv, NEW i \in Ids, Forget(i)
  PROVE  IInv'
<1>0. /\ UNCHANGED <<linker, late>> /\ stale' = stale \ {i}
      /\ links' = links \ Of(i, links) /\ judged' = judged \ Of(i, judged)
      /\ answered' = answered \ Of(i, answered)
  BY DEF Forget, Cascade
<1>1. /\ memories' \in [Ids -> Row \cup {NoRow}] /\ memories'[i] = NoRow
      /\ vectors' \in [Ids -> Vector \cup {NoRow}] /\ vectors'[i] = NoRow
      /\ \A j \in Ids : j # i => memories'[j] = memories[j] /\ vectors'[j] = vectors[j]
  BY DEF Forget, IInv, StoreOK
<1>2. \A j \in Ids : Kept(j)
  BY <1>0, <1>1 DEF Kept, Stored
<1>3. StoreOK'
  <2>1. ASSUME NEW j \in Ids, Stored(j)', j \notin stale', vectors'[j] # NoRow
        PROVE  vectors'[j].text = memories'[j].text
    BY <1>1, <1>2, <2>1 DEF IInv, StoreOK, Kept
  <2>2. ASSUME late # NoRow, Stored(late.id)', late.id \notin stale'
        PROVE  late.text = memories'[late.id].text
    <3>1. late \in LateRow /\ late.id \in Ids
      BY <2>2 DEF IInv, StoreOK, LateRow
    <3>2. Stored(late.id) /\ late.id \notin stale /\ memories'[late.id] = memories[late.id]
      BY <1>0, <1>2, <2>2, <3>1 DEF Kept, Stored
    <3> QED
      BY <2>2, <3>2 DEF IInv, StoreOK
  <2> QED
    BY <1>0, <1>1, <2>1, <2>2 DEF IInv, StoreOK
<1>4. LinkerOK'
  BY <1>0, <1>2, LinkerKept DEF IInv
<1>5. LinksOK'
  <2>1. ASSUME NEW p \in links'
        PROVE  p \in Pairs /\ p[1] # i /\ p[2] # i
    BY <1>0, <2>1 DEF Of, IInv, LinksOK
  <2>2. \A p \in links' : /\ Kept(p[1]) /\ Kept(p[2])
                          /\ memories'[p[1]] = memories[p[1]]
                          /\ memories'[p[2]] = memories[p[2]]
    BY <1>1, <1>2, <2>1 DEF Pairs
  <2>3. LinksOK /\ links' \subseteq links /\ judged' \subseteq judged /\ answered' = judged'
    BY <1>0 DEF IInv, LinksOK, Of
  <2> QED
    BY <2>2, <2>3, LinksKept
<1> QED
  BY <1>3, <1>4, <1>5 DEF IInv

LEMMA LateStep ==
  ASSUME IInv, WriteLate \/ \E i \in Ids : ReadLate(i)
  PROVE  IInv'
<1>0. UNCHANGED <<memories, links, judged, linker, answered, stale>>
  BY DEF WriteLate, ReadLate, tables, history
<1>1. \A i : Kept(i)
  BY <1>0 DEF Kept, Stored
<1>2. LinkerOK' /\ LinksOK'
  <2>1. LinkerOK'
    BY <1>0, <1>1, LinkerKept DEF IInv
  <2>2. LinksOK'
    BY <1>0, LinksStay DEF IInv
  <2> QED
    BY <2>1, <2>2
<1>3. CASE WriteLate
  <2>1. PICK i, vec : i = late.id /\ vec = [user |-> late.user, text |-> late.text]
    OBVIOUS
  <2>2. i \in Ids /\ vec \in Vector /\ vec.text = late.text
    BY <1>3, <2>1 DEF WriteLate, IInv, StoreOK, LateRow, Vector
  <2>3. /\ vectors' \in [Ids -> Vector \cup {NoRow}] /\ vectors'[i] = vec
        /\ \A j \in Ids : j # i => vectors'[j] = vectors[j]
    BY <1>3, <2>1, <2>2 DEF WriteLate, IInv, StoreOK
  <2>4. StoreOK'
    BY <1>0, <1>3, <2>1, <2>2, <2>3 DEF WriteLate, IInv, StoreOK, Stored
  <2> QED
    BY <1>2, <2>4 DEF IInv
<1>4. ASSUME NEW i \in Ids, ReadLate(i)
      PROVE  IInv'
  <2>1. PICK row : row = [id |-> i, user |-> memories[i].user, text |-> memories[i].text]
    OBVIOUS
  <2>2. memories[i] \in Row
    BY <1>4 DEF ReadLate, IInv, StoreOK, Stored
  <2>3. row \in LateRow /\ row.id = i /\ row.text = memories[i].text
    BY <2>1, <2>2 DEF Row, LateRow
  <2>4. late' = row /\ vectors' = vectors
    BY <1>4, <2>1 DEF ReadLate, tables
  <2>5. StoreOK'
    BY <1>0, <2>3, <2>4 DEF IInv, StoreOK, Stored
  <2> QED
    BY <1>2, <2>5 DEF IInv
<1> QED
  BY <1>3, <1>4

(***************************************************************************)
(* The thread                                                              *)
(***************************************************************************)

(* While the thread works, the store and what counts stay as they are.       *)
LEMMA StoreStays ==
  ASSUME UNCHANGED <<memories, vectors, late, stale>>
  PROVE  /\ StoreOK => StoreOK'
         /\ \A i, j : Fit(i, j) => Fit(i, j)'
         /\ \A i : Kept(i)
BY DEF StoreOK, Fit, Kept, Stored

(* Without candidates there is nothing to know about the thread.             *)
LEMMA NothingToAsk ==
  ASSUME NEW at \in {"asleep", "pool", "scan"}, linker' \in LinkerRecord,
         linker'.at = at, linker'.candidates = {}
  PROVE  LinkerOK'
BY DEF LinkerOK

(* Between the anchors of an account nothing is being asked.                 *)
LEMMA IdleStep ==
  ASSUME IInv, linker.candidates = {},
         \/ Wake \/ EndRun \/ EndAnchor \/ EndPool
         \/ \E u \in Users : BeginPool(u) \/ SkipPool(u)
  PROVE  IInv'
<1>0. UNCHANGED <<memories, vectors, links, judged, late, answered, stale>>
  BY DEF Wake, EndRun, EndAnchor, EndPool, BeginPool, SkipPool, tables, history
<1>l. linker \in LinkerRecord
  BY DEF IInv, LinkerOK
<1>1. linker' \in LinkerRecord /\ linker'.candidates = {}
      /\ linker'.at \in {"asleep", "pool", "scan"}
  <2>1. CASE Wake
    <3>1. PICK todo : /\ todo = {memories[i].user : i \in {j \in Ids : Stored(j)}}
                      /\ linker' = [linker EXCEPT !.at = "pool", !.todo = todo]
      BY <2>1 DEF Wake
    <3>2. todo \subseteq Users
      BY <3>1 DEF IInv, StoreOK, Stored, Row
    <3> QED
      BY <1>l, <3>1, <3>2 DEF LinkerRecord
  <2>2. CASE EndRun
    BY <2>2 DEF EndRun, Asleep, LinkerRecord
  <2>3. CASE EndAnchor
    BY <1>l, <2>3 DEF EndAnchor, LinkerRecord
  <2>4. CASE EndPool
    BY <1>l, <2>4 DEF EndPool, LinkerRecord
  <2>5. ASSUME NEW u \in Users, BeginPool(u)
        PROVE  /\ linker' \in LinkerRecord /\ linker'.candidates = {}
               /\ linker'.at \in {"asleep", "pool", "scan"}
    <3>1. PICK anchors : /\ anchors = Anchors(u)
                         /\ linker' = [linker EXCEPT !.at = "scan", !.todo = @ \ {u},
                                         !.user = u, !.anchors = anchors]
      BY <2>5 DEF BeginPool
    <3>2. anchors \subseteq Ranks
      BY <3>1, AnchorsFacts
    <3> QED
      BY <1>l, <3>1, <3>2 DEF LinkerRecord
  <2>6. ASSUME NEW u \in Users, SkipPool(u)
        PROVE  /\ linker' \in LinkerRecord /\ linker'.candidates = {}
               /\ linker'.at \in {"asleep", "pool", "scan"}
    BY <1>l, <2>6 DEF SkipPool, LinkerRecord
  <2> QED
    BY <2>1, <2>2, <2>3, <2>4, <2>5, <2>6
<1>2. StoreOK' /\ LinksOK'
  <2>1. StoreOK'
    BY <1>0, StoreStays DEF IInv
  <2>2. LinksOK'
    BY <1>0, LinksStay DEF IInv
  <2> QED
    BY <2>1, <2>2
<1>3. LinkerOK'
  BY <1>1, NothingToAsk
<1> QED
  BY <1>2, <1>3 DEF IInv

(* What a scan comes up with fits, is unanswered, and holds nobody twice.    *)
LEMMA ScanStep ==
  ASSUME IInv, ScanAnchor
  PROVE  IInv'
<1>0. UNCHANGED <<memories, vectors, links, judged, late, answered, stale>>
  BY DEF ScanAnchor, tables, history
<1>1. PICK r, found : /\ r = Foremost(linker.anchors) /\ found = Candidates(r.id)
                      /\ linker' = [linker EXCEPT !.at = "ask", !.anchors = @ \ {r},
                                      !.anchor = r.id, !.candidates = found]
  BY DEF ScanAnchor
<1>2. r \in Ranks /\ r.id \in Ids
  <2>1. linker.anchors \in SUBSET Ranks /\ linker.anchors # {}
    BY DEF ScanAnchor, IInv, LinkerOK, LinkerRecord
  <2> QED
    BY <1>1, <2>1, ForemostIsOne DEF Ranks
<1>3. found \subseteq Ranks /\ \A c, d \in found : c.id = d.id => c = d
  <2>1. PICK near : near = Nearest(linker.user, vectors[r.id].text, Around)
    OBVIOUS
  <2>2. near \subseteq Ranks /\ \A c, d \in near : c.id = d.id => c = d
    BY <2>1, NearestFacts
  <2>3. found \subseteq near
    BY <1>1, <2>1 DEF Candidates
  <2> QED
    BY <2>2, <2>3
<1>4. ASSUME NEW c \in found
      PROVE  /\ c.id # r.id /\ Fit(r.id, c.id) /\ Pair(r.id, c.id) \notin judged
  <2>1. /\ vectors[r.id] # NoRow /\ Stored(r.id)
        /\ c.id # r.id /\ Stored(c.id) /\ memories[c.id].agent = memories[r.id].agent
        /\ InBand(Similarity[vectors[r.id].text][vectors[c.id].text])
        /\ Pair(r.id, c.id) \notin judged
    BY <1>1, <1>4 DEF Candidates, Owned
  <2>2. vectors[c.id] # NoRow /\ c.id \in Ids
    BY <1>1, <1>3, <1>4, NearestFacts DEF Candidates, Ranks
  <2>3. Fit(r.id, c.id)
    BY <1>2, <2>1, <2>2 DEF Fit, IInv, StoreOK
  <2> QED
    BY <2>1, <2>3
<1>5. linker' \in LinkerRecord /\ linker'.at = "ask" /\ linker'.anchor = r.id
      /\ linker'.candidates = found
  BY <1>1, <1>2, <1>3 DEF IInv, LinkerOK, LinkerRecord
<1>6. LinkerOK'
  <2>1. \A i, j : Fit(i, j) => Fit(i, j)'
    BY <1>0, StoreStays
  <2>2. \A c \in linker'.candidates : Fit(linker.anchor, c.id)'
    <3>1. ASSUME NEW c \in found PROVE Fit(r.id, c.id)'
      BY <1>4, <2>1, <3>1
    <3> QED
      BY <1>5, <3>1 DEF Fit, Stored
  <2> QED
    BY <1>0, <1>2, <1>3, <1>4, <1>5, <2>2 DEF LinkerOK
<1>7. StoreOK' /\ LinksOK'
  <2>1. StoreOK'
    BY <1>0, StoreStays DEF IInv
  <2>2. LinksOK'
    BY <1>0, LinksStay DEF IInv
  <2> QED
    BY <2>1, <2>2
<1> QED
  BY <1>6, <1>7 DEF IInv

(* The pair that is asked about.                                            *)
LEMMA AskedFacts ==
  ASSUME IInv, linker.candidates # {}
  PROVE  /\ Candidate \in linker.candidates
         /\ linker.anchor \in Ids /\ Candidate.id \in Ids
         /\ Asked \in Pairs /\ Asked \notin judged
         /\ Fit(Asked[1], Asked[2])
         /\ \A c \in linker.candidates \ {Candidate} : Pair(linker.anchor, c.id) # Asked
<1>0. linker.candidates \in SUBSET Ranks
  BY DEF IInv, LinkerOK, LinkerRecord
<1>1. Candidate \in linker.candidates
  BY <1>0, ForemostIsOne DEF Candidate
<1>2. /\ linker.anchor \in Ids /\ Candidate.id \in Ids /\ linker.anchor # Candidate.id
      /\ Fit(linker.anchor, Candidate.id) /\ Asked \notin judged
  BY <1>0, <1>1 DEF IInv, LinkerOK, Ranks, Asked
<1>3. PICK i \in Ids, j \in Ids : i = linker.anchor /\ j = Candidate.id
  BY <1>2
<1>4. Asked \in Pairs
  BY <1>2, PairFacts DEF Asked
<1>5. Fit(i, j) /\ Fit(j, i)
  <2>1. Fit(i, j)
    BY <1>2, <1>3
  <2>2. \A k \in Ids : Stored(k) => memories[k].text \in Texts
    BY DEF IInv, StoreOK, Stored, Row
  <2> QED
    BY <1>3, <2>1, <2>2, LinkTexts DEF Fit
<1>6. Fit(Asked[1], Asked[2])
  <2>1. \/ Asked[1] = i /\ Asked[2] = j
        \/ Asked[1] = j /\ Asked[2] = i
    BY <1>2, <1>3, PairFacts DEF Asked
  <2> QED
    BY <1>5, <2>1
<1>7. \A c \in linker.candidates \ {Candidate} : Pair(linker.anchor, c.id) # Asked
  <2>1. ASSUME NEW c \in linker.candidates \ {Candidate}
        PROVE  c.id \in Ids /\ c.id # Candidate.id /\ c.id # linker.anchor
    BY <1>0, <1>1, <2>1 DEF IInv, LinkerOK, Ranks
  <2> QED
    BY <1>2, <2>1, PairFacts DEF Asked
<1> QED
  BY <1>1, <1>2, <1>4, <1>6, <1>7

(* An answer is on its way: the thread goes on about the same pair.          *)
LEMMA JudgedStep ==
  ASSUME IInv, JudgeRelated \/ JudgeUnrelated
  PROVE  IInv'
<1>0. /\ UNCHANGED <<memories, vectors, judged, late, answered, stale>>
      /\ linker.candidates # {}
      /\ links' = links \/ (links' = links \cup {Asked} /\ Owned(linker.user, Asked[1])
                              /\ Owned(linker.user, Asked[2]))
  BY DEF JudgeRelated, JudgeUnrelated, Asking, Linked, tables, history
<1>1. PICK at \in {"related", "unrelated"} : linker' = [linker EXCEPT !.at = at]
  BY DEF JudgeRelated, JudgeUnrelated
<1>2. /\ linker' \in LinkerRecord /\ linker'.at = at
      /\ linker'.anchor = linker.anchor /\ linker'.candidates = linker.candidates
  BY <1>1 DEF IInv, LinkerOK, LinkerRecord
<1>3. \A i, j : Fit(i, j) => Fit(i, j)'
  BY <1>0, StoreStays
<1>4. LinkerOK'
  <2>1. ASSUME NEW c \in linker.candidates
        PROVE  Fit(linker.anchor, c.id)'
    <3>1. PICK i, j : i = linker.anchor /\ j = c.id
      OBVIOUS
    <3>2. Fit(i, j)'
      BY <1>3, <2>1, <3>1 DEF IInv, LinkerOK
    <3> QED
      BY <1>2, <3>1, <3>2 DEF Fit, Stored
  <2> QED
    BY <1>0, <1>2, <2>1 DEF IInv, LinkerOK
<1>5. LinksOK'
  <2>1. CASE links' = links
    BY <1>0, <2>1, LinksStay DEF IInv
  <2>2. CASE links' # links
    <3> DEFINE u == linker.user
    <3>1. PICK p \in Pairs : /\ p = Asked /\ links' = links \cup {p}
                            /\ Owned(u, p[1]) /\ Owned(u, p[2]) /\ Fit(p[1], p[2])
      BY <1>0, <2>2, AskedFacts
    <3>2. u \in Users
      BY <3>1 DEF Owned, Stored, IInv, StoreOK, Pairs, Row
    <3>3. ASSUME NEW q \in links'
          PROVE  /\ \E v \in Users : Owned(v, q[1])' /\ Owned(v, q[2])'
                 /\ Fit(q[1], q[2])'
      <4>1. (\E v \in Users : Owned(v, q[1]) /\ Owned(v, q[2])) /\ Fit(q[1], q[2])
        BY <3>1, <3>2, <3>3 DEF IInv, LinksOK
      <4> QED
        BY <1>0, <1>3, <4>1 DEF Owned, Stored
    <3> QED
      BY <1>0, <3>1, <3>3 DEF IInv, LinksOK
  <2> QED
    BY <2>1, <2>2
<1>6. StoreOK'
  BY <1>0, StoreStays DEF IInv
<1> QED
  BY <1>4, <1>5, <1>6 DEF IInv

(* The pair is dealt with: with a verdict, or after a failure of the model.  *)
LEMMA AnsweredStep ==
  ASSUME IInv, JudgeThrows \/ RecordVerdict
  PROVE  IInv'
<1>0. /\ UNCHANGED <<memories, vectors, links, late, stale>>
      /\ linker.candidates # {} /\ linker' = Answered("ask")
      /\ \/ judged' = judged /\ answered' = answered
         \/ judged' = judged \cup {Asked} /\ answered' = answered \cup {Asked}
  BY DEF JudgeThrows, RecordVerdict, Asking, Verdict, tables, IInv, LinkerOK
<1>1. PICK rest : rest = linker.candidates \ {Candidate}
  OBVIOUS
<1>2. /\ linker' \in LinkerRecord /\ linker'.at = "ask"
      /\ linker'.anchor = linker.anchor /\ linker'.candidates = rest
  BY <1>0, <1>1 DEF Answered, IInv, LinkerOK, LinkerRecord
<1>3. \A i, j : Fit(i, j) => Fit(i, j)'
  BY <1>0, StoreStays
<1>4. ASSUME NEW c \in rest
      PROVE  Fit(linker.anchor, c.id)' /\ Pair(linker.anchor, c.id) \notin judged'
  <2>1. PICK i, j : i = linker.anchor /\ j = c.id
    OBVIOUS
  <2>2. Fit(i, j)'
    BY <1>1, <1>3, <1>4, <2>1 DEF IInv, LinkerOK
  <2>3. Fit(linker.anchor, c.id)'
    BY <1>2, <2>1, <2>2 DEF Fit, Stored
  <2>4. Pair(linker.anchor, c.id) \notin judged'
    BY <1>0, <1>1, <1>4, AskedFacts DEF IInv, LinkerOK
  <2> QED
    BY <2>3, <2>4
<1>5. LinkerOK'
  BY <1>1, <1>2, <1>4 DEF IInv, LinkerOK
<1>6. LinksOK'
  <2>1. ASSUME NEW q \in links
        PROVE  /\ \E v \in Users : Owned(v, q[1])' /\ Owned(v, q[2])'
               /\ Fit(q[1], q[2])'
    BY <1>0, <1>3, <2>1 DEF IInv, LinksOK, Owned, Stored
  <2>2. judged' \subseteq Pairs /\ answered' = judged'
    <3>1. judged \subseteq Pairs /\ answered = judged /\ Asked \in Pairs
      BY <1>0, AskedFacts DEF IInv, LinksOK
    <3> QED
      BY <1>0, <3>1
  <2> QED
    BY <1>0, <2>1, <2>2 DEF IInv, LinksOK
<1>7. StoreOK'
  BY <1>0, StoreStays DEF IInv
<1> QED
  BY <1>5, <1>6, <1>7 DEF IInv

(* A violated foreign key or a restart ends the run.                        *)
LEMMA EndStep ==
  ASSUME IInv, AbortRun \/ Restart
  PROVE  IInv'
<1>0. /\ UNCHANGED <<memories, vectors, links, judged, answered, stale>>
      /\ linker' = Asleep /\ late' \in {late, NoRow}
  BY DEF AbortRun, Restart, tables, history
<1>1. LinkerOK'
  BY <1>0 DEF LinkerOK, Asleep, LinkerRecord
<1>2. LinksOK'
  BY <1>0, LinksStay DEF IInv
<1>3. StoreOK'
  BY <1>0 DEF IInv, StoreOK, Stored
<1> QED
  BY <1>1, <1>2, <1>3 DEF IInv

(***************************************************************************)
(* The invariant, and what follows from it                                 *)
(***************************************************************************)
LEMMA InvariantInit == Init => IInv
<1> SUFFICES ASSUME Init PROVE IInv
  OBVIOUS
<1>1. StoreOK
  BY DEF Init, StoreOK, Stored
<1>2. LinkerOK
  BY DEF Init, LinkerOK, Asleep, LinkerRecord
<1>3. LinksOK
  BY DEF Init, LinksOK
<1> QED
  BY <1>1, <1>2, <1>3 DEF IInv

LEMMA InvariantNext == IInv /\ [Next]_vars => IInv'
<1> SUFFICES ASSUME IInv, [Next]_vars PROVE IInv'
  OBVIOUS
<1>1. CASE \E row \in Inputs, embedded \in BOOLEAN : Remember(row, embedded)
  BY <1>1, RememberStep
<1>2. CASE \E i \in Ids : Forget(i)
  BY <1>2, ForgetStep
<1>3. CASE WriteLate \/ \E i \in Ids : ReadLate(i)
  BY <1>3, LateStep
<1>4. CASE \/ Wake \/ EndRun \/ EndAnchor \/ EndPool
           \/ \E u \in Users : BeginPool(u) \/ SkipPool(u)
  <2>1. linker.candidates = {}
    BY <1>4 DEF Wake, EndRun, EndAnchor, EndPool, BeginPool, SkipPool, IInv, LinkerOK
  <2> QED
    BY <1>4, <2>1, IdleStep
<1>5. CASE ScanAnchor
  BY <1>5, ScanStep
<1>6. CASE JudgeRelated \/ JudgeUnrelated
  BY <1>6, JudgedStep
<1>7. CASE JudgeThrows \/ RecordVerdict
  BY <1>7, AnsweredStep
<1>8. CASE AbortRun \/ Restart
  BY <1>8, EndStep
<1>9. CASE UNCHANGED vars
  <2>1. UNCHANGED <<memories, vectors, links, judged, linker, late, answered, stale>>
    BY <1>9 DEF vars, tables, history
  <2>2. \A i : Kept(i)
    BY <2>1, StoreStays
  <2>3. LinkerOK'
    BY <2>1, <2>2, LinkerKept DEF IInv
  <2>4. LinksOK'
    BY <2>1, LinksStay DEF IInv
  <2>5. StoreOK'
    BY <2>1, StoreStays DEF IInv
  <2> QED
    BY <2>3, <2>4, <2>5 DEF IInv
<1> QED
  BY <1>1, <1>2, <1>3, <1>4, <1>5, <1>6, <1>7, <1>8, <1>9 DEF Next, LinkerStep

LEMMA Invariant == Spec => []IInv
  BY InvariantInit, InvariantNext, PTL DEF Spec

(* A link joins two memories of one account that are both still there, and   *)
(* unless an id was given out again, of one agent and alike: link_memories,  *)
(* the candidates of backfill_links and ON DELETE CASCADE together.          *)
THEOREM LinksHold == Spec => []LinksJoinOneAccount
<1>1. IInv => LinksJoinOneAccount
  <2> SUFFICES ASSUME IInv, NEW p \in links
               PROVE  /\ \E u \in Users : Owned(u, p[1]) /\ Owned(u, p[2])
                      /\ {p[1], p[2]} \cap stale = {} =>
                           /\ memories[p[1]].agent = memories[p[2]].agent
                           /\ InBand(Similarity[memories[p[1]].text][memories[p[2]].text])
    BY DEF LinksJoinOneAccount
  <2> QED
    BY DEF IInv, LinksOK, Fit, Owned
<1> QED
  BY <1>1, Invariant, PTL

(* The model is not asked again about two memories it has judged, over runs, *)
(* crashes, failures and ids that come back: the judgments table.            *)
THEOREM QuestionsHold == Spec => []NoQuestionTwice
<1>1. IInv => NoQuestionTwice
  BY AskedFacts DEF NoQuestionTwice, Asking, IInv, LinksOK
<1> QED
  BY <1>1, Invariant, PTL

(***************************************************************************)
(* Putting in order                                                        *)
(***************************************************************************)
Total(S, before) ==
  /\ \A x \in S : <<x, x>> \notin before
  /\ \A x, y, z \in S : <<x, y>> \in before /\ <<y, z>> \in before => <<x, z>> \in before
  /\ \A x, y \in S : x # y => <<x, y>> \in before \/ <<y, x>> \in before

(* Every element has its place, and the places are in order.                 *)
Ordered(S, before, o) ==
  /\ o = [n \in DOMAIN o |-> o[n]]
  /\ DOMAIN o = 1..Cardinality(S) /\ Cardinality(S) \in Nat
  /\ \A n \in DOMAIN o : o[n] \in S
  /\ \A s \in S : \E n \in DOMAIN o : o[n] = s
  /\ \A m, n \in DOMAIN o : m < n => <<o[m], o[n]>> \in before

LEMMA InOrderFacts ==
  ASSUME NEW S, IsFiniteSet(S), NEW before, Total(S, before)
  PROVE  Ordered(S, before, InOrder(S, before))
<1> DEFINE Behind(s) == {r \in S : <<r, s>> \in before}
           N == Cardinality(S)
           Place == [s \in S |-> Cardinality(Behind(s)) + 1]
<1>1. N \in Nat
  BY FS_CardinalityType
<1>2. ASSUME NEW s \in S
      PROVE  IsFiniteSet(Behind(s)) /\ Cardinality(Behind(s)) \in Nat /\ Cardinality(Behind(s)) < N
  <2>1. Behind(s) \subseteq S /\ s \notin Behind(s)
    BY DEF Total
  <2> HIDE DEF Behind
  <2>2. IsFiniteSet(Behind(s)) /\ Behind(s) # S
    BY <2>1, FS_Subset
  <2> QED
    BY <2>1, <2>2, FS_Subset, FS_CardinalityType
<1>3. ASSUME NEW s \in S, NEW t \in S, <<s, t>> \in before
      PROVE  Cardinality(Behind(s)) < Cardinality(Behind(t))
  <2>1. Behind(s) \subseteq Behind(t) /\ s \in Behind(t) /\ s \notin Behind(s)
    BY <1>3 DEF Total
  <2>2. IsFiniteSet(Behind(t))
    BY <1>2
  <2> HIDE DEF Behind
  <2>3. Behind(s) # Behind(t)
    BY <2>1
  <2>4. Cardinality(Behind(s)) <= Cardinality(Behind(t))
        /\ Cardinality(Behind(s)) # Cardinality(Behind(t))
    BY <2>1, <2>2, <2>3, FS_Subset
  <2>5. Cardinality(Behind(s)) \in Nat /\ Cardinality(Behind(t)) \in Nat
    BY <2>1, <2>2, FS_Subset, FS_CardinalityType
  <2> QED
    BY <2>4, <2>5
<1>4. Place \in [S -> 1..N]
  BY <1>1, <1>2, SMTT(30)
<1>5. \A s, t \in S : Place[s] = Place[t] => s = t
  <2> SUFFICES ASSUME NEW s \in S, NEW t \in S, s # t PROVE Place[s] # Place[t]
    OBVIOUS
  <2>1. <<s, t>> \in before \/ <<t, s>> \in before
    BY DEF Total
  <2>2. Cardinality(Behind(s)) \in Nat /\ Cardinality(Behind(t)) \in Nat
    BY <1>2
  <2>3. /\ Place[s] = Cardinality(Behind(s)) + 1
        /\ Place[t] = Cardinality(Behind(t)) + 1
    OBVIOUS
  <2> HIDE DEF Behind, Place
  <2>4. Cardinality(Behind(s)) # Cardinality(Behind(t))
    BY <1>3, <2>1, <2>2
  <2> QED
    BY <2>2, <2>3, <2>4
<1>6. \A n \in 1..N : \E s \in S : Place[s] = n
  <2>1. /\ IsFiniteSet(1..N) /\ Cardinality(1..N) = N
    BY <1>1, FS_Interval
  <2>2. Place \in Injection(S, 1..N)
    BY <1>4, <1>5 DEF Injection, IsInjective
  <2> HIDE DEF Place, N
  <2>3. Place \in Surjection(S, 1..N)
    BY <2>1, <2>2, FS_Injection DEF N
  <2> QED
    BY <2>3 DEF Surjection
<1>7. ASSUME NEW n \in 1..N
      PROVE  \E s \in S : Cardinality(Behind(s)) = n - 1
  <2>1. PICK s \in S : Place[s] = n
    BY <1>6
  <2>2. Cardinality(Behind(s)) \in Nat /\ Place[s] = Cardinality(Behind(s)) + 1
    BY <1>2
  <2> HIDE DEF Behind, Place
  <2> QED
    BY <2>1, <2>2, <1>1
<1> DEFINE Nth(n) == CHOOSE s \in S : Cardinality(Behind(s)) = n - 1
<1>8. PICK o : o = [n \in 1..N |-> Nth(n)]
  OBVIOUS
<1>9. InOrder(S, before) = o
  BY <1>8 DEF InOrder
<1>a. ASSUME NEW n \in 1..N PROVE Nth(n) \in S /\ Cardinality(Behind(Nth(n))) = n - 1
  <2> HIDE DEF Behind
  <2> QED
    BY <1>7
<1>b. ASSUME NEW s \in S PROVE Place[s] = Cardinality(Behind(s)) + 1
  OBVIOUS
<1> HIDE DEF Nth, Place, Behind
<1>c. /\ o = [n \in DOMAIN o |-> o[n]] /\ DOMAIN o = 1..N
      /\ \A n \in 1..N : o[n] \in S /\ Cardinality(Behind(o[n])) = n - 1
  BY <1>8, <1>a
<1>10. ASSUME NEW s \in S
       PROVE  \E n \in 1..N : o[n] = s
  <2>1. PICK n \in 1..N : n = Place[s]
    BY <1>4
  <2>2. o[n] \in S /\ Place[o[n]] = (n - 1) + 1
    BY <1>b, <1>c
  <2>3. (n - 1) + 1 = n
    BY <1>1
  <2> QED
    BY <1>5, <2>1, <2>2, <2>3
<1>11. ASSUME NEW m \in 1..N, NEW n \in 1..N, m < n
       PROVE  <<o[m], o[n]>> \in before
  <2>1. /\ o[m] \in S /\ Cardinality(Behind(o[m])) = m - 1
        /\ o[n] \in S /\ Cardinality(Behind(o[n])) = n - 1
    BY <1>c
  <2>2. ~(n - 1 < m - 1) /\ n - 1 # m - 1
    BY <1>11, <1>1
  <2>3. o[m] # o[n] /\ <<o[n], o[m]>> \notin before
    BY <1>3, <2>1, <2>2
  <2> QED
    BY <2>1, <2>3 DEF Total
<1> QED
  BY <1>1, <1>9, <1>c, <1>10, <1>11 DEF Ordered

(***************************************************************************)
(* Going through a list                                                    *)
(***************************************************************************)
(* What every step of a list keeps, its last value has.                      *)
LEMMA StepsStay ==
  ASSUME NEW N \in Nat, NEW S, NEW g, g[0] \in S[0],
         \A n \in 1..N : g[n - 1] \in S[n - 1] => g[n] \in S[n]
  PROVE  \A n \in 0..N : g[n] \in S[n]
<1> DEFINE Bad == {n \in 0..N : g[n] \notin S[n]}
<1>1. SUFFICES ASSUME Bad # {} PROVE FALSE
  OBVIOUS
<1>2. PICK n \in Bad : \A m \in Bad : n <= m
  <2>1. Bad \subseteq Nat
    OBVIOUS
  <2> HIDE DEF Bad
  <2> QED
    BY <1>1, <2>1, LeastOf
<1>3. n \in 1..N /\ n - 1 \in 0..N /\ n - 1 \notin Bad
  BY <1>2
<1> QED
  BY <1>2, <1>3

(* Such a way exists: the values after each step of a list.                  *)
KeepsTo(N, S, F) == \A n \in 1..N : \A x \in S[n - 1] : F[n][x] \in S[n]
Steps(N, S, init, F, g) ==
  /\ g = [n \in 0..N |-> g[n]]
  /\ g[0] = init /\ \A n \in 1..N : g[n] = F[n][g[n - 1]]
  /\ \A n \in 0..N : g[n] \in S[n]
LEMMA StepsExist ==
  ASSUME NEW N \in Nat, NEW S, NEW init \in S[0], NEW F, KeepsTo(N, S, F)
  PROVE  \E g : Steps(N, S, init, F, g)
<1> DEFINE UpTo(m, g) == Steps(m, S, init, F, g)
           Bad == {m \in 0..N : ~\E g : UpTo(m, g)}
<1>1. SUFFICES ASSUME Bad # {} PROVE FALSE
  OBVIOUS
<1>2. PICK m \in Bad : \A k \in Bad : m <= k
  <2>1. Bad \subseteq Nat
    OBVIOUS
  <2> HIDE DEF Bad
  <2> QED
    BY <1>1, <2>1, LeastOf
<1>3. m # 0
  <2>1. UpTo(0, [n \in 0..0 |-> init])
    BY DEF Steps
  <2> QED
    BY <1>2, <2>1
<1>4. m \in 1..N /\ m - 1 \in 0..N /\ m - 1 \notin Bad
  BY <1>2, <1>3
<1>5. PICK g : UpTo(m - 1, g)
  BY <1>4
<1> DEFINE h == [n \in 0..m |-> IF n = m THEN F[m][g[m - 1]] ELSE g[n]]
<1>6. /\ h = [n \in 0..m |-> h[n]] /\ h[0] = init
      /\ \A n \in 0..(m - 1) : h[n] = g[n]
      /\ h[m] = F[m][g[m - 1]]
  BY <1>4, <1>5 DEF Steps
<1>7. g[m - 1] \in S[m - 1]
  BY <1>4, <1>5 DEF Steps
<1> HIDE DEF h
<1>8. ASSUME NEW n \in 1..m PROVE h[n] = F[n][h[n - 1]]
  <2>1. CASE n = m
    <3>1. m - 1 \in 0..(m - 1)
      BY <1>4
    <3> QED
      BY <1>6, <2>1, <3>1
  <2>2. CASE n # m
    <3>1. n \in 1..(m - 1) /\ n \in 0..(m - 1) /\ n - 1 \in 0..(m - 1)
      BY <1>4, <2>2
    <3>2. g[n] = F[n][g[n - 1]]
      BY <1>5, <3>1 DEF Steps
    <3> QED
      BY <1>6, <3>1, <3>2
  <2> QED
    BY <2>1, <2>2
<1>9. ASSUME NEW n \in 0..m PROVE h[n] \in S[n]
  <2>1. CASE n = m
    BY <1>4, <1>6, <1>7, <2>1 DEF KeepsTo
  <2>2. CASE n # m
    <3>1. n \in 0..(m - 1)
      BY <1>4, <2>2
    <3> QED
      BY <1>5, <1>6, <3>1 DEF Steps
  <2> QED
    BY <2>1, <2>2
<1>10. UpTo(m, h)
  BY <1>6, <1>8, <1>9 DEF Steps
<1> QED
  BY <1>2, <1>10

(* A set for each step, from the first value to the last: the result is in   *)
(* the last.                                                                 *)
LEMMA ExpandIn ==
  ASSUME NEW r, NEW T, NEW hits \in Seq(T),
         NEW S, <<>> \in S[0],
         \A n \in 1..Len(hits) : \A acc \in S[n - 1] : Hop(r, hits, acc, hits[n]) \in S[n]
  PROVE  ExpandLinks(r, hits) \in S[Len(hits)]
<1> DEFINE N == Len(hits)
           F == [n \in 1..N |-> [acc \in S[n - 1] |-> Hop(r, hits, acc, hits[n])]]
           found[n \in 0..N] == IF n = 0 THEN <<>> ELSE Hop(r, hits, found[n - 1], hits[n])
<1>1. N \in Nat
  OBVIOUS
<1>2. PICK g : Steps(N, S, <<>>, F, g)
  <2>1. <<>> \in S[0] /\ KeepsTo(N, S, F)
    BY <1>1 DEF KeepsTo
  <2> HIDE DEF N, F
  <2> QED
    BY <1>1, <2>1, StepsExist
<1>3. ASSUME NEW n \in 1..N
      PROVE  g[n] = Hop(r, hits, g[n - 1], hits[n])
  <2>1. n - 1 \in 0..N
    BY <1>1
  <2>2. g[n - 1] \in S[n - 1]
    BY <1>2, <2>1 DEF Steps
  <2> QED
    BY <1>2, <2>2 DEF Steps
<1>4. g = [n \in 0..N |-> IF n = 0 THEN <<>> ELSE Hop(r, hits, g[n - 1], hits[n])]
  <2>1. \A n \in 0..N : n = 0 \/ n \in 1..N
    BY <1>1
  <2> HIDE DEF N
  <2> QED
    BY <1>2, <1>3, <2>1 DEF Steps
<1>5. found = [n \in 0..N |-> IF n = 0 THEN <<>> ELSE Hop(r, hits, found[n - 1], hits[n])]
  BY <1>4
<1>6. ExpandLinks(r, hits) = found[N]
  BY DEF ExpandLinks
<1> HIDE DEF found
<1>7. /\ found[0] = <<>>
      /\ \A n \in 1..N : found[n] = Hop(r, hits, found[n - 1], hits[n])
  <2>1. 0 \in 0..N /\ \A n \in 1..N : n \in 0..N /\ n # 0
    BY <1>1
  <2> HIDE DEF N
  <2> QED
    BY <1>5, <2>1
<1>8. \A n \in 0..N : found[n] \in S[n]
  <2>1. /\ found[0] \in S[0]
        /\ \A n \in 1..N : found[n - 1] \in S[n - 1] => found[n] \in S[n]
    BY <1>1, <1>7
  <2> HIDE DEF N
  <2> QED
    BY <1>1, <2>1, StepsStay
<1> QED
  BY <1>1, <1>6, <1>8

LEMMA FloorIn ==
  ASSUME NEW T, NEW hits \in Seq(T),
         NEW S, 0 \in S[0],
         \A n \in 1..Len(hits) : \A acc \in S[n - 1] : Lower(acc, hits[n].score) \in S[n]
  PROVE  Floor(hits) \in S[Len(hits)]
<1> DEFINE N == Len(hits)
           F == [n \in 1..N |-> [acc \in S[n - 1] |-> Lower(acc, hits[n].score)]]
           floor[n \in 0..N] == IF n = 0 THEN 0 ELSE Lower(floor[n - 1], hits[n].score)
<1>1. N \in Nat
  OBVIOUS
<1>2. PICK g : Steps(N, S, 0, F, g)
  <2>1. 0 \in S[0] /\ KeepsTo(N, S, F)
    BY <1>1 DEF KeepsTo
  <2> HIDE DEF N, F
  <2> QED
    BY <1>1, <2>1, StepsExist
<1>3. ASSUME NEW n \in 1..N
      PROVE  g[n] = Lower(g[n - 1], hits[n].score)
  <2>1. n - 1 \in 0..N
    BY <1>1
  <2>2. g[n - 1] \in S[n - 1]
    BY <1>2, <2>1 DEF Steps
  <2> QED
    BY <1>2, <2>2 DEF Steps
<1>4. g = [n \in 0..N |-> IF n = 0 THEN 0 ELSE Lower(g[n - 1], hits[n].score)]
  <2>1. \A n \in 0..N : n = 0 \/ n \in 1..N
    BY <1>1
  <2> HIDE DEF N
  <2> QED
    BY <1>2, <1>3, <2>1 DEF Steps
<1>5. floor = [n \in 0..N |-> IF n = 0 THEN 0 ELSE Lower(floor[n - 1], hits[n].score)]
  BY <1>4
<1>6. Floor(hits) = floor[N]
  BY DEF Floor
<1> HIDE DEF floor
<1>7. /\ floor[0] = 0
      /\ \A n \in 1..N : floor[n] = Lower(floor[n - 1], hits[n].score)
  <2>1. 0 \in 0..N /\ \A n \in 1..N : n \in 0..N /\ n # 0
    BY <1>1
  <2> HIDE DEF N
  <2> QED
    BY <1>5, <2>1
<1>8. \A n \in 0..N : floor[n] \in S[n]
  <2>1. /\ floor[0] \in S[0]
        /\ \A n \in 1..N : floor[n - 1] \in S[n - 1] => floor[n] \in S[n]
    BY <1>1, <1>7
  <2> HIDE DEF N
  <2> QED
    BY <1>1, <2>1, StepsStay
<1> QED
  BY <1>1, <1>6, <1>8

(***************************************************************************)
(* Hits                                                                    *)
(***************************************************************************)
Hits == [id : Ids, score : Int]
Once(s) == \A m, n \in DOMAIN s : s[m].id = s[n].id => m = n
Shown(r, s) == s \in Seq(Hits) /\ Once(s) /\ \A n \in DOMAIN s : Visible(r, s[n].id)

LEMMA IdsFinite == ASSUME NEW S, S \subseteq Ids PROVE IsFiniteSet(S) /\ Cardinality(S) \in Nat
<1>1. IsFiniteSet(Ids)
  BY FS_Interval, LinkBounds DEF Ids
<1> QED
  BY <1>1, FS_Subset, CountIsNat

LEMMA FirstFacts ==
  ASSUME NEW T, NEW s \in Seq(T), NEW n \in Nat
  PROVE  /\ First(s, n) \in Seq(T)
         /\ Len(First(s, n)) <= n /\ Len(First(s, n)) <= Len(s)
         /\ Len(First(s, n)) = n \/ Len(First(s, n)) = Len(s)
         /\ \A i \in DOMAIN First(s, n) : i \in DOMAIN s /\ First(s, n)[i] = s[i]
<1> DEFINE m == IF Len(s) < n THEN Len(s) ELSE n
<1>1. m \in Nat /\ m <= Len(s) /\ m <= n /\ (m = n \/ m = Len(s))
  OBVIOUS
<1>2. First(s, n) = SubSeq(s, 1, m)
  BY DEF First
<1> HIDE DEF m
<1> QED
  BY <1>1, <1>2

LEMMA FirstShown ==
  ASSUME NEW r, NEW s, Shown(r, s), NEW n \in Nat
  PROVE  Shown(r, First(s, n)) /\ Len(First(s, n)) <= n
BY FirstFacts DEF Shown, Once

(* Ids put in order.                                                         *)
LEMMA IdsInOrder ==
  ASSUME NEW S, S \subseteq Ids, NEW before, Total(S, before)
  PROVE  LET o == InOrder(S, before)
         IN  /\ o \in Seq(S) /\ \A m, n \in DOMAIN o : o[m] = o[n] => m = n
             /\ \A i \in S : \E n \in DOMAIN o : o[n] = i
<1>1. IsFiniteSet(S) /\ Cardinality(S) \in Nat
  BY IdsFinite
<1>2. PICK o : o = InOrder(S, before)
  OBVIOUS
<1>3. Ordered(S, before, o)
  BY <1>1, <1>2, InOrderFacts
<1>4. o \in Seq(S)
  BY <1>1, <1>3 DEF Ordered
<1>5. ASSUME NEW m \in DOMAIN o, NEW n \in DOMAIN o, o[m] = o[n], m # n
      PROVE  FALSE
  <2>1. m \in Int /\ n \in Int /\ o[m] \in S
    BY <1>3 DEF Ordered
  <2>2. m < n \/ n < m
    BY <1>5, <2>1
  <2>3. \A a, b \in DOMAIN o : a < b => <<o[a], o[b]>> \in before
    BY <1>3 DEF Ordered
  <2>4. <<o[m], o[n]>> \in before \/ <<o[n], o[m]>> \in before
    BY <2>2, <2>3
  <2>5. <<o[m], o[m]>> \notin before
    BY <2>1 DEF Total
  <2> QED
    BY <1>5, <2>4, <2>5
<1> QED
  BY <1>2, <1>3, <1>4, <1>5 DEF Ordered

LEMMA AscendingTotal ==
  ASSUME NEW S, S \subseteq Ids
  PROVE  Total(S, Ascending(S)) /\ Total(S, Descending(S))
<1>1. S \subseteq Int
  BY DEF Ids
<1> QED
  BY <1>1 DEF Total, Ascending, Descending

(* Ids turned into hits.                                                     *)
LEMMA HitsShown ==
  ASSUME NEW r, NEW S, S \subseteq Ids, \A i \in S : Visible(r, i),
         NEW o \in Seq(S), \A m, n \in DOMAIN o : o[m] = o[n] => m = n,
         NEW hits, DOMAIN hits = DOMAIN o, hits = [n \in DOMAIN hits |-> hits[n]],
         \A n \in DOMAIN o : hits[n] \in Hits /\ hits[n].id = o[n]
  PROVE  Shown(r, hits) /\ Len(hits) = Len(o)
<1>1. hits \in Seq(Hits) /\ Len(hits) = Len(o)
  OBVIOUS
<1> QED
  BY <1>1 DEF Shown, Once

(***************************************************************************)
(* The flat search                                                         *)
(***************************************************************************)
Over(s, low) == \A n \in DOMAIN s : s[n].score > low

LEMMA NearerTotal ==
  ASSUME StoreOK, NEW t \in Texts, NEW S, S \subseteq Ids, \A i \in S : vectors[i] # NoRow
  PROVE  Total(S, Nearer(S, t))
<1> DEFINE far(i) == Similarity[t][vectors[i].text]
<1>1. \A i \in S : i \in Int /\ far(i) \in Int
  <2> TAKE i \in S
  <2>1. vectors[i] \in Vector /\ i \in Int
    BY DEF StoreOK, Ids
  <2>2. vectors[i].text \in Texts
    BY <2>1 DEF Vector
  <2> QED
    BY <2>1, <2>2, LinkTexts
<1>2. Nearer(S, t) = {p \in S \X S : \/ far(p[1]) > far(p[2])
                                     \/ (far(p[1]) = far(p[2]) /\ p[1] < p[2])}
  BY DEF Nearer, Closer
<1> HIDE DEF far
<1> QED
  BY <1>1, <1>2 DEF Total

LEMMA WeightFacts == ASSUME NEW t PROVE SourceWeight(t) \in {100, 130}
BY DEF SourceWeight

LEMMA ScoresAreInt ==
  ASSUME NEW s \in Seq(Hits)
  PROVE  \A n \in DOMAIN s : n \in Int /\ s[n].score \in Int /\ s[n].id \in Ids
<1> TAKE n \in DOMAIN s
<1>1. n \in Int /\ s[n] \in Hits
  OBVIOUS
<1> QED
  BY <1>1 DEF Hits

LEMMA BestFirstTotal ==
  ASSUME NEW s \in Seq(Hits)
  PROVE  Total(DOMAIN s, BestFirst(s))
<1>1. \A n \in DOMAIN s : n \in Int /\ s[n].score \in Int
  BY ScoresAreInt
<1> HIDE DEF Hits
<1> QED
  BY <1>1 DEF Total, BestFirst, Better

(* A sorted list is the list in another order.                               *)
Sorted(s, o, out) ==
  /\ DOMAIN o = DOMAIN s /\ DOMAIN out = DOMAIN s /\ DOMAIN s = 1..Len(s) /\ Len(s) \in Nat
  /\ \A n \in DOMAIN o : o[n] \in DOMAIN s /\ out[n] = s[o[n]]
  /\ \A i \in DOMAIN s : \E n \in DOMAIN o : o[n] = i
  /\ \A m, n \in DOMAIN o : m < n => Better(s, o[m], o[n])
LEMMA ByScoreFacts ==
  ASSUME NEW s \in Seq(Hits)
  PROVE  ByScore(s) \in Seq(Hits) /\ Len(ByScore(s)) = Len(s)
         /\ \E o : Sorted(s, o, ByScore(s))
<1>1. /\ IsFiniteSet(DOMAIN s) /\ Cardinality(DOMAIN s) = Len(s)
      /\ DOMAIN s = 1..Len(s) /\ Len(s) \in Nat
  <2>1. PICK l \in Nat : l = Len(s) /\ DOMAIN s = 1..l
    OBVIOUS
  <2>2. IsFiniteSet(1..l) /\ Cardinality(1..l) = l
    BY FS_Interval
  <2> QED
    BY <2>1, <2>2
<1>2. PICK o : o = InOrder(DOMAIN s, BestFirst(s))
  OBVIOUS
<1>3. Ordered(DOMAIN s, BestFirst(s), o)
  BY <1>1, <1>2, InOrderFacts, BestFirstTotal
<1>4. ByScore(s) = [n \in DOMAIN s |-> s[o[n]]]
  BY <1>2 DEF ByScore
<1>5. /\ DOMAIN o = DOMAIN s /\ \A n \in DOMAIN o : o[n] \in DOMAIN s
      /\ \A i \in DOMAIN s : \E n \in DOMAIN o : o[n] = i
      /\ \A m, n \in DOMAIN o : m < n => <<o[m], o[n]>> \in BestFirst(s)
  BY <1>1, <1>3 DEF Ordered
<1>6. \A m, n \in DOMAIN o : m < n => Better(s, o[m], o[n])
  BY <1>5 DEF BestFirst
<1>7. ByScore(s) \in Seq(Hits) /\ Len(ByScore(s)) = Len(s)
  BY <1>1, <1>4, <1>5
<1> QED
  BY <1>1, <1>4, <1>5, <1>6, <1>7 DEF Sorted

LEMMA ByScoreShown ==
  ASSUME NEW r, NEW s, Shown(r, s)
  PROVE  Shown(r, ByScore(s))
<1>1. s \in Seq(Hits) /\ Once(s) /\ ByScore(s) \in Seq(Hits)
  BY ByScoreFacts DEF Shown
<1>2. PICK o : Sorted(s, o, ByScore(s))
  BY <1>1, ByScoreFacts
<1>3. \A n \in DOMAIN o : s[o[n]].score \in Int /\ o[n] \in Int /\ n \in Int
  BY <1>1, <1>2, ScoresAreInt DEF Sorted
<1>4. \A m, n \in DOMAIN o : o[m] = o[n] => m = n
  <2> SUFFICES ASSUME NEW m \in DOMAIN o, NEW n \in DOMAIN o, o[m] = o[n], m < n PROVE FALSE
    BY <1>3
  <2>1. Better(s, o[m], o[m])
    BY <1>2 DEF Sorted
  <2>2. s[o[m]].score \in Int /\ o[m] \in Int
    BY <1>3
  <2> QED
    BY <2>1, <2>2 DEF Better
<1>5. Once(ByScore(s))
  <2>1. PICK out : out = ByScore(s)
    OBVIOUS
  <2>2. /\ DOMAIN o = DOMAIN out
        /\ \A n \in DOMAIN out : o[n] \in DOMAIN s /\ out[n] = s[o[n]]
    BY <1>2, <2>1 DEF Sorted
  <2>3. \A m, n \in DOMAIN out : out[m].id = out[n].id => o[m] = o[n]
    BY <1>1, <2>2 DEF Once
  <2>4. Once(out)
    BY <1>4, <2>2, <2>3 DEF Once
  <2> QED
    BY <2>1, <2>4
<1> QED
  BY <1>1, <1>2, <1>5 DEF Sorted, Shown

LEMMA SemanticFacts ==
  ASSUME IInv, NEW r \in Recalls, CosinesPositive
  PROVE  Shown(r, Semantic(r)) /\ Over(Semantic(r), 1) /\ Len(Semantic(r)) <= r.k
<1>0. r.query \in Texts /\ r.k \in Nat
  BY LinkRecalls
<1>1. PICK near : near = {i \in {c.id : c \in Nearest(r.user, r.query, 8 * r.k)} :
                             Visible(r, i)}
  OBVIOUS
<1>2. near \subseteq Ids /\ \A i \in near : vectors[i] # NoRow /\ Visible(r, i)
  BY <1>1, NearestFacts DEF Ranks
<1>3. PICK found : found = InOrder(near, Nearer(near, r.query))
  OBVIOUS
<1>4. found \in Seq(near) /\ \A m, n \in DOMAIN found : found[m] = found[n] => m = n
  BY <1>0, <1>2, <1>3, NearerTotal, IdsInOrder DEF IInv
<1> DEFINE score(i) == 100 * Similarity[r.query][vectors[i].text] * SourceWeight(memories[i].text)
<1>5. ASSUME NEW i \in near PROVE score(i) \in Int /\ score(i) > 1
  <2>1. vectors[i] \in Vector
    BY <1>2 DEF IInv, StoreOK
  <2>2. vectors[i].text \in Texts
    BY <2>1 DEF Vector
  <2>3. PICK c \in Int : c = Similarity[r.query][vectors[i].text] /\ c > 0
    BY <1>0, <2>2, LinkTexts DEF CosinesPositive
  <2>4. SourceWeight(memories[i].text) \in {100, 130}
    BY WeightFacts
  <2>5. score(i) = 100 * c * 100 \/ score(i) = 100 * c * 130
    BY <2>3, <2>4
  <2> QED
    BY <2>3, <2>5
<1>6. PICK hits : hits = [n \in DOMAIN found |-> Hit(found[n], score(found[n]))]
  OBVIOUS
<1>7. Semantic(r) = First(ByScore(hits), r.k)
  BY <1>1, <1>3, <1>6 DEF Semantic
<1> HIDE DEF score
<1>8. /\ DOMAIN hits = DOMAIN found /\ hits = [n \in DOMAIN hits |-> hits[n]]
      /\ \A n \in DOMAIN found : /\ hits[n] \in Hits /\ hits[n].id = found[n]
                                 /\ hits[n].score > 1
  BY <1>2, <1>4, <1>5, <1>6 DEF Hit, Hits
<1>9. Shown(r, hits)
  BY <1>2, <1>4, <1>8, HitsShown
<1>10. Shown(r, ByScore(hits)) /\ Over(ByScore(hits), 1)
  <2>1. PICK o : Sorted(hits, o, ByScore(hits))
    BY <1>9, ByScoreFacts DEF Shown
  <2> QED
    BY <1>8, <1>9, <2>1, ByScoreShown DEF Sorted, Over
<1>11. Over(First(ByScore(hits), r.k), 1)
  BY <1>0, <1>10, FirstFacts DEF Over, Shown
<1> QED
  BY <1>0, <1>7, <1>10, <1>11, FirstShown

LEMMA KeywordFacts ==
  ASSUME NEW r \in Recalls
  PROVE  Shown(r, Keyword(r)) /\ Over(Keyword(r), 1) /\ Len(Keyword(r)) <= r.k
<1>0. r.k \in Nat
  BY LinkRecalls
<1>1. PICK match : match = {i \in Ids : /\ Visible(r, i)
                                       /\ memories[i].text \in Containing[r.query]}
  OBVIOUS
<1>2. PICK found : found = InOrder(match, Descending(match))
  OBVIOUS
<1>3. match \subseteq Ids /\ \A i \in match : Visible(r, i)
  BY <1>1
<1>4. found \in Seq(match) /\ \A m, n \in DOMAIN found : found[m] = found[n] => m = n
  BY <1>2, <1>3, AscendingTotal, IdsInOrder
<1> DEFINE score(i) == 1000 * SourceWeight(memories[i].text)
<1>5. \A i : score(i) \in Int /\ score(i) > 1
  BY WeightFacts
<1>6. PICK hits : hits = [n \in DOMAIN found |-> Hit(found[n], score(found[n]))]
  OBVIOUS
<1>7. Keyword(r) = First(hits, r.k)
  BY <1>1, <1>2, <1>6 DEF Keyword
<1> HIDE DEF score
<1>8. /\ DOMAIN hits = DOMAIN found /\ hits = [n \in DOMAIN hits |-> hits[n]]
      /\ \A n \in DOMAIN found : /\ hits[n] \in Hits /\ hits[n].id = found[n]
                                 /\ hits[n].score > 1
  BY <1>3, <1>4, <1>5, <1>6 DEF Hit, Hits
<1>9. Shown(r, hits)
  BY <1>3, <1>4, <1>8, HitsShown
<1>10. Over(First(hits, r.k), 1)
  BY <1>0, <1>8, <1>9, FirstFacts DEF Over, Shown
<1> QED
  BY <1>0, <1>7, <1>9, <1>10, FirstShown

LEMMA DirectFacts ==
  ASSUME IInv, NEW r \in Recalls, NEW embedded \in BOOLEAN, CosinesPositive
  PROVE  /\ Shown(r, Direct(r, embedded)) /\ Over(Direct(r, embedded), 1)
         /\ Len(Direct(r, embedded)) <= r.k
<1>1. Direct(r, embedded) = Semantic(r) \/ Direct(r, embedded) = Keyword(r)
  BY DEF Direct
<1> QED
  BY <1>1, SemanticFacts, KeywordFacts

(***************************************************************************)
(* Over links                                                              *)
(***************************************************************************)
LEMMA ConcatFacts ==
  ASSUME NEW T, NEW f \in Seq(T), NEW g \in Seq(T)
  PROVE  /\ f \o g \in Seq(T) /\ Len(f \o g) = Len(f) + Len(g)
         /\ \A n \in DOMAIN f : n \in DOMAIN (f \o g) /\ (f \o g)[n] = f[n]
         /\ \A n \in DOMAIN g : /\ Len(f) + n \in DOMAIN (f \o g)
                                /\ (f \o g)[Len(f) + n] = g[n]
         /\ \A n \in DOMAIN (f \o g) :
              \/ n \in DOMAIN f
              \/ n > Len(f) /\ n - Len(f) \in DOMAIN g /\ (f \o g)[n] = g[n - Len(f)]
OBVIOUS

Apart(f, g) == \A m \in DOMAIN f, n \in DOMAIN g : f[m].id # g[n].id
Joined(f, g, h) == h = f \o g
LEMMA JoinedFacts ==
  ASSUME NEW T, NEW f \in Seq(T), NEW g \in Seq(T), NEW h, Joined(f, g, h)
  PROVE  /\ h \in Seq(T) /\ Len(h) = Len(f) + Len(g)
         /\ \A n \in DOMAIN f : n \in DOMAIN h /\ h[n] = f[n]
         /\ \A n \in DOMAIN h : n \in DOMAIN f \/ \E j \in DOMAIN g : h[n] = g[j]
<1>1. h = f \o g
  BY DEF Joined
<1>2. h \in Seq(T) /\ Len(h) = Len(f) + Len(g)
  BY <1>1, ConcatFacts
<1>3. \A n \in DOMAIN f : n \in DOMAIN h /\ h[n] = f[n]
  BY <1>1, ConcatFacts
<1>4. ASSUME NEW n \in DOMAIN h
      PROVE  n \in DOMAIN f \/ \E j \in DOMAIN g : h[n] = g[j]
  <2>1. n \in DOMAIN f \/ (n - Len(f) \in DOMAIN g /\ h[n] = g[n - Len(f)])
    BY <1>1, ConcatFacts
  <2> QED
    BY <2>1
<1> QED
  BY <1>2, <1>3, <1>4

LEMMA ConcatShown ==
  ASSUME NEW r, NEW f, NEW g, NEW h, Shown(r, f), Shown(r, g), Apart(f, g), Joined(f, g, h)
  PROVE  Shown(r, h) /\ IdsOf(h) = IdsOf(f) \cup IdsOf(g)
<1>1. f \in Seq(Hits) /\ g \in Seq(Hits) /\ Len(f) \in Nat /\ Len(g) \in Nat
  BY DEF Shown
<1>2. h = f \o g
  BY DEF Joined
<1>3. /\ h \in Seq(Hits)
      /\ \A n \in DOMAIN f : n \in DOMAIN h /\ h[n] = f[n]
      /\ \A n \in DOMAIN g : Len(f) + n \in DOMAIN h /\ h[Len(f) + n] = g[n]
      /\ \A n \in DOMAIN h : \/ n \in DOMAIN f
                             \/ n - Len(f) \in DOMAIN g /\ h[n] = g[n - Len(f)]
  BY <1>1, <1>2, ConcatFacts
<1>4. \A n \in DOMAIN h : n \in Int
  BY <1>3
<1>5. Once(h)
  <2> SUFFICES ASSUME NEW m \in DOMAIN h, NEW n \in DOMAIN h, h[m].id = h[n].id
               PROVE  m = n
    BY DEF Once
  <2>1. CASE m \in DOMAIN f /\ n \in DOMAIN f
    BY <1>3, <2>1 DEF Shown, Once
  <2>2. CASE m \notin DOMAIN f /\ n \notin DOMAIN f
    <3>1. m - Len(f) = n - Len(f)
      BY <1>3, <2>2 DEF Shown, Once
    <3> QED
      BY <1>1, <1>4, <3>1
  <2>3. ~(m \in DOMAIN f /\ n \notin DOMAIN f) /\ ~(m \notin DOMAIN f /\ n \in DOMAIN f)
    BY <1>3 DEF Apart
  <2> QED
    BY <2>1, <2>2, <2>3
<1>6. \A n \in DOMAIN h : Visible(r, h[n].id)
  BY <1>3 DEF Shown
<1>7. IdsOf(h) = IdsOf(f) \cup IdsOf(g)
  BY <1>3 DEF IdsOf
<1> QED
  BY <1>2, <1>3, <1>5, <1>6, <1>7 DEF Shown

LEMMA InheritedIsInt == ASSUME NEW score \in Int PROVE Inherited(score) \in Int
BY DEF Inherited

LEMMA InheritedIsLess ==
  ASSUME NEW score \in Int, score > 1
  PROVE  Inherited(score) < score /\ Inherited(score) > 0
BY DEF Inherited

(* The other ends of an anchor's links that are not there yet.               *)
Ends(r, anchor, present, over) ==
  /\ Shown(r, over)
  /\ \A n \in DOMAIN over : /\ over[n].id \notin present
                            /\ Pair(anchor.id, over[n].id) \in links
                            /\ over[n].score = Inherited(anchor.score)
  /\ \A i \in Ids : i # anchor.id /\ Pair(anchor.id, i) \in links
                    /\ Visible(r, i) /\ i \notin present => i \in IdsOf(over)
LEMMA OverLinksFacts ==
  ASSUME NEW r, NEW anchor \in Hits, NEW present
  PROVE  Ends(r, anchor, present, OverLinks(r, anchor, present))
<1>1. PICK ends : ends = {i \in Ids \ {anchor.id} : /\ Pair(anchor.id, i) \in links
                                                    /\ Visible(r, i) /\ i \notin present}
  OBVIOUS
<1>2. PICK order : order = InOrder(ends, Ascending(ends))
  OBVIOUS
<1>3. PICK score \in Int : score = Inherited(anchor.score)
  BY InheritedIsInt DEF Hits
<1>4. PICK over : over = [n \in DOMAIN order |-> Hit(order[n], score)]
  OBVIOUS
<1>5. OverLinks(r, anchor, present) = over
  BY <1>1, <1>2, <1>3, <1>4 DEF OverLinks
<1>6. /\ ends \subseteq Ids
      /\ \A i \in ends : Visible(r, i) /\ Pair(anchor.id, i) \in links /\ i \notin present
      /\ \A i \in Ids : i # anchor.id /\ Pair(anchor.id, i) \in links
                        /\ Visible(r, i) /\ i \notin present => i \in ends
  BY <1>1
<1>7. /\ order \in Seq(ends) /\ \A m, n \in DOMAIN order : order[m] = order[n] => m = n
      /\ \A i \in ends : \E n \in DOMAIN order : order[n] = i
  <2>1. ends \subseteq Ids
    BY <1>6
  <2>2. Total(ends, Ascending(ends))
    BY <2>1, AscendingTotal
  <2> QED
    BY <1>2, <2>1, <2>2, IdsInOrder
<1>8. /\ DOMAIN over = DOMAIN order /\ over = [n \in DOMAIN over |-> over[n]]
      /\ \A n \in DOMAIN order : /\ order[n] \in ends /\ over[n] \in Hits
                                 /\ over[n].id = order[n] /\ over[n].score = score
  BY <1>4, <1>6, <1>7 DEF Hit, Hits
<1>9. Shown(r, over)
  BY <1>6, <1>7, <1>8, HitsShown
<1>10. \A i \in ends : i \in IdsOf(over)
  BY <1>7, <1>8 DEF IdsOf
<1> QED
  BY <1>3, <1>5, <1>6, <1>8, <1>9, <1>10 DEF Ends

(* What n anchors have brought: each one hop from one of them, and unless    *)
(* the list was full, all there was to bring.                                *)
Reached(r, hits, n) ==
  {f \in Seq(Hits) :
     /\ Shown(r, f)
     /\ \A m \in DOMAIN f :
          /\ f[m].id \notin IdsOf(hits)
          /\ \E d \in DOMAIN hits : /\ Pair(hits[d].id, f[m].id) \in links
                                    /\ f[m].score = Inherited(hits[d].score)
     /\ \/ Len(f) >= r.k
        \/ \A d \in 1..n, i \in Ids :
             i # hits[d].id /\ Pair(hits[d].id, i) \in links /\ Visible(r, i) =>
               i \in IdsOf(hits) \cup IdsOf(f)}

LEMMA HopStep ==
  ASSUME NEW r, r.k \in Nat, NEW hits \in Seq(Hits), NEW n \in 1..Len(hits),
         NEW f \in Reached(r, hits, n - 1)
  PROVE  Hop(r, hits, f, hits[n]) \in Reached(r, hits, n)
<1>0. /\ f \in Seq(Hits) /\ Shown(r, f) /\ Len(f) \in Nat
      /\ n \in DOMAIN hits /\ hits[n] \in Hits /\ n \in Nat
  BY DEF Reached
<1>1. CASE Len(f) >= r.k
  BY <1>1 DEF Hop, Reached
<1>2. CASE ~(Len(f) >= r.k)
  <2>1. PICK present : present = IdsOf(hits) \cup IdsOf(f)
    OBVIOUS
  <2>2. PICK anchor \in Hits : anchor = hits[n]
    BY <1>0
  <2>a. PICK over : over = OverLinks(r, anchor, present)
    OBVIOUS
  <2>b. Ends(r, anchor, present, over)
    BY <2>a, OverLinksFacts
  <2>3. /\ Shown(r, over)
        /\ \A m \in DOMAIN over : /\ over[m].id \notin present
                                  /\ Pair(hits[n].id, over[m].id) \in links
                                  /\ over[m].score = Inherited(hits[n].score)
        /\ \A i \in Ids : i # hits[n].id /\ Pair(hits[n].id, i) \in links
                          /\ Visible(r, i) /\ i \notin present => i \in IdsOf(over)
    BY <2>2, <2>b DEF Ends
  <2>4. PICK h : h = f \o over
    OBVIOUS
  <2>5. Hop(r, hits, f, hits[n]) = h
    BY <1>2, <2>1, <2>2, <2>a, <2>4 DEF Hop
  <2>6. Shown(r, h) /\ IdsOf(h) = IdsOf(f) \cup IdsOf(over)
    <3>1. \A m \in DOMAIN f : f[m].id \in present
      BY <2>1 DEF IdsOf
    <3>2. Apart(f, over)
      BY <2>3, <3>1 DEF Apart
    <3>3. Shown(r, f) /\ Shown(r, over)
      BY <1>0, <2>3
    <3>4. Joined(f, over, h)
      BY <2>4 DEF Joined
    <3> QED
      BY <3>2, <3>3, <3>4, ConcatShown
  <2>7. \A m \in DOMAIN h :
          \/ \E j \in DOMAIN f : h[m] = f[j]
          \/ \E j \in DOMAIN over : h[m] = over[j]
    <3>1. over \in Seq(Hits) /\ f \in Seq(Hits)
      BY <1>0, <2>3 DEF Shown
    <3> QED
      BY <2>4, <3>1, ConcatFacts, SMTT(30)
  <2>8. ASSUME NEW m \in DOMAIN h
        PROVE  /\ h[m].id \notin IdsOf(hits)
               /\ \E d \in DOMAIN hits : /\ Pair(hits[d].id, h[m].id) \in links
                                         /\ h[m].score = Inherited(hits[d].score)
    <3>1. CASE \E j \in DOMAIN f : h[m] = f[j]
      BY <3>1 DEF Reached
    <3>2. CASE \E j \in DOMAIN over : h[m] = over[j]
      BY <1>0, <2>1, <2>3, <3>2
    <3> QED
      BY <2>7, <3>1, <3>2
  <2>9. ASSUME NEW d \in 1..n, NEW i \in Ids,
               i # hits[d].id, Pair(hits[d].id, i) \in links, Visible(r, i)
        PROVE  i \in IdsOf(hits) \cup IdsOf(h)
    <3>1. CASE d = n
      BY <2>1, <2>3, <2>6, <2>9, <3>1
    <3>2. CASE d # n
      <4>1. d \in 1..(n - 1)
        BY <1>0, <3>2
      <4>2. i \in IdsOf(hits) \cup IdsOf(f)
        BY <1>2, <2>9, <4>1 DEF Reached
      <4> QED
        BY <2>6, <4>2
    <3> QED
      BY <3>1, <3>2
  <2>10. h \in Seq(Hits)
    BY <2>6 DEF Shown
  <2> QED
    BY <2>5, <2>6, <2>8, <2>9, <2>10 DEF Reached
<1> QED
  BY <1>1, <1>2

LEMMA ExpandFacts ==
  ASSUME NEW r, r.k \in Nat, NEW hits \in Seq(Hits)
  PROVE  ExpandLinks(r, hits) \in Reached(r, hits, Len(hits))
<1>1. PICK S : S = [n \in 0..Len(hits) |-> Reached(r, hits, n)]
  OBVIOUS
<1>2. Len(hits) \in Nat
  OBVIOUS
<1>3. \A n \in 0..Len(hits) : S[n] = Reached(r, hits, n)
  BY <1>1
<1>4. <<>> \in S[0]
  <2>1. <<>> \in Reached(r, hits, 0)
    BY DEF Reached, Shown, Once
  <2> QED
    BY <1>2, <1>3, <2>1
<1>5. \A n \in 1..Len(hits) : \A f \in S[n - 1] : Hop(r, hits, f, hits[n]) \in S[n]
  <2> TAKE n \in 1..Len(hits)
  <2>1. n - 1 \in 0..Len(hits) /\ n \in 0..Len(hits)
    BY <1>2
  <2> QED
    BY <1>3, <2>1, HopStep
<1>6. ExpandLinks(r, hits) \in S[Len(hits)]
  BY <1>4, <1>5, ExpandIn
<1>7. Len(hits) \in 0..Len(hits)
  BY <1>2
<1> QED
  BY <1>3, <1>6, <1>7

(***************************************************************************)
(* Terms                                                                   *)
(***************************************************************************)
LEMMA FloorFacts ==
  ASSUME NEW s \in Seq(Hits), Over(s, 0), s # <<>>
  PROVE  /\ Floor(s) \in Int /\ Floor(s) > 0
         /\ \A n \in DOMAIN s : Floor(s) <= s[n].score
<1>1. PICK N \in Nat : N = Len(s) /\ DOMAIN s = 1..N /\ N # 0
  OBVIOUS
<1>2. \A n \in 1..N : s[n].score \in Int /\ s[n].score > 0
  BY <1>1, ScoresAreInt DEF Over
<1> DEFINE Low(n) == {v \in Int : IF n = 0 THEN v = 0
                                  ELSE v > 0 /\ \A m \in 1..n : v <= s[m].score}
           S == [n \in 0..N |-> Low(n)]
<1>3. \A n \in 0..N : S[n] = Low(n)
  OBVIOUS
<1>4. 0 \in S[0]
  BY <1>1
<1>5. ASSUME NEW n \in 1..N, NEW acc \in S[n - 1]
      PROVE  Lower(acc, s[n].score) \in S[n]
  <2>1. n - 1 \in 0..N /\ n \in 0..N /\ n # 0
    BY <1>1
  <2>2. acc \in Low(n - 1)
    BY <1>3, <2>1
  <2>3. \A m \in 1..n : m = n \/ m \in 1..(n - 1)
    BY <2>1
  <2>4. s[n].score \in Int /\ s[n].score > 0
    BY <1>2
  <2>5. PICK v : v = Lower(acc, s[n].score)
    OBVIOUS
  <2>6. v \in Int /\ v > 0 /\ v <= s[n].score /\ (n - 1 # 0 => v <= acc)
    BY <2>2, <2>4, <2>5 DEF Lower
  <2>7. \A m \in 1..n : v <= s[m].score
    <3> TAKE m \in 1..n
    <3>1. CASE m = n
      BY <2>6, <3>1
    <3>2. CASE m \in 1..(n - 1)
      <4>1. n - 1 # 0 /\ acc \in Int /\ acc <= s[m].score
        BY <2>1, <2>2, <3>2
      <4>2. s[m].score \in Int
        BY <1>2
      <4> QED
        BY <2>6, <4>1, <4>2
    <3> QED
      BY <2>3, <3>1, <3>2
  <2>8. v \in Low(n)
    BY <2>1, <2>6, <2>7
  <2> QED
    BY <1>3, <2>1, <2>5, <2>8
<1>6. Floor(s) \in S[Len(s)]
  <2> HIDE DEF S
  <2> QED
    BY <1>1, <1>4, <1>5, FloorIn
<1>7. Floor(s) \in Low(N) /\ N # 0
  <2>1. N \in 0..N
    BY <1>1
  <2> HIDE DEF S, Low
  <2> QED
    BY <1>1, <1>3, <1>6, <2>1
<1> QED
  BY <1>1, <1>7

LEMMA Decreasing ==
  ASSUME NEW base \in Nat, NEW n \in Nat
  PROVE  /\ (base * (100 - n)) \div 100 \in Int
         /\ (base * (100 - n)) \div 100 <= base
<1>1. base * n \in Nat /\ base * (100 - n) = 100 * base - base * n
  OBVIOUS
<1>2. PICK x \in Int : x = base * (100 - n) /\ x <= 100 * base
  BY <1>1
<1>3. x \div 100 \in Int /\ x \div 100 <= base
  BY <1>2
<1> QED
  BY <1>2, <1>3

LEMMA TermBaseFacts ==
  ASSUME NEW s \in Seq(Hits), Over(s, 0)
  PROVE  TermBase(s) \in Nat /\ \A n \in DOMAIN s : TermBase(s) < s[n].score
<1>1. CASE s = <<>>
  BY <1>1 DEF TermBase
<1>2. CASE s # <<>>
  <2>1. PICK low \in Int : low = Floor(s) /\ low > 0
    BY <1>2, FloorFacts
  <2>2. \A n \in DOMAIN s : low <= s[n].score /\ s[n].score \in Int
    BY <1>2, <2>1, FloorFacts, ScoresAreInt
  <2>3. PICK base \in Nat : base = (9 * low) \div 10 /\ base < low
    BY <2>1
  <2>4. TermBase(s) = base
    BY <1>2, <2>1, <2>3 DEF TermBase
  <2> QED
    BY <2>2, <2>3, <2>4
<1> QED
  BY <1>1, <1>2

(* Terms fill what the list has left, below all that is in it.               *)
LEMMA FillFacts ==
  ASSUME NEW r \in Recalls, NEW hits, Shown(r, hits), Over(hits, 0)
  PROVE  LET fill == FtsFill(r, hits)
         IN  /\ Shown(r, fill) /\ Apart(hits, fill)
             /\ fill # <<>> => Len(hits) < r.k
             /\ \A m \in DOMAIN hits, n \in DOMAIN fill : fill[n].score < hits[m].score
<1>0. r.k \in Nat /\ hits \in Seq(Hits) /\ Len(hits) \in Nat
  BY LinkRecalls DEF Shown
<1>1. CASE Len(hits) >= r.k
  <2>1. FtsFill(r, hits) = <<>>
    BY <1>1 DEF FtsFill
  <2> QED
    BY <2>1 DEF Shown, Once, Apart
<1>2. CASE ~(Len(hits) >= r.k)
  <2> DEFINE terms == {i \in Ids : Visible(r, i) /\ memories[i].text \in SharesTerm[r.query]}
             sorted == InOrder(terms, Ascending(terms))
             order == First(sorted, 4 * r.k)
             new == {order[n] : n \in DOMAIN order} \ IdsOf(hits)
             fresh == InOrder(new, Ascending(new))
             base == TermBase(hits)
             all == [n \in DOMAIN fresh |-> Hit(fresh[n], (base * (100 - n)) \div 100)]
  <2>1. FtsFill(r, hits) = First(all, r.k - Len(hits))
    BY <1>2 DEF FtsFill
  <2>2. terms \subseteq Ids /\ \A i \in terms : Visible(r, i)
    OBVIOUS
  <2> HIDE DEF terms
  <2>4. sorted \in Seq(terms)
    BY <2>2, AscendingTotal, IdsInOrder
  <2> HIDE DEF sorted
  <2>6. order \in Seq(terms)
    BY <1>0, <2>4, FirstFacts
  <2> HIDE DEF order
  <2>8. new \subseteq terms /\ \A i \in new : i \notin IdsOf(hits)
    BY <2>6
  <2> HIDE DEF new
  <2>10. fresh \in Seq(new) /\ \A m, n \in DOMAIN fresh : fresh[m] = fresh[n] => m = n
    BY <2>2, <2>8, AscendingTotal, IdsInOrder
  <2> HIDE DEF fresh
  <2>11. base \in Nat /\ \A m \in DOMAIN hits : base < hits[m].score
    BY <1>0, TermBaseFacts
  <2> HIDE DEF base
  <2>12. /\ DOMAIN all = DOMAIN fresh /\ all = [n \in DOMAIN all |-> all[n]]
         /\ \A n \in DOMAIN fresh : all[n] = Hit(fresh[n], (base * (100 - n)) \div 100)
    OBVIOUS
  <2> HIDE DEF all
  <2>14. ASSUME NEW n \in DOMAIN fresh
         PROVE  /\ fresh[n] \in new /\ all[n] \in Hits /\ all[n].id = fresh[n]
                /\ all[n].score <= base
    <3>1. n \in Nat /\ fresh[n] \in new /\ fresh[n] \in Ids
      BY <2>2, <2>8, <2>10
    <3>2. PICK x \in Int : x = (base * (100 - n)) \div 100 /\ x <= base
      BY <2>11, <3>1, Decreasing
    <3>3. all[n] = [id |-> fresh[n], score |-> x]
      BY <2>12, <3>2 DEF Hit
    <3> QED
      BY <3>1, <3>2, <3>3 DEF Hits
  <2>16. Shown(r, all)
    BY <2>2, <2>8, <2>10, <2>14, <2>12, HitsShown
  <2>17. PICK left \in Nat : left = r.k - Len(hits)
    BY <1>0, <1>2
  <2>18. PICK fill : fill = First(all, left)
    OBVIOUS
  <2>19. Shown(r, fill) /\ \A n \in DOMAIN fill : n \in DOMAIN all /\ fill[n] = all[n]
    BY <2>16, <2>17, <2>18, FirstShown, FirstFacts DEF Shown
  <2>20. \A m \in DOMAIN hits, n \in DOMAIN fill :
           fill[n].score < hits[m].score /\ hits[m].id # fill[n].id
    <3> TAKE m \in DOMAIN hits, n \in DOMAIN fill
    <3>1. /\ fill[n].score <= base /\ fill[n].id \in new /\ fill[n] \in Hits
      BY <2>14, <2>12, <2>19
    <3>2. base < hits[m].score /\ hits[m].score \in Int /\ hits[m].id \in IdsOf(hits)
      BY <1>0, <2>11, ScoresAreInt DEF IdsOf
    <3>3. fill[n].score \in Int
      BY <3>1 DEF Hits
    <3> QED
      BY <2>8, <2>11, <3>1, <3>2, <3>3
  <2>21. Len(hits) < r.k
    BY <1>0, <1>2
  <2> QED
    BY <2>1, <2>17, <2>18, <2>19, <2>20, <2>21 DEF Apart
<1> QED
  BY <1>1, <1>2

(***************************************************************************)
(* The widened list                                                        *)
(***************************************************************************)
(* The list before it is sorted: first what was found directly, then what    *)
(* links brought, then the terms.                                            *)
Spine(r, direct, all) ==
  /\ direct \in Seq(Hits) /\ all \in Seq(Hits) /\ Once(all)
  /\ \A n \in DOMAIN direct : n \in DOMAIN all /\ all[n] = direct[n]
  /\ \A n \in DOMAIN all : all[n].id \in IdsOf(direct) => n \in DOMAIN direct
  /\ \A n \in DOMAIN all : n \notin DOMAIN direct =>
       \/ \E d \in DOMAIN direct : /\ Pair(direct[d].id, all[n].id) \in links
                                   /\ direct[d].score > all[n].score
       \/ /\ \A d \in DOMAIN direct : /\ Pair(direct[d].id, all[n].id) \notin links
                                      /\ direct[d].score > all[n].score
          /\ \A m \in DOMAIN all :
               (m \in DOMAIN direct \/ \E d \in IdsOf(direct) : Pair(d, all[m].id) \in links) =>
                 all[m].score > all[n].score

LEMMA WidenFacts ==
  ASSUME NEW r \in Recalls, NEW direct, Shown(r, direct), Over(direct, 1)
  PROVE  \E all : /\ Widen(r, direct) = First(ByScore(all), r.k)
                  /\ Shown(r, all) /\ Spine(r, direct, all)
<1>0. r.k \in Nat /\ direct \in Seq(Hits) /\ Len(direct) \in Nat /\ Once(direct)
  BY LinkRecalls DEF Shown
<1>1. PICK f \in Reached(r, direct, Len(direct)) : f = ExpandLinks(r, direct)
  BY <1>0, ExpandFacts
<1>2. f \in Seq(Hits) /\ Shown(r, f)
  BY <1>1 DEF Reached
<1>3. PICK linked : Joined(direct, f, linked)
  BY DEF Joined
<1>4. Apart(direct, f)
  BY DEF Reached, Apart, IdsOf
<1>5. Shown(r, linked) /\ IdsOf(linked) = IdsOf(direct) \cup IdsOf(f)
  BY <1>2, <1>3, <1>4, ConcatShown
<1>6. /\ linked \in Seq(Hits) /\ Len(linked) = Len(direct) + Len(f)
      /\ \A n \in DOMAIN direct : n \in DOMAIN linked /\ linked[n] = direct[n]
      /\ \A n \in DOMAIN linked : n \in DOMAIN direct \/ \E j \in DOMAIN f : linked[n] = f[j]
  BY <1>0, <1>2, <1>3, JoinedFacts
<1>7. ASSUME NEW j \in DOMAIN f
      PROVE  /\ f[j].score > 0 /\ f[j].id \notin IdsOf(direct)
             /\ \E d \in DOMAIN direct : /\ Pair(direct[d].id, f[j].id) \in links
                                         /\ direct[d].score > f[j].score
  <2>1. PICK d \in DOMAIN direct : /\ Pair(direct[d].id, f[j].id) \in links
                                   /\ f[j].score = Inherited(direct[d].score)
    BY DEF Reached
  <2>2. direct[d].score \in Int /\ direct[d].score > 1
    BY <1>0, ScoresAreInt DEF Over
  <2>3. Inherited(direct[d].score) \in Int
    BY <2>2, InheritedIsInt
  <2>4. f[j].id \notin IdsOf(direct)
    BY DEF Reached
  <2> QED
    BY <2>1, <2>2, <2>3, <2>4, InheritedIsLess
<1>8. Over(linked, 0)
  <2> SUFFICES ASSUME NEW n \in DOMAIN linked PROVE linked[n].score > 0
    BY DEF Over
  <2>1. CASE n \in DOMAIN direct
    <3>1. direct[n].score \in Int /\ direct[n].score > 1
      BY <1>0, <2>1, ScoresAreInt DEF Over
    <3> QED
      BY <1>6, <2>1, <3>1
  <2>2. CASE n \notin DOMAIN direct
    BY <1>6, <1>7, <2>2
  <2> QED
    BY <2>1, <2>2
<1>9. PICK fill : fill = FtsFill(r, linked)
  OBVIOUS
<1>10. /\ Shown(r, fill) /\ Apart(linked, fill)
       /\ fill # <<>> => Len(linked) < r.k
       /\ \A m \in DOMAIN linked, n \in DOMAIN fill : fill[n].score < linked[m].score
  BY <1>5, <1>8, <1>9, FillFacts
<1>11. PICK all : Joined(linked, fill, all)
  BY DEF Joined
<1>12. Shown(r, all)
  BY <1>5, <1>10, <1>11, ConcatShown
<1>13. /\ all \in Seq(Hits)
       /\ \A n \in DOMAIN linked : n \in DOMAIN all /\ all[n] = linked[n]
       /\ \A n \in DOMAIN all : n \in DOMAIN linked \/ \E j \in DOMAIN fill : all[n] = fill[j]
  <2>1. fill \in Seq(Hits)
    BY <1>10 DEF Shown
  <2> QED
    BY <1>6, <1>11, <2>1, JoinedFacts
<1>14. Widen(r, direct) = First(ByScore(all), r.k)
  BY <1>1, <1>3, <1>9, <1>11 DEF Widen, Joined
<1>15. \A n \in DOMAIN direct : n \in DOMAIN all /\ all[n] = direct[n]
  BY <1>6, <1>13
(* A direct hit's id is nowhere else.                                        *)
<1>16. ASSUME NEW n \in DOMAIN all, all[n].id \in IdsOf(direct)
       PROVE  n \in DOMAIN direct
  <2>1. PICK d \in DOMAIN direct : direct[d].id = all[n].id
    BY <1>16 DEF IdsOf
  <2>2. d \in DOMAIN all /\ all[d].id = all[n].id
    BY <1>15, <2>1
  <2> QED
    BY <1>12, <2>1, <2>2 DEF Shown, Once
(* Whatever a direct hit has a link to is there before the terms.            *)
<1>17. ASSUME fill # <<>>, NEW d \in DOMAIN direct, NEW i \in Ids, Visible(r, i),
              Pair(direct[d].id, i) \in links
       PROVE  i \in IdsOf(linked)
  <2>1. CASE i = direct[d].id
    BY <1>5, <2>1 DEF IdsOf
  <2>2. CASE i # direct[d].id
    <3>1. ~(Len(f) >= r.k)
      <4>1. Len(f) \in Nat /\ Len(linked) < r.k
        BY <1>2, <1>10, <1>17
      <4> QED
        BY <1>0, <1>6, <4>1
    <3>2. d \in 1..Len(direct)
      BY <1>0
    <3>3. i \in IdsOf(direct) \cup IdsOf(f)
      BY <1>17, <2>2, <3>1, <3>2 DEF Reached
    <3> QED
      BY <1>5, <3>3
  <2> QED
    BY <2>1, <2>2
<1>18. ASSUME NEW j \in DOMAIN fill
       PROVE  /\ \A d \in DOMAIN direct : /\ Pair(direct[d].id, fill[j].id) \notin links
                                          /\ direct[d].score > fill[j].score
              /\ \A m \in DOMAIN all :
                   (\E d \in IdsOf(direct) : Pair(d, all[m].id) \in links)
                     \/ m \in DOMAIN direct => all[m].score > fill[j].score
  <2>1. fill # <<>> /\ fill \in Seq(Hits) /\ fill[j].id \in Ids /\ Visible(r, fill[j].id)
    <3>1. fill \in Seq(Hits)
      BY <1>10 DEF Shown
    <3> QED
      BY <1>10, <3>1, ScoresAreInt DEF Shown
  <2>2. \A m \in DOMAIN linked : linked[m].score > fill[j].score /\ linked[m].id # fill[j].id
    <3>1. fill[j].score \in Int /\ \A m \in DOMAIN linked : linked[m].score \in Int
      BY <1>6, <2>1, ScoresAreInt
    <3> QED
      BY <1>10, <3>1 DEF Apart
  <2>3. fill[j].id \notin IdsOf(linked)
    BY <2>2 DEF IdsOf
  <2>4. \A d \in DOMAIN direct : /\ Pair(direct[d].id, fill[j].id) \notin links
                                 /\ direct[d].score > fill[j].score
    BY <1>6, <1>17, <2>1, <2>2, <2>3
  <2>5. ASSUME NEW m \in DOMAIN all,
               (\E d \in IdsOf(direct) : Pair(d, all[m].id) \in links) \/ m \in DOMAIN direct
        PROVE  all[m].score > fill[j].score
    <3>1. CASE m \in DOMAIN linked
      BY <1>13, <2>2, <3>1
    <3>2. CASE m \notin DOMAIN linked
      <4>1. m \notin DOMAIN direct
        BY <1>6, <3>2
      <4>2. PICK d \in DOMAIN direct : Pair(direct[d].id, all[m].id) \in links
        BY <2>5, <4>1 DEF IdsOf
      <4>3. all[m].id \in Ids /\ Visible(r, all[m].id)
        BY <1>12, <1>13, ScoresAreInt DEF Shown
      <4>4. all[m].id \in IdsOf(linked)
        BY <1>17, <2>1, <4>2, <4>3
      <4>5. PICK l \in DOMAIN linked : linked[l].id = all[m].id
        BY <4>4 DEF IdsOf
      <4>6. l \in DOMAIN all /\ all[l].id = all[m].id
        BY <1>13, <4>5
      <4> QED
        BY <1>12, <3>2, <4>5, <4>6 DEF Shown, Once
    <3> QED
      BY <3>1, <3>2
  <2> QED
    BY <2>4, <2>5
<1>19. ASSUME NEW n \in DOMAIN all, n \notin DOMAIN direct
       PROVE  \/ \E d \in DOMAIN direct : /\ Pair(direct[d].id, all[n].id) \in links
                                          /\ direct[d].score > all[n].score
              \/ \E j \in DOMAIN fill : all[n] = fill[j]
  <2>1. CASE n \in DOMAIN linked
    <3>1. PICK j \in DOMAIN f : all[n] = f[j]
      BY <1>6, <1>13, <1>19, <2>1
    <3> QED
      BY <1>7, <3>1
  <2>2. CASE n \notin DOMAIN linked
    BY <1>13, <2>2
  <2> QED
    BY <2>1, <2>2
<1>20. Spine(r, direct, all)
  BY <1>0, <1>12, <1>13, <1>15, <1>16, <1>18, <1>19 DEF Spine, Shown
<1> QED
  BY <1>12, <1>14, <1>20

(* What one recall promises, of its list before and after it is sorted.      *)
SpineKept(direct, out) ==
  /\ direct # <<>> => out[1].id \in IdsOf(direct)
  /\ \A m, n \in DOMAIN direct : Better(direct, m, n) =>
       \A q \in DOMAIN out : out[q].id = direct[n].id =>
         \E p \in DOMAIN out : p < q /\ out[p].id = direct[m].id
  /\ \A n \in DOMAIN out : out[n].id \notin IdsOf(direct) =>
       \/ \E d \in DOMAIN direct : /\ Pair(direct[d].id, out[n].id) \in links
                                   /\ direct[d].score > out[n].score
       \/ \A m \in n..Len(out) :
            /\ out[m].id \notin IdsOf(direct)
            /\ ~\E d \in IdsOf(direct) : Pair(d, out[m].id) \in links
LEMMA SpineFacts ==
  ASSUME NEW r \in Recalls, NEW direct, NEW all, NEW out,
         Shown(r, all), Spine(r, direct, all), out = First(ByScore(all), r.k)
  PROVE  Shown(r, out) /\ Len(out) <= r.k /\ SpineKept(direct, out)
<1>0. r.k \in Nat /\ r.k >= 1 /\ all \in Seq(Hits) /\ Len(all) \in Nat
  BY LinkRecalls DEF Shown
<1>a. PICK sorted : sorted = ByScore(all)
  OBVIOUS
<1>1. PICK o : Sorted(all, o, sorted)
  BY <1>0, <1>a, ByScoreFacts
<1>2. Shown(r, sorted) /\ Len(sorted) = Len(all)
  BY <1>0, <1>a, ByScoreShown, ByScoreFacts
<1>3. Shown(r, out) /\ Len(out) <= r.k
  BY <1>0, <1>a, <1>2, FirstShown
<1>4. /\ out \in Seq(Hits) /\ Len(out) \in Nat /\ DOMAIN out = 1..Len(out)
      /\ Len(out) <= Len(all) /\ (Len(out) = r.k \/ Len(out) = Len(all))
      /\ \A n \in DOMAIN out : n \in DOMAIN o /\ out[n] = all[o[n]]
  <2>1. sorted \in Seq(Hits) /\ out = First(sorted, r.k)
    BY <1>a, <1>2 DEF Shown
  <2>2. /\ out \in Seq(Hits) /\ Len(out) <= Len(all)
        /\ Len(out) = r.k \/ Len(out) = Len(all)
        /\ \A n \in DOMAIN out : n \in DOMAIN sorted /\ out[n] = sorted[n]
    <3>1. /\ First(sorted, r.k) \in Seq(Hits)
          /\ Len(First(sorted, r.k)) <= Len(sorted)
          /\ Len(First(sorted, r.k)) = r.k \/ Len(First(sorted, r.k)) = Len(sorted)
          /\ \A n \in DOMAIN First(sorted, r.k) :
               n \in DOMAIN sorted /\ First(sorted, r.k)[n] = sorted[n]
      BY <1>0, <2>1, FirstFacts
    <3> QED
      BY <1>2, <2>1, <3>1
  <2>3. \A n \in DOMAIN out : n \in DOMAIN o /\ out[n] = all[o[n]]
    BY <1>1, <2>2 DEF Sorted
  <2>4. Len(out) \in Nat /\ DOMAIN out = 1..Len(out)
    BY <2>2
  <2> QED
    BY <2>2, <2>3, <2>4
<1>5. /\ DOMAIN o = 1..Len(all)
      /\ \A n \in DOMAIN o : o[n] \in DOMAIN all /\ n \in Int /\ o[n] \in Int
      /\ \A i \in DOMAIN all : \E n \in DOMAIN o : o[n] = i
      /\ \A m, n \in DOMAIN o : m < n => Better(all, o[m], o[n])
  BY <1>1 DEF Sorted
<1>6. \A n \in DOMAIN all : n \in Int /\ all[n].score \in Int
  BY <1>0, ScoresAreInt
(* What is better comes before.                                              *)
<1>7. ASSUME NEW m \in DOMAIN all, NEW n \in DOMAIN o, Better(all, m, o[n])
      PROVE  \E p \in DOMAIN o : o[p] = m /\ p < n
  <2>1. PICK p \in DOMAIN o : o[p] = m
    BY <1>5
  <2>2. ~(n < p)
    <3>1. ~Better(all, o[n], m)
      BY <1>5, <1>6, <1>7 DEF Better
    <3> QED
      BY <1>5, <2>1, <3>1
  <2>3. n # p
    <3>1. m # o[n]
      BY <1>5, <1>6, <1>7 DEF Better
    <3> QED
      BY <2>1, <3>1
  <2> QED
    BY <1>5, <2>1, <2>2, <2>3
<1>8. /\ direct \in Seq(Hits)
      /\ \A n \in DOMAIN direct : n \in DOMAIN all /\ all[n] = direct[n]
      /\ \A n \in DOMAIN all : all[n].id \in IdsOf(direct) => n \in DOMAIN direct
  BY DEF Spine
<1>9. ASSUME NEW n \in DOMAIN all, n \notin DOMAIN direct, direct # <<>>
      PROVE  \E d \in DOMAIN direct : Better(all, d, n)
  <2>1. \E d \in DOMAIN direct : direct[d].score > all[n].score
    <3>1. 1 \in DOMAIN direct
      BY <1>8, <1>9
    <3> QED
      BY <1>9, <3>1 DEF Spine
  <2> QED
    BY <1>8, <2>1 DEF Better
<1>10. ASSUME direct # <<>>
       PROVE  out[1].id \in IdsOf(direct)
  <2>1. 1 \in DOMAIN direct
    BY <1>8, <1>10
  <2>2. Len(all) >= 1
    BY <1>0, <1>8, <2>1
  <2>3. 1 \in DOMAIN out /\ 1 \in DOMAIN o /\ out[1] = all[o[1]] /\ o[1] \in DOMAIN all
    BY <1>0, <1>4, <1>5, <2>2
  <2>4. o[1] \in DOMAIN direct
    <3> SUFFICES ASSUME o[1] \notin DOMAIN direct PROVE FALSE
      OBVIOUS
    <3>1. PICK d \in DOMAIN direct : Better(all, d, o[1])
      BY <1>9, <1>10, <2>3
    <3>2. \E p \in DOMAIN o : p < 1
      BY <1>7, <1>8, <2>3, <3>1
    <3> QED
      BY <1>0, <1>5, <3>2
  <2> QED
    BY <1>8, <2>3, <2>4 DEF IdsOf
<1>11. ASSUME NEW m \in DOMAIN direct, NEW n \in DOMAIN direct, Better(direct, m, n),
              NEW q \in DOMAIN out, out[q].id = direct[n].id
       PROVE  \E p \in DOMAIN out : p < q /\ out[p].id = direct[m].id
  <2>1. o[q] = n
    <3>1. all[o[q]].id = all[n].id /\ o[q] \in DOMAIN all /\ n \in DOMAIN all
      BY <1>4, <1>5, <1>8, <1>11
    <3> QED
      BY <3>1 DEF Shown, Once
  <2>2. Better(all, m, o[q])
    BY <1>8, <1>11, <2>1 DEF Better
  <2>3. PICK p \in DOMAIN o : o[p] = m /\ p < q
    BY <1>4, <1>7, <1>8, <2>2
  <2>4. p \in DOMAIN out
    BY <1>4, <1>5, <2>3
  <2> QED
    BY <1>4, <1>8, <2>3, <2>4
<1>12. ASSUME NEW n \in DOMAIN out, out[n].id \notin IdsOf(direct),
              ~\E d \in DOMAIN direct : /\ Pair(direct[d].id, out[n].id) \in links
                                        /\ direct[d].score > out[n].score,
              NEW m \in n..Len(out)
       PROVE  /\ out[m].id \notin IdsOf(direct)
              /\ ~\E d \in IdsOf(direct) : Pair(d, out[m].id) \in links
  <2>1. /\ n \in DOMAIN o /\ out[n] = all[o[n]] /\ o[n] \in DOMAIN all
        /\ m \in DOMAIN out /\ m \in DOMAIN o /\ out[m] = all[o[m]] /\ o[m] \in DOMAIN all
    BY <1>4, <1>5
  <2>2. o[n] \notin DOMAIN direct
    BY <1>8, <1>12, <2>1 DEF IdsOf
  <2>3. \A i \in DOMAIN all :
          (i \in DOMAIN direct \/ \E d \in IdsOf(direct) : Pair(d, all[i].id) \in links) =>
            all[i].score > all[o[n]].score
    BY <1>12, <2>1, <2>2 DEF Spine
  <2>4. ~(all[o[m]].score > all[o[n]].score)
    <3>1. CASE m = n
      <4>1. all[o[m]].score \in Int /\ o[m] = o[n]
        BY <1>6, <2>1, <3>1
      <4> QED
        BY <4>1
    <3>2. CASE n < m
      <4>1. Better(all, o[n], o[m])
        BY <1>5, <2>1, <3>2
      <4>2. all[o[m]].score \in Int /\ all[o[n]].score \in Int
        BY <1>6, <2>1
      <4> QED
        BY <4>1, <4>2 DEF Better
    <3>3. n \in Int /\ m \in Int /\ n <= m
      BY <1>4
    <3> QED
      BY <3>1, <3>2, <3>3
  <2> QED
    BY <1>8, <2>1, <2>3, <2>4
<1> QED
  BY <1>3, <1>10, <1>11, <1>12 DEF SpineKept

(* Widening keeps the spine of recall, with any number of memories, links,   *)
(* terms and hits asked for, as long as cosines are above zero: with a       *)
(* cosine of zero or below LINK_DECAY and FTS_CEILING lift what they mean to *)
(* lower.                                                                    *)
THEOREM SpineHolds ==
  ASSUME CosinesPositive
  PROVE  Spec => []RecallKeepsSpine
<1>1. ASSUME IInv, NEW r \in Recalls, NEW embedded \in BOOLEAN
      PROVE  LET direct == Direct(r, embedded)
                 out == Widen(r, direct)
                 found == IdsOf(direct)
                 linked(i) == \E d \in found : Pair(d, i) \in links
             IN /\ \A m, n \in DOMAIN out : out[m].id = out[n].id => m = n
                /\ Len(out) <= r.k
                /\ \A n \in DOMAIN out : Visible(r, out[n].id)
                /\ direct # <<>> => out[1].id \in found
                /\ \A m, n \in DOMAIN direct : Better(direct, m, n) =>
                     \A q \in DOMAIN out : out[q].id = direct[n].id =>
                       \E p \in DOMAIN out : p < q /\ out[p].id = direct[m].id
                /\ \A n \in DOMAIN out : out[n].id \notin found =>
                     \/ \E d \in DOMAIN direct : /\ Pair(direct[d].id, out[n].id) \in links
                                                 /\ direct[d].score > out[n].score
                     \/ \A m \in n..Len(out) : out[m].id \notin found /\ ~linked(out[m].id)
  <2>1. PICK direct : direct = Direct(r, embedded)
    OBVIOUS
  <2>2. Shown(r, direct) /\ Over(direct, 1)
    BY <1>1, <2>1, DirectFacts
  <2>3. PICK all : /\ Widen(r, direct) = First(ByScore(all), r.k)
                   /\ Shown(r, all) /\ Spine(r, direct, all)
    BY <2>2, WidenFacts
  <2>4. PICK out : out = Widen(r, direct)
    OBVIOUS
  <2>5. out = First(ByScore(all), r.k)
    BY <2>3, <2>4
  <2>6. Shown(r, out) /\ Len(out) <= r.k /\ SpineKept(direct, out)
    BY <2>3, <2>5, SpineFacts
  <2> QED
    BY <2>1, <2>4, <2>6 DEF Shown, Once, SpineKept
<1>2. IInv => RecallKeepsSpine
  BY <1>1 DEF RecallKeepsSpine
<1> QED
  BY <1>2, Invariant, PTL
=============================================================================
