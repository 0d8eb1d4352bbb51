-------------------------- MODULE MemoryStoreProofs --------------------------
(***************************************************************************)
(* Theorems of MemoryStore, for every set of accounts, texts and facts,    *)
(* whatever texts are alike, and every number of ids, retries and crashes: *)
(* an embedding is its own memory's, and merges lose no fact.              *)
(***************************************************************************)
EXTENDS MemoryStore, FiniteSetTheorems, WellFoundedInduction, TLAPS

(***************************************************************************)
(* Facts about ids                                                         *)
(***************************************************************************)
(* A non-empty set of natural numbers has a least element.                   *)
LEMMA LeastOf ==
  ASSUME NEW S, S \subseteq Nat, S # {}
  PROVE  \E n \in S : \A m \in S : n <= m
<1>1. IsWellFoundedOn(OpToRel(<, Nat), Nat)
  BY NatLessThanWellFounded, Zenon
<1>2. PICK n \in S : \A m \in S : ~(<<m, n>> \in OpToRel(<, Nat))
  BY <1>1, WFMin, Zenon
<1>3. \A m \in S : ~(m < n)
  BY <1>2, Zenon DEF OpToRel
<1> QED
  BY <1>3

(* Least, on a set that is not empty.                                       *)
LEMMA LeastIsOne ==
  ASSUME NEW S, S \subseteq Ids, S # {}
  PROVE  Least(S) \in S
<1>1. S \subseteq Nat
  BY DEF Ids
<1>2. \E n \in S : \A m \in S : n <= m
  BY <1>1, LeastOf
<1> QED
  BY <1>2 DEF Least

(* One past the largest id: no memory has it.                               *)
LEMMA NewIdIsFree == NewId \in Nat /\ NewId >= 1 /\ (NewId \in Ids => ~Stored(NewId))
<1> DEFINE Above == {m \in 0..MaxId : \A i \in Ids : Stored(i) => i <= m}
<1>1. MaxId \in Nat
  BY BoundsAssumption
<1>2. MaxId \in Above /\ Above \subseteq Nat
  BY <1>1 DEF Ids
<1>3. PICK m \in Above : \A k \in Above : m <= k
  <2> HIDE DEF Above
  <2> QED
    BY <1>2, LeastOf
<1>4. m = 0 \/ Stored(m)
  <2>1. SUFFICES ASSUME m # 0, ~Stored(m)
                 PROVE  m - 1 \in Above
    BY <1>1, <1>3
  <2>2. \A i \in Ids : Stored(i) => i <= m /\ i # m /\ i \in Int
    BY <2>1, <1>3 DEF Ids
  <2> QED
    BY <1>1, <1>3, <2>1, <2>2
<1> DEFINE Top == CHOOSE n \in 0..MaxId :
                    (n = 0 \/ Stored(n)) /\ \A i \in Ids : Stored(i) => i <= n
<1>5. Top \in 0..MaxId /\ \A i \in Ids : Stored(i) => i <= Top
  BY <1>3, <1>4
<1>6. NewId = 1 + Top
  BY DEF NewId
<1> HIDE DEF Top
<1> QED
  BY <1>1, <1>5, <1>6 DEF Ids

(***************************************************************************)
(* The inductive invariant                                                 *)
(***************************************************************************)
FillRecord == [phase : {"pass", "filling", "count", "stopped", "gave_up"},
               pending : SUBSET [id : Ids, user : Users, text : Texts],
               progress : BOOLEAN, retries : 0..MaxRetries + 1]
MergeRecord == [todo : SUBSET Users, user : Users \cup {NoUser}, seeds : SUBSET Ids,
                claimed : SUBSET Ids,
                cluster : SUBSET [id : Ids, text : Texts, owner : Users]]

(* The tables: an account holds a text once, and only rows can be stale.     *)
HeldOnce ==
  \A i, j \in Ids :
    Stored(i) /\ Stored(j) /\ memories[i].user = memories[j].user
      /\ memories[i].text = memories[j].text => i = j
TablesOK ==
  /\ memories \in [Ids -> Row \cup {NoRow}]
  /\ vectors \in [Ids -> Vector \cup {NoRow}]
  /\ \A i \in stale : i \in Ids /\ Stored(i)
  /\ HeldOnce

(* The two threads.                                                         *)
FillOK ==
  /\ fill \in FillRecord
  /\ fill.phase # "gave_up" => fill.retries <= MaxRetries
MergeOK ==
  /\ merge \in MergeRecord
  /\ merge.cluster # {} => merge.user # NoUser /\ Cardinality(merge.cluster) > 1

(* Whatever refers to a row means that row: its vector, a backfill that has  *)
(* read it, and a cluster, which then is of the row's account.               *)
Own(i, r) == r.user = memories[i].user /\ r.text = memories[i].text
Sound(i) ==
  /\ vectors[i] # NoRow => Own(i, vectors[i])
  /\ \A p \in fill.pending : p.id = i => Own(i, p)
  /\ \A m \in merge.cluster : m.id = i => /\ m.text = memories[i].text
                                          /\ memories[i].user = merge.user
SoundOK == \A i \in Ids : Stored(i) /\ i \notin stale => Sound(i)

(* Every fact owed is said by a memory that is not stale: a merge that finds *)
(* it in its cluster knows what the memory says.                             *)
Says(i) == Said(memories[i].user, memories[i].text)
OwedOK == \A x \in owed : \E i \in Ids : Stored(i) /\ i \notin stale /\ x \in Says(i)

IInv == TablesOK /\ FillOK /\ MergeOK /\ SoundOK /\ OwedOK

(* Both threads start out well.                                             *)
LEMMA StartOK ==
  /\ FillStart \in FillRecord /\ FillStart.retries <= MaxRetries /\ FillStart.pending = {}
  /\ MergeIdle \in MergeRecord /\ MergeIdle.cluster = {}
<1>1. MaxRetries \in Nat
  BY BoundsAssumption
<1> QED
  BY <1>1 DEF FillStart, FillRecord, MergeIdle, MergeRecord

(* What a set of memories states.                                           *)
LEMMA KnownFacts ==
  ASSUME NEW u, NEW S, NEW x
  PROVE  x \in Known(u, S) <=>
           \E i \in S : Stored(i) /\ memories[i].user = u /\ x \in Said(u, memories[i].text)
BY DEF Known

(* The fields of a stored memory.                                           *)
LEMMA StoredFacts ==
  ASSUME TablesOK, NEW i \in Ids, Stored(i)
  PROVE  /\ memories[i] \in Row /\ memories[i].user \in Users /\ memories[i].text \in Texts
BY DEF TablesOK, HeldOnce, Stored, Row

(***************************************************************************)
(* What the parties leave alone                                            *)
(***************************************************************************)

(* Less refers to a row than before: it is as sound as it was.               *)
LEMMA SoundKept ==
  ASSUME NEW i, Sound(i),
         memories'[i].user = memories[i].user, memories'[i].text = memories[i].text,
         vectors'[i] \in {vectors[i], NoRow},
         fill'.pending \subseteq fill.pending,
         \/ merge'.cluster = {}
         \/ merge'.cluster = merge.cluster /\ merge'.user = merge.user
  PROVE  Sound(i)'
BY DEF Sound, Own

(* No row comes or goes.                                                    *)
LEMMA OwedStays ==
  ASSUME OwedOK, UNCHANGED <<memories, owed, stale>>
  PROVE  OwedOK'
BY DEF OwedOK, Stored, Says

LEMMA TablesStay ==
  ASSUME TablesOK, UNCHANGED <<memories, stale>>, vectors' \in [Ids -> Vector \cup {NoRow}]
  PROVE  TablesOK'
BY DEF TablesOK, HeldOnce, Stored

(* A thread works and leaves the tables alone.                              *)
LEMMA ThreadStep ==
  ASSUME IInv, UNCHANGED <<memories, vectors, owed, stale>>,
         FillOK', MergeOK', fill'.pending \subseteq fill.pending,
         \/ merge'.cluster = {}
         \/ merge'.cluster = merge.cluster /\ merge'.user = merge.user
  PROVE  IInv'
<1>1. TablesOK'
  BY TablesStay DEF IInv, TablesOK, HeldOnce, Stored
<1>2. SoundOK'
  BY SoundKept DEF IInv, SoundOK, Stored
<1>3. OwedOK'
  BY OwedStays DEF IInv
<1> QED
  BY <1>1, <1>2, <1>3 DEF IInv

(***************************************************************************)
(* Requests                                                                *)
(***************************************************************************)

(* A new memory: on an id nothing refers to, or stale from the start.        *)
LEMMA RememberStep ==
  ASSUME IInv, NEW u \in Users, NEW t \in Texts, NEW source \in {"auto", "user"},
         NEW embedded \in BOOLEAN, Remember(u, t, source, embedded)
  PROVE  IInv'
<1>0. UNCHANGED <<fill, merge>>
  BY DEF Remember
<1>1. PICK new, row, vec : /\ new = NewId /\ vec = [user |-> u, text |-> t]
                           /\ row = [user |-> u, text |-> t, source |-> source,
                                     recalled |-> FALSE]
  OBVIOUS
<1>2. new \in Ids /\ ~Stored(new)
  BY <1>1, NewIdIsFree, BoundsAssumption DEF Remember, Ids
<1>3. /\ row \in Row /\ row # NoRow /\ row.user = u /\ row.text = t
      /\ vec \in Vector /\ vec # NoRow /\ vec.user = u /\ vec.text = t
  <2>1. row \in Row /\ row.user = u /\ row.text = t
    BY <1>1 DEF Row, Sources
  <2>2. vec \in Vector /\ vec.user = u /\ vec.text = t
    BY <1>1 DEF Vector
  <2> QED
    BY <2>1, <2>2, RowsAssumption
<1>4. /\ memories' \in [Ids -> Row \cup {NoRow}] /\ memories'[new] = row
      /\ \A i \in Ids : i # new => memories'[i] = memories[i]
  BY <1>1, <1>2, <1>3 DEF Remember, IInv, TablesOK, HeldOnce
<1>5. /\ vectors' \in [Ids -> Vector \cup {NoRow}]
      /\ vectors'[new] \in {vec, vectors[new]}
      /\ \A i \in Ids : i # new => vectors'[i] = vectors[i]
  BY <1>1, <1>2, <1>3 DEF Remember, IInv, TablesOK, HeldOnce
<1>6. /\ stale' = IF InUse(new) THEN stale \cup {new} ELSE stale
      /\ owed' \subseteq IF InUse(new) THEN owed ELSE owed \cup Said(u, t)
  BY <1>1 DEF Remember
<1>7. new \notin stale
  BY <1>2 DEF IInv, TablesOK, HeldOnce, Stored
<1>8. \A i \in Ids : Stored(i) =>
         ~(memories[i].user = u /\ memories[i].text = t)
  BY DEF Remember, Ignored, Holding
<1>9. TablesOK'
  <2>1. \A i \in stale' : i \in Ids /\ Stored(i)'
    BY <1>2, <1>3, <1>4, <1>6 DEF IInv, TablesOK, HeldOnce, Stored
  <2>2. ASSUME NEW i \in Ids, NEW j \in Ids, Stored(i)', Stored(j)',
               memories'[i].user = memories'[j].user, memories'[i].text = memories'[j].text
        PROVE  i = j
    BY <1>2, <1>3, <1>4, <1>8, <2>2 DEF IInv, TablesOK, HeldOnce, Stored
  <2>3. HeldOnce'
    BY <2>2 DEF HeldOnce, Stored
  <2> QED
    BY <1>4, <1>5, <2>1, <2>3 DEF TablesOK
<1>10. SoundOK'
  <2> SUFFICES ASSUME NEW i \in Ids, Stored(i)', i \notin stale'
               PROVE  Sound(i)'
    BY DEF SoundOK
  <2>1. CASE i # new
    <3>1. Stored(i) /\ i \notin stale
      BY <1>4, <1>6, <2>1 DEF Stored
    <3> QED
      BY <1>0, <1>4, <1>5, <2>1, <3>1, SoundKept DEF IInv, SoundOK
  <2>2. CASE i = new
    <3>1. ~InUse(new)
      BY <1>6, <2>2
    <3> QED
      BY <1>0, <1>3, <1>4, <1>5, <2>2, <3>1 DEF InUse, Sound, Own
  <2> QED
    BY <2>1, <2>2
<1>11. OwedOK'
  <2> SUFFICES ASSUME NEW x \in owed'
               PROVE  \E i \in Ids : Stored(i)' /\ i \notin stale' /\ x \in Says(i)'
    BY DEF OwedOK
  <2>1. CASE x \in owed
    <3>1. PICK i \in Ids : Stored(i) /\ i \notin stale /\ x \in Says(i)
      BY <2>1 DEF IInv, OwedOK
    <3>2. i # new
      BY <1>2, <3>1
    <3> QED
      BY <1>4, <1>6, <3>1, <3>2 DEF Stored, Says
  <2>2. CASE x \notin owed
    <3>1. ~InUse(new) /\ x \in Said(u, t)
      BY <1>6, <2>2
    <3> QED
      BY <1>2, <1>3, <1>4, <1>6, <1>7, <3>1 DEF Stored, Says
  <2> QED
    BY <2>1, <2>2
<1> QED
  BY <1>0, <1>9, <1>10, <1>11 DEF IInv, FillOK, MergeOK

(* Counting a hit changes neither what a memory says nor whose it is.        *)
LEMMA RecallStep ==
  ASSUME IInv, NEW i \in Ids, Recall(i)
  PROVE  IInv'
<1>0. UNCHANGED <<vectors, fill, merge, owed, stale>>
  BY DEF Recall, history
<1>1. PICK row : row = [memories[i] EXCEPT !.recalled = TRUE]
  OBVIOUS
<1>2. /\ row \in Row /\ row # NoRow
      /\ row.user = memories[i].user /\ row.text = memories[i].text
  <2>1. memories[i] \in Row
    BY StoredFacts DEF Recall, IInv
  <2> QED
    BY <1>1, <2>1, RowsAssumption DEF Row
<1>3. /\ memories' \in [Ids -> Row \cup {NoRow}] /\ memories'[i] = row
      /\ \A j \in Ids : j # i => memories'[j] = memories[j]
  <2>1. memories' = [memories EXCEPT ![i] = row]
    BY <1>1 DEF Recall
  <2> QED
    BY <1>2, <2>1 DEF IInv, TablesOK, HeldOnce, Stored
<1>4. \A j \in Ids : /\ Stored(j)' <=> Stored(j)
                     /\ memories'[j].user = memories[j].user
                     /\ memories'[j].text = memories[j].text
  BY <1>2, <1>3 DEF Recall, Stored
<1>5. TablesOK'
  BY <1>0, <1>3, <1>4 DEF IInv, TablesOK, HeldOnce, Stored
<1>6. SoundOK'
  BY <1>0, <1>4, SoundKept DEF IInv, SoundOK
<1>7. OwedOK'
  BY <1>0, <1>4 DEF IInv, OwedOK, Says
<1> QED
  BY <1>0, <1>5, <1>6, <1>7 DEF IInv, FillOK, MergeOK

(* What a user forgets is owed no more; all else is said by other memories.  *)
(* A crash between the two statements leaves the vector behind, on an id     *)
(* that no memory has.                                                      *)
LEMMA ForgetStep ==
  ASSUME IInv, NEW i \in Ids, Forget(i) \/ ForgetAndDie(i)
  PROVE  IInv'
<1>1. /\ memories' = [memories EXCEPT ![i] = NoRow]
      /\ owed' = owed \ Says(i) /\ stale' = stale \ {i}
  BY DEF Forget, ForgetAndDie, Drop, Says
<1>2. /\ memories' \in [Ids -> Row \cup {NoRow}] /\ memories'[i] = NoRow
      /\ \A j \in Ids : j # i => memories'[j] = memories[j]
  BY <1>1 DEF IInv, TablesOK, HeldOnce, Stored
<1>3. /\ vectors' \in [Ids -> Vector \cup {NoRow}]
      /\ \A j \in Ids : j # i => vectors'[j] = vectors[j]
  BY DEF Forget, ForgetAndDie, IInv, TablesOK, HeldOnce
<1>4. \A j \in Ids : Stored(j)' => j # i /\ Stored(j)
  BY <1>2 DEF Stored
<1>5. \/ fill' = fill /\ merge' = merge
      \/ fill' = FillStart /\ merge' = MergeIdle
  BY DEF Forget, ForgetAndDie, Die
<1>6. FillOK' /\ MergeOK'
  BY <1>5, StartOK DEF IInv, FillOK, MergeOK
<1>7. TablesOK'
  <2>1. \A j \in stale' : j \in Ids /\ Stored(j)'
    BY <1>1, <1>2 DEF IInv, TablesOK, HeldOnce, Stored
  <2>2. HeldOnce'
    BY <1>2, <1>4 DEF IInv, TablesOK, HeldOnce, Stored
  <2> QED
    BY <1>2, <1>3, <2>1, <2>2 DEF TablesOK
<1>8. SoundOK'
  <2> SUFFICES ASSUME NEW j \in Ids, Stored(j)', j \notin stale'
               PROVE  Sound(j)'
    BY DEF SoundOK
  <2>1. j # i /\ Sound(j)
    BY <1>1, <1>4 DEF IInv, SoundOK
  <2> QED
    BY <1>2, <1>3, <1>5, <2>1, SoundKept DEF FillStart, MergeIdle
<1>9. OwedOK'
  <2> SUFFICES ASSUME NEW x \in owed'
               PROVE  \E j \in Ids : Stored(j)' /\ j \notin stale' /\ x \in Says(j)'
    BY DEF OwedOK
  <2>1. PICK j \in Ids : Stored(j) /\ j \notin stale /\ x \in Says(j)
    BY <1>1 DEF IInv, OwedOK
  <2>2. j # i
    BY <1>1, <2>1
  <2> QED
    BY <1>1, <1>2, <2>1, <2>2 DEF Stored, Says
<1> QED
  BY <1>6, <1>7, <1>8, <1>9 DEF IInv

(***************************************************************************)
(* The backfill thread                                                     *)
(***************************************************************************)

(* A pass reads rows as they are.                                           *)
LEMMA FillCollectStep ==
  ASSUME IInv, FillCollect
  PROVE  IInv'
<1>0. UNCHANGED <<memories, vectors, merge, owed, stale>>
  BY DEF FillCollect, history
<1>1. PICK pending : /\ pending = {[id |-> i, user |-> memories[i].user,
                                    text |-> memories[i].text] : i \in Missing}
                     /\ fill' = [fill EXCEPT !.phase = "filling", !.progress = FALSE,
                                   !.pending = pending]
  BY DEF FillCollect
<1>2. \A p \in pending : /\ p \in [id : Ids, user : Users, text : Texts]
                         /\ p.id \in Ids /\ Own(p.id, p)
  BY <1>1, StoredFacts DEF IInv, Missing, Own
<1>3. FillOK' /\ fill'.pending = pending
  BY <1>1, <1>2 DEF FillCollect, IInv, FillOK, FillRecord
<1>4. TablesOK' /\ OwedOK'
  <2>1. TablesOK'
    BY <1>0, TablesStay DEF IInv, TablesOK, HeldOnce, Stored
  <2>2. OwedOK'
    BY <1>0, OwedStays DEF IInv
  <2> QED
    BY <2>1, <2>2
<1>5. SoundOK'
  BY <1>0, <1>2, <1>3 DEF IInv, SoundOK, Sound, Own, Stored
<1> QED
  BY <1>0, <1>3, <1>4, <1>5 DEF IInv, MergeOK

(* A vector that is filed on a sound row's id is the row's.                  *)
LEMMA FillOneStep ==
  ASSUME IInv, FillOne
  PROVE  IInv'
<1>0. UNCHANGED <<memories, merge, owed, stale>>
  BY DEF FillOne, history
<1>1. NextPending \in fill.pending
  <2>1. {p.id : p \in fill.pending} \subseteq Nat /\ {p.id : p \in fill.pending} # {}
    BY DEF FillOne, IInv, FillOK, FillRecord, Ids
  <2>2. PICK n \in {p.id : p \in fill.pending} : \A m \in {p.id : p \in fill.pending} : n <= m
    BY <2>1, LeastOf
  <2>3. \E p \in fill.pending : \A q \in fill.pending : p.id <= q.id
    BY <2>2
  <2> QED
    BY <2>3 DEF NextPending
<1>2. PICK p, vec : p = NextPending /\ vec = [user |-> p.user, text |-> p.text]
  OBVIOUS
<1>3. /\ p \in fill.pending /\ p.id \in Ids /\ vec \in Vector
      /\ vec.user = p.user /\ vec.text = p.text
  BY <1>1, <1>2 DEF IInv, FillOK, FillRecord, Vector
<1>4. /\ vectors' \in [Ids -> Vector \cup {NoRow}] /\ vectors'[p.id] = vec
      /\ \A i \in Ids : i # p.id => vectors'[i] = vectors[i]
  <2>1. vectors' = [vectors EXCEPT ![p.id] = vec]
    BY <1>2 DEF FillOne, FillVector
  <2> QED
    BY <1>3, <2>1 DEF IInv, TablesOK, HeldOnce, Stored
<1>5. FillOK' /\ fill'.pending \subseteq fill.pending
  BY DEF FillOne, IInv, FillOK, FillRecord
<1>6. TablesOK' /\ OwedOK'
  <2>1. TablesOK'
    BY <1>0, <1>4, TablesStay DEF IInv
  <2>2. OwedOK'
    BY <1>0, OwedStays DEF IInv
  <2> QED
    BY <2>1, <2>2
<1>7. SoundOK'
  <2> SUFFICES ASSUME NEW i \in Ids, Stored(i)', i \notin stale'
               PROVE  Sound(i)'
    BY DEF SoundOK
  <2>1. Sound(i)
    BY <1>0 DEF IInv, SoundOK, Stored
  <2>2. CASE i # p.id
    BY <1>0, <1>4, <1>5, <2>1, <2>2, SoundKept
  <2>3. CASE i = p.id
    <3>1. Own(i, p)
      BY <1>3, <2>1, <2>3 DEF Sound
    <3> QED
      BY <1>0, <1>3, <1>4, <1>5, <2>1, <2>3, <3>1 DEF Sound, Own
  <2> QED
    BY <2>2, <2>3
<1> QED
  BY <1>0, <1>5, <1>6, <1>7 DEF IInv, MergeOK

(* The pass fails, ends or is counted.                                      *)
LEMMA FillRestStep ==
  ASSUME IInv, FillFails \/ FillEnd \/ FillCount
  PROVE  IInv'
<1>0. UNCHANGED <<memories, vectors, merge, owed, stale>>
  BY DEF FillFails, FillEnd, FillCount, history
<1>1. MaxRetries \in Nat /\ fill \in FillRecord /\ fill.retries \in 0..MaxRetries + 1
  BY BoundsAssumption DEF IInv, FillOK, FillRecord
<1>2. FillOK' /\ fill'.pending \subseteq fill.pending
  <2>1. CASE FillFails
    BY <1>1, <2>1 DEF FillFails, IInv, FillOK, FillRecord
  <2>2. CASE FillEnd
    <3>1. CASE fill' = FillStart
      BY <3>1, StartOK DEF FillOK, FillStart
    <3>2. CASE fill' = [fill EXCEPT !.phase = "count"]
      BY <1>1, <2>2, <3>2 DEF FillEnd, IInv, FillOK, FillRecord
    <3> QED
      BY <2>2, <3>1, <3>2 DEF FillEnd
  <2>3. CASE FillCount
    <3>1. fill.retries <= MaxRetries
      BY <2>3 DEF FillCount, IInv, FillOK
    <3>2. CASE fill' = [fill EXCEPT !.phase = "stopped"]
      BY <1>1, <3>1, <3>2 DEF FillOK, FillRecord
    <3>3. CASE Missing # {}
      <4>1. PICK phase \in {"gave_up", "pass"} :
              /\ fill' = [fill EXCEPT !.retries = @ + 1, !.phase = phase]
              /\ phase = "pass" => ~(fill.retries >= MaxRetries)
        BY <2>3, <3>3 DEF FillCount
      <4>2. PICK more : more = fill.retries + 1
        OBVIOUS
      <4>3. more \in 0..MaxRetries + 1 /\ (phase = "pass" => more <= MaxRetries)
        BY <1>1, <3>1, <4>1, <4>2
      <4>4. fill' = [fill EXCEPT !.retries = more, !.phase = phase]
        BY <4>1, <4>2
      <4>5. /\ fill' \in FillRecord /\ fill'.pending = fill.pending
            /\ fill'.retries = more /\ fill'.phase = phase
        BY <1>1, <4>1, <4>3, <4>4 DEF FillRecord
      <4> QED
        BY <4>1, <4>3, <4>5 DEF FillOK
    <3> QED
      BY <2>3, <3>2, <3>3 DEF FillCount
  <2> QED
    BY <2>1, <2>2, <2>3
<1>3. MergeOK'
  BY <1>0 DEF IInv, MergeOK
<1> QED
  BY <1>0, <1>2, <1>3, ThreadStep

(***************************************************************************)
(* The consolidation thread                                                *)
(***************************************************************************)

(* Nothing is in a cluster, or the cluster is left as it is.                 *)
LEMMA MergeIdleStep ==
  ASSUME IInv,
         \/ Wake \/ KeepCluster
         \/ \E u \in Users, semantic \in BOOLEAN : BeginUser(u, semantic)
  PROVE  IInv'
<1>0. UNCHANGED <<memories, vectors, fill, owed, stale>>
  BY DEF Wake, KeepCluster, BeginUser, history
<1>1. merge \in MergeRecord
  BY DEF IInv, MergeOK
<1>2. merge'.cluster = {} /\ merge' \in MergeRecord
  <2>1. CASE Wake
    <3>1. PICK todo : /\ todo = {memories[i].user : i \in {j \in Ids : Stored(j)}}
                      /\ merge' = [merge EXCEPT !.todo = todo]
      BY <2>1 DEF Wake
    <3>2. todo \subseteq Users /\ merge.cluster = {}
      BY <2>1, <3>1, StoredFacts, StartOK DEF IInv, Wake
    <3> QED
      BY <1>1, <3>1, <3>2 DEF MergeRecord
  <2>2. CASE KeepCluster
    BY <1>1, <2>2 DEF KeepCluster, MergeRecord
  <2>3. ASSUME NEW u \in Users, NEW semantic \in BOOLEAN, BeginUser(u, semantic)
        PROVE  merge'.cluster = {} /\ merge' \in MergeRecord
    <3>1. PICK seeds \in SUBSET Ids :
             merge' = [merge EXCEPT !.todo = @ \ {u}, !.user = u, !.claimed = {},
                         !.seeds = seeds]
      BY <2>3 DEF BeginUser
    <3>2. merge.cluster = {}
      BY <2>3 DEF BeginUser, IInv, MergeOK
    <3> QED
      BY <1>1, <3>1, <3>2 DEF MergeRecord
  <2> QED
    BY <2>1, <2>2, <2>3
<1>3. MergeOK' /\ FillOK'
  BY <1>0, <1>2 DEF IInv, MergeOK, FillOK
<1> QED
  BY <1>0, <1>2, <1>3, ThreadStep

(* The rows of a cluster are read as they are, and those whose vectors are   *)
(* their own are of the account whose partition was searched.                *)
LEMMA ScanSeedStep ==
  ASSUME IInv, ScanSeed
  PROVE  IInv'
<1>0. UNCHANGED <<memories, vectors, fill, owed, stale>>
  BY DEF ScanSeed, history
<1>1. PICK seed, found, kept, seeds :
        /\ seed = Least(merge.seeds)
        /\ found = IF seed \in merge.claimed THEN {} ELSE Cluster(seed)
        /\ kept = IF Cardinality(found) < 2 THEN {} ELSE found
        /\ seeds = SeedScanned(seed)
        /\ merge' = [merge EXCEPT !.seeds = seeds, !.cluster = kept,
                                  !.claimed = @ \cup {m.id : m \in kept}]
  BY DEF ScanSeed
<1>2. \A m \in found : /\ m \in [id : Ids, text : Texts, owner : Users]
                       /\ Stored(m.id) /\ vectors[m.id] # NoRow
                       /\ vectors[m.id].user = merge.user
                       /\ m.text = memories[m.id].text
  <2>1. CASE found = {}
    BY <2>1
  <2>2. CASE found = Cluster(seed)
    <3> SUFFICES ASSUME NEW m \in found, found # {}
                 PROVE  /\ m \in [id : Ids, text : Texts, owner : Users]
                        /\ Stored(m.id) /\ vectors[m.id] # NoRow
                        /\ vectors[m.id].user = merge.user
                        /\ m.text = memories[m.id].text
      OBVIOUS
    <3>1. PICK i \in Ids : /\ Stored(i) /\ vectors[i] # NoRow
                           /\ vectors[i].user = merge.user
                           /\ m = [id |-> i, text |-> memories[i].text,
                                   owner |-> memories[i].user]
      BY <2>2 DEF Cluster
    <3> QED
      BY <3>1, StoredFacts DEF IInv
  <2> QED
    BY <1>1, <2>1, <2>2
<1>3. kept # {} => kept = found /\ Cardinality(kept) > 1
  <2> SUFFICES ASSUME kept # {}
               PROVE  kept = found /\ Cardinality(kept) > 1
    OBVIOUS
  <2>1. kept = found /\ found # {} /\ ~(Cardinality(found) < 2)
    BY <1>1
  <2>2. IsFiniteSet(found)
    <3>1. PICK S \in SUBSET Ids :
             found = {[id |-> i, text |-> memories[i].text, owner |-> memories[i].user] : i \in S}
      BY <1>1, <2>1 DEF Cluster
    <3>2. IsFiniteSet(Ids)
      BY FS_Interval, BoundsAssumption DEF Ids
    <3>3. IsFiniteSet(S)
      BY <3>2, FS_Subset
    <3> QED
      <4> DEFINE F == [i \in S |-> [id |-> i, text |-> memories[i].text,
                                    owner |-> memories[i].user]]
      <4>1. F \in Surjection(S, found)
        BY <3>1 DEF Surjection
      <4> HIDE DEF F
      <4> QED
        BY <3>3, <4>1, FS_Surjection
  <2>3. Cardinality(found) \in Nat
    BY <2>2, FS_CardinalityType
  <2> QED
    BY <2>1, <2>3
<1>4. /\ merge' \in MergeRecord /\ merge'.cluster = kept /\ merge'.user = merge.user
      /\ merge.user # NoUser
  <2>1. kept \subseteq [id : Ids, text : Texts, owner : Users] /\ seeds \subseteq Ids
        /\ {m.id : m \in kept} \subseteq Ids
    BY <1>1, <1>2, <1>3 DEF SeedScanned, IInv, MergeOK, MergeRecord
  <2>2. PICK claimed \in SUBSET Ids :
           merge' = [merge EXCEPT !.seeds = seeds, !.cluster = kept, !.claimed = claimed]
    <3>1. merge \in MergeRecord
      BY DEF IInv, MergeOK
    <3> QED
      BY <1>1, <2>1, <3>1 DEF MergeRecord
  <2>3. merge \in MergeRecord /\ merge.user # NoUser
    BY DEF ScanSeed, IInv, MergeOK
  <2> QED
    BY <2>1, <2>2, <2>3 DEF MergeRecord
<1>5. FillOK' /\ MergeOK'
  BY <1>0, <1>3, <1>4 DEF IInv, FillOK, MergeOK
<1>6. TablesOK' /\ OwedOK'
  <2>1. TablesOK'
    BY <1>0, TablesStay DEF IInv, TablesOK, HeldOnce, Stored
  <2>2. OwedOK'
    BY <1>0, OwedStays DEF IInv
  <2> QED
    BY <2>1, <2>2
<1>7. SoundOK'
  <2> SUFFICES ASSUME NEW i \in Ids, Stored(i)', i \notin stale'
               PROVE  Sound(i)'
    BY DEF SoundOK
  <2>1. Sound(i)
    BY <1>0 DEF IInv, SoundOK, Stored
  <2>2. ASSUME NEW m \in kept, m.id = i
        PROVE  m.text = memories[i].text /\ memories[i].user = merge.user
    BY <1>2, <1>3, <2>1, <2>2 DEF Sound, Own
  <2> QED
    BY <1>0, <1>4, <2>1, <2>2 DEF Sound, Own
<1> QED
  BY <1>5, <1>6, <1>7 DEF IInv

(* The account's last pass: what only a stale row still says is owed no more. *)
LEMMA EndUserStep ==
  ASSUME IInv, NEW old \in SUBSET Ids, EndUser(old)
  PROVE  IInv'
<1>0. /\ fill' = fill /\ stale' = stale \ old
      /\ owed' = owed \ (Known(merge.user, old) \ Known(merge.user, Ids \ (old \cup stale)))
  BY DEF EndUser
<1>1. /\ memories' \in [Ids -> Row \cup {NoRow}]
      /\ \A i \in Ids : memories'[i] = IF i \in old THEN NoRow ELSE memories[i]
  BY DEF EndUser, IInv, TablesOK, HeldOnce
<1>2. /\ vectors' \in [Ids -> Vector \cup {NoRow}]
      /\ \A i \in Ids : vectors'[i] \in {vectors[i], NoRow}
  BY DEF EndUser, IInv, TablesOK, HeldOnce
<1>3. \A i \in Ids : Stored(i)' <=> Stored(i) /\ i \notin old
  BY <1>1 DEF Stored
<1>4. merge' \in MergeRecord /\ merge'.cluster = {}
  BY StartOK DEF EndUser, IInv, MergeOK, MergeRecord, MergeIdle
<1>5. FillOK' /\ MergeOK'
  BY <1>0, <1>4 DEF IInv, FillOK, MergeOK
<1>6. TablesOK'
  <2>1. \A i \in stale' : i \in Ids /\ Stored(i)'
    BY <1>0, <1>3 DEF IInv, TablesOK, HeldOnce, Stored
  <2>2. HeldOnce'
    BY <1>1, <1>3 DEF IInv, TablesOK, HeldOnce, Stored
  <2> QED
    BY <1>1, <1>2, <2>1, <2>2 DEF TablesOK
<1>7. SoundOK'
  <2> SUFFICES ASSUME NEW i \in Ids, Stored(i)', i \notin stale'
               PROVE  Sound(i)'
    BY DEF SoundOK
  <2>1. i \notin old /\ Sound(i)
    BY <1>0, <1>3 DEF IInv, SoundOK
  <2> QED
    BY <1>0, <1>1, <1>2, <1>4, <2>1, SoundKept
<1>8. OwedOK'
  <2> SUFFICES ASSUME NEW x \in owed'
               PROVE  \E i \in Ids : Stored(i)' /\ i \notin stale' /\ x \in Says(i)'
    BY DEF OwedOK
  <2>1. PICK i \in Ids : Stored(i) /\ i \notin stale /\ x \in Says(i)
    BY <1>0 DEF IInv, OwedOK
  <2>2. PICK j \in Ids : Stored(j) /\ j \notin stale /\ j \notin old /\ x \in Says(j)
    <3>1. CASE i \notin old
      BY <2>1, <3>1
    <3>2. CASE i \in old
      <4>1. memories[i].user = merge.user
        BY <3>2 DEF EndUser, Prunable
      <4>2. x \in Known(merge.user, old)
        BY <2>1, <3>2, <4>1, KnownFacts DEF Says
      <4>3. x \in Known(merge.user, Ids \ (old \cup stale))
        BY <1>0, <4>2
      <4>4. PICK k \in Ids \ (old \cup stale) :
               /\ Stored(k) /\ memories[k].user = merge.user
               /\ x \in Said(merge.user, memories[k].text)
        BY <4>3, KnownFacts
      <4> QED
        BY <4>4 DEF Says
    <3> QED
      BY <3>1, <3>2
  <2> QED
    BY <1>0, <1>1, <1>3, <2>2 DEF Says
<1> QED
  BY <1>5, <1>6, <1>7, <1>8 DEF IInv

(* The merged sentence takes the place of the cluster's memories.  What they *)
(* say it says, of the account the cluster is of.                           *)
LEMMA MergeClusterStep ==
  ASSUME IInv, NEW t \in Texts, NEW embedded \in BOOLEAN, MergeCluster(t, embedded)
  PROVE  IInv'
<1>0. /\ fill' = fill /\ merge.cluster # {}
      /\ UNION {FactsOf[m.text] : m \in merge.cluster} \subseteq FactsOf[t]
      /\ merge' = [merge EXCEPT !.cluster = {}]
  BY DEF MergeCluster
<1>h. PICK held : held = Holding(merge.user, t)
  OBVIOUS
<1>n. PICK new : new = IF held # {} THEN Least(held) ELSE NewId
  OBVIOUS
<1>r. PICK row, gone, vec :
        /\ row = IF held # {} THEN memories[new]
                 ELSE [user |-> merge.user, text |-> t, source |-> "consolidated",
                       recalled |-> FALSE]
        /\ gone = Originals(new) /\ vec = [user |-> merge.user, text |-> t]
  OBVIOUS
<1>1. /\ new <= MaxId
      /\ memories' = [i \in Ids |-> IF i \in gone THEN NoRow
                                    ELSE IF i = new THEN row ELSE memories[i]]
      /\ vectors' = [i \in Ids |-> IF embedded /\ i = new THEN vec
                                   ELSE IF i \in gone THEN NoRow ELSE vectors[i]]
      /\ stale' = (IF held = {} /\ InUse(new) THEN stale \cup {new} ELSE stale) \ gone
      /\ owed' = IF new \in stale' THEN owed \ Said(merge.user, t) ELSE owed
  BY <1>h, <1>n, <1>r DEF MergeCluster
<1>2. merge \in MergeRecord /\ merge.user \in Users
  BY <1>0 DEF IInv, MergeOK, MergeRecord
<1>3. /\ new \in Ids /\ row \in Row /\ row # NoRow
      /\ row.user = merge.user /\ row.text = t
      /\ (held # {} => Stored(new) /\ row = memories[new])
      /\ (held = {} => ~Stored(new))
  <2>1. CASE held # {}
    <3>1. new \in held
      BY <1>h, <1>n, <1>r, <1>1, <2>1, LeastIsOne DEF Holding
    <3>2. new \in Ids /\ Stored(new) /\ memories[new].user = merge.user /\ memories[new].text = t
      BY <1>h, <1>n, <1>r, <1>1, <3>1 DEF Holding
    <3> QED
      BY <1>h, <1>n, <1>r, <1>1, <2>1, <3>2, StoredFacts, RowsAssumption DEF IInv
  <2>2. CASE held = {}
    <3>1. new \in Ids /\ ~Stored(new)
      BY <1>h, <1>n, <1>r, <1>1, <2>2, NewIdIsFree, BoundsAssumption DEF Ids
    <3>2. row \in Row /\ row.user = merge.user /\ row.text = t
      BY <1>h, <1>n, <1>r, <1>1, <1>2, <2>2 DEF Row, Sources
    <3> QED
      BY <2>2, <3>1, <3>2, RowsAssumption
  <2> QED
    BY <2>1, <2>2
<1>4. /\ new \notin gone /\ gone \subseteq Ids
      /\ \A i \in gone : \E m \in merge.cluster : m.id = i
  BY <1>h, <1>n, <1>r, <1>1, <1>2 DEF Originals, MergeRecord
<1>5. /\ memories' \in [Ids -> Row \cup {NoRow}] /\ memories'[new] = row
      /\ \A i \in gone : memories'[i] = NoRow
      /\ \A i \in Ids : i \notin gone /\ i # new => memories'[i] = memories[i]
  BY <1>h, <1>n, <1>r, <1>1, <1>3, <1>4 DEF IInv, TablesOK
<1>6. vec \in Vector /\ vec # NoRow /\ vec.user = merge.user /\ vec.text = t
  BY <1>h, <1>n, <1>r, <1>1, <1>2, RowsAssumption DEF Vector
<1>7. /\ vectors' \in [Ids -> Vector \cup {NoRow}]
      /\ vectors'[new] \in {vec, vectors[new]}
      /\ \A i \in Ids : i \notin gone /\ i # new => vectors'[i] = vectors[i]
  BY <1>h, <1>n, <1>r, <1>1, <1>3, <1>4, <1>6 DEF IInv, TablesOK
<1>8. merge' \in MergeRecord /\ merge'.cluster = {}
  BY <1>0, <1>2 DEF MergeRecord
<1>9. FillOK' /\ MergeOK'
  BY <1>0, <1>8 DEF IInv, FillOK, MergeOK
<1>10. TablesOK'
  <2>1. \A i \in stale' : i \in Ids /\ Stored(i)'
    BY <1>h, <1>n, <1>r, <1>1, <1>3, <1>4, <1>5 DEF IInv, TablesOK, Stored
  <2>2. HeldOnce'
    <3> SUFFICES ASSUME NEW i \in Ids, NEW j \in Ids, Stored(i)', Stored(j)',
                        memories'[i].user = memories'[j].user,
                        memories'[i].text = memories'[j].text
                 PROVE  i = j
      BY DEF HeldOnce, Stored
    <3>1. i \notin gone /\ j \notin gone
      BY <1>5 DEF Stored
    <3>2. held = {} => \A k \in Ids :
            ~(Stored(k) /\ memories[k].user = merge.user /\ memories[k].text = t)
      BY <1>h, <1>n, <1>r, <1>1 DEF Holding
    <3>3. CASE held # {}
      BY <1>3, <1>5, <3>1, <3>3 DEF IInv, TablesOK, HeldOnce, Stored
    <3>4. CASE held = {}
      <4>1. ~(i = new /\ j # new) /\ ~(j = new /\ i # new)
        BY <1>3, <1>5, <3>1, <3>2, <3>4 DEF Stored
      <4> QED
        BY <1>5, <3>1, <4>1 DEF IInv, TablesOK, HeldOnce, Stored
    <3> QED
      BY <3>3, <3>4
  <2> QED
    BY <1>5, <1>7, <2>1, <2>2 DEF TablesOK
<1>11. ASSUME NEW i \in Ids, Stored(i), i \notin stale, i \notin gone
       PROVE  Sound(i)'
  <2>1. Sound(i)
    BY <1>11 DEF IInv, SoundOK
  <2>2. CASE i # new
    BY <1>0, <1>5, <1>7, <1>8, <1>11, <2>1, <2>2, SoundKept
  <2>3. CASE i = new
    <3>1. row = memories[i]
      BY <1>3, <1>11, <2>3
    <3> QED
      BY <1>0, <1>3, <1>5, <1>6, <1>7, <1>8, <2>1, <2>3, <3>1 DEF Sound, Own
  <2> QED
    BY <2>2, <2>3
<1>12. SoundOK'
  <2> SUFFICES ASSUME NEW i \in Ids, Stored(i)', i \notin stale'
               PROVE  Sound(i)'
    BY DEF SoundOK
  <2>1. i \notin gone /\ i \notin stale
    BY <1>h, <1>n, <1>r, <1>1, <1>5 DEF Stored
  <2>2. CASE i # new \/ held # {}
    <3>1. Stored(i)
      BY <1>3, <1>5, <2>1, <2>2 DEF Stored
    <3> QED
      BY <1>11, <2>1, <3>1
  <2>3. CASE i = new /\ held = {}
    <3>1. ~InUse(new)
      BY <1>h, <1>n, <1>r, <1>1, <2>1, <2>3
    <3> QED
      BY <1>0, <1>3, <1>5, <1>6, <1>7, <1>8, <2>3, <3>1 DEF InUse, Sound, Own
  <2> QED
    BY <2>2, <2>3
<1>13. OwedOK'
  <2> SUFFICES ASSUME NEW x \in owed'
               PROVE  \E i \in Ids : Stored(i)' /\ i \notin stale' /\ x \in Says(i)'
    BY DEF OwedOK
  <2>1. PICK i \in Ids : Stored(i) /\ i \notin stale /\ x \in Says(i)
    BY <1>h, <1>n, <1>r, <1>1 DEF IInv, OwedOK
  <2>2. CASE i \notin gone
    <3>1. memories'[i] = memories[i]
      BY <1>3, <1>5, <2>1, <2>2
    <3>2. i \notin stale'
      BY <1>h, <1>n, <1>r, <1>1, <1>3, <2>1
    <3> QED
      BY <2>1, <3>1, <3>2 DEF Stored, Says
  <2>3. CASE i \in gone
    <3>1. PICK m \in merge.cluster : m.id = i
      BY <1>4, <2>3
    <3>2. m.text = memories[i].text /\ memories[i].user = merge.user
      BY <2>1, <3>1 DEF IInv, SoundOK, Sound
    <3>3. FactsOf[m.text] \subseteq FactsOf[t]
      BY <1>0
    <3>4. x \in Said(merge.user, t)
      BY <2>1, <3>2, <3>3 DEF Says, Said
    <3>5. new \notin stale'
      BY <1>h, <1>n, <1>r, <1>1, <3>4
    <3>6. Stored(new)' /\ x \in Says(new)'
      BY <1>3, <1>5, <3>4 DEF Stored, Says
    <3> QED
      BY <1>3, <3>5, <3>6
  <2> QED
    BY <2>2, <2>3
<1> QED
  BY <1>9, <1>10, <1>12, <1>13 DEF IInv

(***************************************************************************)
(* Crashes                                                                 *)
(***************************************************************************)

(* A restart drops vectors and forgets what the threads had read.            *)
LEMMA RestartStep ==
  ASSUME IInv, Restart
  PROVE  IInv'
<1>0. /\ UNCHANGED <<memories, owed, stale>>
      /\ fill' = FillStart /\ merge' = MergeIdle
  BY DEF Restart, Die
<1>1. /\ vectors' \in [Ids -> Vector \cup {NoRow}]
      /\ \A i \in Ids : vectors'[i] \in {vectors[i], NoRow}
  BY DEF Restart, IInv, TablesOK
<1>2. TablesOK' /\ OwedOK'
  <2>1. TablesOK'
    BY <1>0, <1>1, TablesStay DEF IInv
  <2>2. OwedOK'
    BY <1>0, OwedStays DEF IInv
  <2> QED
    BY <2>1, <2>2
<1>3. FillOK' /\ MergeOK'
  BY <1>0, StartOK DEF FillOK, MergeOK
<1>4. SoundOK'
  BY <1>0, <1>1, StartOK, SoundKept DEF IInv, SoundOK, Stored
<1> QED
  BY <1>2, <1>3, <1>4 DEF IInv

(***************************************************************************)
(* The invariant, and what follows from it                                 *)
(***************************************************************************)
LEMMA InvariantInit == Init => IInv
<1> SUFFICES ASSUME Init PROVE IInv
  OBVIOUS
<1>1. TablesOK /\ SoundOK /\ OwedOK
  BY DEF Init, TablesOK, HeldOnce, SoundOK, OwedOK, Stored
<1>2. FillOK /\ MergeOK
  BY StartOK DEF Init, FillOK, MergeOK
<1> QED
  BY <1>1, <1>2 DEF IInv

LEMMA InvariantNext == IInv /\ [Next]_vars => IInv'
<1> SUFFICES ASSUME IInv, [Next]_vars PROVE IInv'
  OBVIOUS
<1>1. CASE \E u \in Users, t \in Texts, source \in {"auto", "user"}, embedded \in BOOLEAN :
             Remember(u, t, source, embedded)
  BY <1>1, RememberStep
<1>2. CASE \E i \in Ids : Recall(i)
  BY <1>2, RecallStep
<1>3. CASE \E i \in Ids : Forget(i) \/ ForgetAndDie(i)
  BY <1>3, ForgetStep
<1>4. CASE FillStep
  BY <1>4, FillCollectStep, FillOneStep, FillRestStep DEF FillStep
<1>5. CASE Wake \/ KeepCluster
           \/ \E u \in Users, semantic \in BOOLEAN : BeginUser(u, semantic)
  BY <1>5, MergeIdleStep
<1>6. CASE ScanSeed
  BY <1>6, ScanSeedStep
<1>7. CASE \E t \in Texts, embedded \in BOOLEAN : MergeCluster(t, embedded)
  BY <1>7, MergeClusterStep
<1>8. CASE \E old \in SUBSET Ids : EndUser(old)
  BY <1>8, EndUserStep
<1>9. CASE Restart
  BY <1>9, RestartStep
<1>10. CASE UNCHANGED vars
  <2>1. UNCHANGED <<memories, vectors, fill, merge, owed, stale>>
    BY <1>10 DEF vars, history
  <2>2. FillOK' /\ MergeOK'
    BY <2>1 DEF IInv, FillOK, MergeOK
  <2> QED
    BY <2>1, <2>2, ThreadStep
<1> QED
  BY <1>1, <1>2, <1>3, <1>4, <1>5, <1>6, <1>7, <1>8, <1>9, <1>10 DEF Next, MergeStep

LEMMA Invariant == Spec => []IInv
  BY InvariantInit, InvariantNext, PTL DEF Spec

(* The tables and threads hold what memory.cpp and main.cpp put there, and   *)
(* the unique index keeps an account from holding a text twice.              *)
THEOREM TypeCorrect == Spec => []TypeOK
<1>1. IInv => TypeOK
  <2> SUFFICES ASSUME IInv PROVE TypeOK
    OBVIOUS
  <2>1. ASSUME NEW i \in Ids, Stored(i)
        PROVE  Holding(memories[i].user, memories[i].text) = {i}
    BY <2>1 DEF IInv, TablesOK, HeldOnce, Holding
  <2> QED
    BY <2>1 DEF TypeOK, IInv, TablesOK, FillOK, MergeOK, FillRecord, MergeRecord
<1> QED
  BY <1>1, Invariant, PTL

(* A memory's embedding is of its own text and in its own account's          *)
(* partition, however backfill, consolidation, requests and crashes meet,    *)
(* unless its id was given out while something of the old memory was left.   *)
THEOREM VectorsHold == Spec => []VectorIsOwn
<1>1. IInv => VectorIsOwn
  <2> SUFFICES ASSUME IInv, NEW i \in Ids \ stale, Stored(i), vectors[i] # NoRow
               PROVE  vectors[i] = [user |-> memories[i].user, text |-> memories[i].text]
    BY DEF VectorIsOwn
  <2>1. vectors[i] \in Vector /\ Own(i, vectors[i])
    BY DEF IInv, SoundOK, Sound, TablesOK
  <2> QED
    BY <2>1 DEF Own, Vector
<1> QED
  BY <1>1, Invariant, PTL

(* Each merge is one transaction: what an account asked to remember, and did *)
(* not forget or lose to a prune, one of its memories says.                  *)
THEOREM FactsHold == Spec => []FactsKept
<1>1. IInv => FactsKept
  <2> SUFFICES ASSUME IInv, NEW x \in owed
               PROVE  \E u \in Users : x \in Known(u, Ids)
    BY DEF FactsKept
  <2>1. PICK i \in Ids : Stored(i) /\ x \in Says(i)
    BY DEF IInv, OwedOK
  <2>2. x \in Known(memories[i].user, Ids)
    BY <2>1, KnownFacts DEF Says
  <2> QED
    BY <2>1, <2>2, StoredFacts DEF IInv
<1> QED
  BY <1>1, Invariant, PTL
=============================================================================
