-------------------------- MODULE ConversationProofs --------------------------
(***************************************************************************)
(* Theorems of Conversation, for every set of accounts, sessions, agents   *)
(* and slots, every table of permissions, every window and every bound:    *)
(* no run is shown another conversation, permissions hold at any depth, a  *)
(* stop stays a stop, and compression loses only what no window showed.    *)
(***************************************************************************)
EXTENDS Conversation, FiniteSetTheorems, WellFoundedInduction, TLAPS

(***************************************************************************)
(* The inductive invariant                                                 *)
(***************************************************************************)
FrameRecord == [agent : AgentNames, recent : SUBSET Rows, summary : SUBSET Contents]
FoldRecord == [recent : SUBSET Rows, summary : SUBSET Contents, keep : Nat,
               manual : BOOLEAN, text : SUBSET Contents]
SlotRecord == [at : Stages, key : Keys \cup {None}, run : Runs \cup {0},
               frames : Seq(FrameRecord), fold : FoldRecord, cancelled : BOOLEAN,
               relayed : BOOLEAN, calls : Nat, ends : Outcomes, fetched : SUBSET Runs]
Result == [key : Keys, run : Runs]

(* Turns and rows that were said in one conversation.                        *)
SaidIn(key, cs) == \A c \in cs : owner[c[1]] = key
OwnRows(key, rows) == \A row \in rows : owner[row.run] = key

(* The tables hold rows of runs that were started, under their own keys; and *)
(* runs are numbered as they start.                                         *)
TablesTyped ==
  /\ turns \subseteq Rows /\ IsFiniteSet(turns)
  /\ summaries \in [Keys -> SUBSET Contents]
  /\ results \in [1..MaxResults -> {None} \cup Result]
  /\ agents \subseteq AgentNames /\ cleaning \subseteq Keys /\ does \in Workloads
  /\ owner \in [Runs -> Keys \cup {None}]
  /\ appended \subseteq Contents
  /\ \E n \in 0..MaxRuns : \A r \in Runs : owner[r] # None <=> r <= n
TablesWalled ==
  /\ \A row \in turns : owner[row.run] = row.key
  /\ \A key \in Keys : SaidIn(key, summaries[key])
  /\ \A i \in 1..MaxResults : results[i] # None => owner[results[i].run] = results[i].key
  /\ \A c \in appended : owner[c[1]] # None

(* One slot: what it holds is of its own conversation, its agents were       *)
(* granted, and a stop that was relayed is still one.                        *)
SlotTyped(r) ==
  /\ r \in SlotRecord
  /\ r.at # "idle" => /\ r.key \in Keys /\ r.run \in Runs
                      /\ owner[r.run] = r.key /\ Len(r.frames) > 0
  /\ Len(r.frames) <= MaxDelegationDepth + 1
  /\ IsFiniteSet(r.fold.recent)
  /\ \A i \in DOMAIN r.frames : IsFiniteSet(r.frames[i].recent)
SlotWalled(r) ==
  r.at # "idle" =>
    /\ \A i \in DOMAIN r.frames : /\ OwnRows(r.key, r.frames[i].recent)
                                  /\ SaidIn(r.key, r.frames[i].summary)
    /\ OwnRows(r.key, r.fold.recent)
    /\ SaidIn(r.key, r.fold.summary) /\ SaidIn(r.key, r.fold.text)
    /\ \A run \in r.fetched : owner[run] = r.key
SlotGranted(r) ==
  r.at # "idle" => \A i \in DOMAIN r.frames : r.frames[i].agent \in MayUse[r.key[1]]
SlotStopped(r) ==
  r.relayed => r.cancelled /\ (r.at = "reply" => r.ends # "answer")

(* The rows of a conversation are those a run has loaded, or are older and   *)
(* were left out of its window.                                             *)
Loaded(key, recent) ==
  \A row \in RowsOf(key) :
    \/ row \in recent
    \/ Content(row) \in unseen /\ \A r \in recent : row.id < r.id

(* The fold of a conversation held by one run at a time: what it read is     *)
(* still all there is, until its summary is written and covers the rest.     *)
SlotFolds(r) ==
  r.at # "idle" /\ r.key \notin crowded =>
    /\ r.at \in {"recent", "budget"} => summaries[r.key] \subseteq r.frames[1].summary
    /\ r.at = "budget" => Loaded(r.key, r.frames[1].recent)
    /\ r.at \in {"manual", "fold", "write"} => summaries[r.key] \subseteq r.fold.summary
    /\ r.at \in {"fold", "write", "prune"} => Loaded(r.key, r.fold.recent)
    /\ r.at = "write" => r.fold.summary \cup Folded(r.fold) \subseteq r.fold.text
    /\ r.at = "prune" => RowsOf(r.key) = {} \/ Folded(r.fold) \subseteq summaries[r.key]

SlotOK(r) == SlotTyped(r) /\ SlotWalled(r) /\ SlotGranted(r) /\ SlotStopped(r) /\ SlotFolds(r)
SlotsOK == /\ slot \in [Slots -> SlotRecord]
           /\ \A s \in Slots : SlotOK(slot[s])

(* Two runs at a time are seen to be two.                                   *)
AloneOK ==
  \A s, t \in Slots :
    s # t /\ slot[s].at # "idle" /\ slot[t].at # "idle" /\ slot[s].key = slot[t].key
      => slot[s].key \in crowded

KeptOK ==
  \A c \in appended \ (erased \cup unseen) :
    owner[c[1]] \notin crowded =>
      c \in summaries[owner[c[1]]] \/ \E row \in turns : row.key = owner[c[1]] /\ Content(row) = c

IInv == TablesTyped /\ TablesWalled /\ SlotsOK /\ AloneOK /\ KeptOK

(***************************************************************************)
(* Facts about rows and numbers                                            *)
(***************************************************************************)
(* A non-empty set of natural numbers has a least element.                   *)
LEMMA LeastOf ==
  ASSUME NEW S, S \subseteq Nat, S # {}
  PROVE  \E n \in S : \A m \in S : n <= m
<1>1. IsWellFoundedOn(OpToRel(<, Nat), Nat)
  BY NatLessThanWellFounded, Zenon
<1>2. PICK n \in S : \A m \in S : ~(<<m, n>> \in OpToRel(<, Nat))
  BY <1>1, WFMin, Zenon
<1>3. \A m \in S : ~(m < n)
  BY <1>2, Zenon DEF OpToRel
<1> QED
  BY <1>3

(* The rows after a row are finitely many, and fewer than those after an     *)
(* earlier one.                                                             *)
Later(rows, row) == {later \in rows : later.id > row.id}
LEMMA LaterFacts ==
  ASSUME NEW rows \in SUBSET Rows, IsFiniteSet(rows), NEW row \in rows
  PROVE  /\ Later(rows, row) \subseteq rows /\ IsFiniteSet(Later(rows, row))
         /\ Cardinality(Later(rows, row)) \in Nat
         /\ Cardinality(Later(rows, row)) < Cardinality(rows)
         /\ Cardinality(rows) \in Nat
<1>1. Later(rows, row) \subseteq rows /\ row \notin Later(rows, row)
  BY DEF Later, Rows
<1>2. IsFiniteSet(Later(rows, row)) /\ IsFiniteSet(rows \ {row})
  BY <1>1, FS_Subset
<1>3. Cardinality(rows \ {row}) = Cardinality(rows) - 1
  BY FS_RemoveElement
<1>4. Cardinality(Later(rows, row)) <= Cardinality(rows \ {row})
  BY <1>1, <1>2, FS_Subset
<1>5. /\ Cardinality(rows) \in Nat /\ Cardinality(rows \ {row}) \in Nat
      /\ Cardinality(Later(rows, row)) \in Nat
  BY <1>2, FS_CardinalityType
<1> QED
  BY <1>1, <1>2, <1>3, <1>4, <1>5

(* LIMIT: what is left out is older than all that comes back.                *)
LEMMA NewestFacts ==
  ASSUME NEW rows \in SUBSET Rows, IsFiniteSet(rows), NEW n \in Nat
  PROVE  /\ Newest(rows, n) \subseteq rows /\ IsFiniteSet(Newest(rows, n))
         /\ \A row \in rows \ Newest(rows, n) : \A r \in Newest(rows, n) : row.id < r.id
         /\ Cardinality(rows) <= n => Newest(rows, n) = rows
<1>1. Newest(rows, n) = {row \in rows : Cardinality(Later(rows, row)) < n}
  BY DEF Newest, Later
<1>2. Newest(rows, n) \subseteq rows /\ IsFiniteSet(Newest(rows, n))
  BY <1>1, FS_Subset
<1>3. ASSUME NEW row \in rows \ Newest(rows, n), NEW r \in Newest(rows, n), ~(row.id < r.id)
      PROVE  FALSE
  <2>1. row.id \in Nat /\ r.id \in Nat /\ r \in rows
    BY <1>1 DEF Rows
  <2>2. Later(rows, row) \subseteq Later(rows, r)
    BY <1>3, <2>1 DEF Later, Rows
  <2>3. IsFiniteSet(Later(rows, r))
    BY <2>1, LaterFacts
  <2>4. Cardinality(Later(rows, row)) <= Cardinality(Later(rows, r))
    BY <2>2, <2>3, FS_Subset
  <2>5. Cardinality(Later(rows, row)) \in Nat /\ Cardinality(Later(rows, r)) \in Nat
    BY <2>1, LaterFacts
  <2> QED
    BY <1>1, <2>4, <2>5
<1>4. ASSUME Cardinality(rows) <= n, NEW row \in rows
      PROVE  row \in Newest(rows, n)
  BY <1>1, <1>4, LaterFacts
<1> QED
  BY <1>2, <1>3, <1>4

(* Pruning by count takes no more than the fold covered, as long as nothing  *)
(* newer has come.                                                          *)
LEMMA NewestOfFewer ==
  ASSUME NEW rows \in SUBSET Rows, NEW recent \in SUBSET Rows, NEW n \in Nat,
         IsFiniteSet(recent), IsFiniteSet(rows), NEW row \in rows, row \in recent,
         \A q \in rows : q \in recent \/ q.id < row.id,
         row \notin Newest(rows, n)
  PROVE  row \notin Newest(recent, n)
<1>1. Later(rows, row) \subseteq Later(recent, row)
  BY DEF Later, Rows
<1>2. IsFiniteSet(Later(recent, row)) /\ Cardinality(Later(recent, row)) \in Nat
  BY LaterFacts
<1>3. Cardinality(Later(rows, row)) <= Cardinality(Later(recent, row))
  BY <1>1, <1>2, FS_Subset
<1>4. Cardinality(Later(rows, row)) \in Nat /\ ~(Cardinality(Later(rows, row)) < n)
  BY LaterFacts DEF Newest, Later
<1>5. ~(Cardinality(Later(recent, row)) < n)
  BY <1>2, <1>3, <1>4
<1> QED
  BY <1>5 DEF Newest, Later

(* One past the largest id.                                                 *)
LEMMA NewTurnIdIsId ==
  ASSUME turns \subseteq Rows, IsFiniteSet(turns)
  PROVE  NewTurnId \in Nat \ {0}
<1>1. TurnIds \subseteq Nat
  BY DEF TurnIds, Rows
<1>2. \E i \in TurnIds : \A j \in TurnIds : j <= i
  <2>1. CASE turns = {}
    BY <2>1 DEF TurnIds
  <2>2. CASE turns # {}
    <3> DEFINE Counts == {Cardinality(Later(turns, row)) : row \in turns}
    <3>1. Counts \subseteq Nat /\ Counts # {}
      BY <2>2, LaterFacts
    <3>2. PICK n \in Counts : \A m \in Counts : n <= m
      <4> HIDE DEF Counts
      <4> QED
        BY <3>1, LeastOf
    <3>3. PICK row \in turns : n = Cardinality(Later(turns, row))
      BY <3>2
    <3>4. ASSUME NEW q \in turns, q.id > row.id
          PROVE  FALSE
      <4>1. Later(turns, q) \subseteq Later(turns, row) \ {q} /\ q \in Later(turns, row)
        BY <3>4 DEF Later, Rows
      <4>2. IsFiniteSet(Later(turns, row)) /\ Cardinality(Later(turns, row)) \in Nat
        BY LaterFacts
      <4>3. /\ Cardinality(Later(turns, row) \ {q}) = Cardinality(Later(turns, row)) - 1
            /\ IsFiniteSet(Later(turns, row) \ {q})
        BY <4>1, <4>2, FS_RemoveElement
      <4>4. Cardinality(Later(turns, q)) <= Cardinality(Later(turns, row) \ {q})
        BY <4>1, <4>3, FS_Subset
      <4>5. Cardinality(Later(turns, q)) \in Nat
        BY LaterFacts
      <4>6. n <= Cardinality(Later(turns, q))
        BY <3>2
      <4> QED
        BY <3>3, <4>2, <4>3, <4>4, <4>5, <4>6
    <3>5. row.id \in TurnIds /\ \A j \in TurnIds : j <= row.id
      BY <3>4 DEF TurnIds, Rows
    <3> QED
      BY <3>5
  <2> QED
    BY <2>1, <2>2
<1> DEFINE Greatest == CHOOSE i \in TurnIds : \A j \in TurnIds : j <= i
<1>3. Greatest \in TurnIds
  BY <1>2
<1>4. NewTurnId = 1 + Greatest
  BY DEF NewTurnId
<1>5. PICK n \in Nat : NewTurnId = 1 + n
  BY <1>1, <1>3, <1>4
<1> QED
  BY <1>5

(***************************************************************************)
(* What a slot knows while others work                                     *)
(***************************************************************************)

(* A run's owner is the owner for good.                                     *)
OwnersKept == \A run \in Runs : owner[run] # None => owner'[run] = owner[run]

LEMMA SaidKept ==
  ASSUME NEW key \in Keys, NEW cs \in SUBSET Contents, SaidIn(key, cs), OwnersKept
  PROVE  SaidIn(key, cs)'
<1>1. \A c \in cs : c[1] \in Runs
  BY DEF Contents
<1> QED
  BY <1>1, NoneAssumption DEF SaidIn, OwnersKept

LEMMA RowsKept ==
  ASSUME NEW key \in Keys, NEW rows \in SUBSET Rows, OwnRows(key, rows), OwnersKept
  PROVE  OwnRows(key, rows)'
<1>1. \A row \in rows : row.run \in Runs
  BY DEF Rows
<1> QED
  BY <1>1, NoneAssumption DEF OwnRows, OwnersKept

(* Others may take rows away and may be seen to be there; if they are not,   *)
(* the summary stays, or goes with all the rows.                            *)
Undisturbed(key) ==
  key \notin crowded' =>
    /\ \A row \in turns' : row.key = key => row \in turns
    /\ summaries'[key] \subseteq summaries[key]
    /\ (\A row \in turns' : row.key # key) \/ summaries'[key] = summaries[key]

LEMMA SlotStays ==
  ASSUME NEW r, SlotOK(r), OwnersKept
  PROVE  SlotTyped(r)' /\ SlotWalled(r)' /\ SlotGranted(r)' /\ SlotStopped(r)'
<1>r. r \in SlotRecord
  BY DEF SlotOK, SlotTyped
<1>1. SlotTyped(r)'
  BY NoneAssumption DEF SlotOK, SlotTyped, OwnersKept
<1>2. SlotWalled(r)'
  <2> SUFFICES ASSUME r.at # "idle"
               PROVE  SlotWalled(r)'
    BY DEF SlotWalled
  <2>1. r.key \in Keys
    BY DEF SlotOK, SlotTyped
  <2>2. ASSUME NEW i \in DOMAIN r.frames
        PROVE  OwnRows(r.key, r.frames[i].recent)' /\ SaidIn(r.key, r.frames[i].summary)'
    <3>1. r.frames[i] \in FrameRecord
      BY <1>r DEF SlotRecord
    <3>2. PICK recent \in SUBSET Rows, summary \in SUBSET Contents :
             recent = r.frames[i].recent /\ summary = r.frames[i].summary
      BY <3>1 DEF FrameRecord
    <3>3. OwnRows(r.key, recent) /\ SaidIn(r.key, summary)
      BY <3>2 DEF SlotOK, SlotWalled
    <3>4. OwnRows(r.key, recent)' /\ SaidIn(r.key, summary)'
      BY <2>1, <3>3, RowsKept, SaidKept
    <3> QED
      BY <3>2, <3>4 DEF OwnRows, SaidIn
  <2>3. OwnRows(r.key, r.fold.recent)' /\ SaidIn(r.key, r.fold.summary)'
        /\ SaidIn(r.key, r.fold.text)'
    <3>1. PICK recent \in SUBSET Rows, summary \in SUBSET Contents, text \in SUBSET Contents :
             recent = r.fold.recent /\ summary = r.fold.summary /\ text = r.fold.text
      BY <1>r DEF SlotRecord, FoldRecord
    <3>2. OwnRows(r.key, recent) /\ SaidIn(r.key, summary) /\ SaidIn(r.key, text)
      BY <3>1 DEF SlotOK, SlotWalled
    <3>3. OwnRows(r.key, recent)' /\ SaidIn(r.key, summary)' /\ SaidIn(r.key, text)'
      BY <2>1, <3>2, RowsKept, SaidKept
    <3> QED
      BY <3>1, <3>3 DEF OwnRows, SaidIn
  <2>4. \A run \in r.fetched : owner'[run] = r.key
    BY <1>r, <2>1, NoneAssumption DEF SlotOK, SlotWalled, SlotRecord, OwnersKept
  <2> QED
    BY <2>2, <2>3, <2>4 DEF SlotWalled
<1>3. SlotGranted(r)' /\ SlotStopped(r)'
  BY DEF SlotOK, SlotGranted, SlotStopped
<1> QED
  BY <1>1, <1>2, <1>3

LEMMA SlotKept ==
  ASSUME NEW r, SlotOK(r), OwnersKept, crowded \subseteq crowded', unseen \subseteq unseen',
         r.at # "idle" => Undisturbed(r.key)
  PROVE  SlotOK(r)'
<1>1. SlotTyped(r)' /\ SlotWalled(r)' /\ SlotGranted(r)' /\ SlotStopped(r)'
  BY SlotStays
<1>2. SlotFolds(r)'
  <2> SUFFICES ASSUME r.at # "idle", r.key \notin crowded'
               PROVE  SlotFolds(r)'
    BY DEF SlotFolds
  <2>1. r.key \notin crowded /\ Undisturbed(r.key)
    OBVIOUS
  <2>2. \A row \in turns' : row.key = r.key => row \in turns
    BY <2>1 DEF Undisturbed
  <2>3. ASSUME NEW recent, Loaded(r.key, recent)
        PROVE  Loaded(r.key, recent)'
    BY <2>2, <2>3 DEF Loaded, RowsOf
  <2>4. RowsOf(r.key)' = {} \/ summaries'[r.key] = summaries[r.key]
    BY <2>1 DEF Undisturbed, RowsOf
  <2>5. RowsOf(r.key) = {} => RowsOf(r.key)' = {}
    BY <2>2 DEF RowsOf
  <2>6. summaries'[r.key] \subseteq summaries[r.key]
    BY <2>1 DEF Undisturbed
  <2>7. SlotFolds(r)
    BY DEF SlotOK
  <2>8. r.at = "budget" => Loaded(r.key, r.frames[1].recent)'
    BY <2>1, <2>3, <2>7 DEF SlotFolds
  <2>9. r.at \in {"fold", "write", "prune"} => Loaded(r.key, r.fold.recent)'
    BY <2>1, <2>3, <2>7 DEF SlotFolds
  <2> QED
    BY <2>1, <2>4, <2>5, <2>6, <2>7, <2>8, <2>9 DEF SlotFolds
<1> QED
  BY <1>1, <1>2 DEF SlotOK

(***************************************************************************)
(* One slot moves                                                          *)
(***************************************************************************)
LEMMA SlotFacts ==
  ASSUME IInv, NEW s \in Slots
  PROVE  slot[s] \in SlotRecord /\ SlotOK(slot[s])
BY DEF IInv, SlotsOK

LEMMA SlotIs ==
  ASSUME NEW t, NEW r, slot'[t] = r, SlotOK(r)'
  PROVE  SlotOK(slot[t])'
BY DEF SlotOK, SlotTyped, SlotWalled, SlotGranted, SlotStopped, SlotFolds, SaidIn, OwnRows,
   Loaded, RowsOf, Folded, Said, Newest

LEMMA SlotsMove ==
  ASSUME IInv, NEW s \in Slots, NEW r \in SlotRecord, SlotOK(r)',
         slot' = [slot EXCEPT ![s] = r],
         OwnersKept, crowded \subseteq crowded', unseen \subseteq unseen',
         \A t \in Slots \ {s} : slot[t].at # "idle" => Undisturbed(slot[t].key)
  PROVE  SlotsOK'
<1>1. slot' \in [Slots -> SlotRecord] /\ slot'[s] = r
  BY DEF IInv, SlotsOK
<1>2. ASSUME NEW t \in Slots
      PROVE  SlotOK(slot[t])'
  <2>1. CASE t = s
    BY <1>1, <2>1, SlotIs
  <2>2. CASE t # s
    <3>1. PICK q : q = slot[t]
      OBVIOUS
    <3>2. slot'[t] = q /\ SlotOK(q)
      BY <2>2, <3>1, SlotFacts DEF IInv, SlotsOK
    <3>3. q.at # "idle" => Undisturbed(q.key)
      <4>1. t \in Slots \ {s}
        BY <2>2
      <4> QED
        BY <3>1, <4>1
    <3>4. SlotOK(q)'
      BY <3>2, <3>3, SlotKept
    <3> QED
      BY <3>2, <3>4, SlotIs
  <2> QED
    BY <2>1, <2>2
<1> QED
  BY <1>1, <1>2 DEF SlotsOK

LEMMA AloneKept ==
  ASSUME AloneOK, crowded \subseteq crowded',
         \A t \in Slots : slot'[t].at # "idle" =>
           slot[t].at # "idle" /\ slot'[t].key = slot[t].key
  PROVE  AloneOK'
BY DEF AloneOK

(* What a run does to its own conversation disturbs nobody who is not seen.  *)
LEMMA OthersUndisturbed ==
  ASSUME IInv, NEW s \in Slots, slot[s].at # "idle", crowded \subseteq crowded',
         NEW t \in Slots \ {s}, slot[t].at # "idle",
         \A row \in turns' : row.key # slot[s].key => row \in turns,
         \A key \in Keys \ {slot[s].key} : summaries'[key] = summaries[key]
  PROVE  Undisturbed(slot[t].key)
<1>1. slot[t].key \in Keys
  BY SlotFacts DEF SlotOK, SlotTyped
<1>2. CASE slot[t].key = slot[s].key
  BY <1>2 DEF IInv, AloneOK, Undisturbed
<1>3. CASE slot[t].key # slot[s].key
  BY <1>1, <1>3 DEF Undisturbed
<1> QED
  BY <1>2, <1>3

(* The tables stay: so does all that is said of them.                        *)
LEMMA TablesStay ==
  ASSUME TablesTyped, TablesWalled, KeptOK,
         UNCHANGED <<turns, summaries, results, does, owner, appended, erased, crowded>>,
         agents' \subseteq AgentNames, cleaning' \subseteq Keys, unseen \subseteq unseen'
  PROVE  TablesTyped' /\ TablesWalled' /\ KeptOK'
<1>1. TablesTyped'
  BY DEF TablesTyped
<1>2. TablesWalled'
  BY DEF TablesWalled, SaidIn
<1>3. KeptOK'
  BY DEF KeptOK
<1> QED
  BY <1>1, <1>2, <1>3

LEMMA LocalStep ==
  ASSUME IInv, NEW s \in Slots, NEW r, SlotOK(r), slot' = [slot EXCEPT ![s] = r],
         UNCHANGED <<tables, agents, cleaning, does, owner, appended, erased, crowded, unseen>>,
         r.at # "idle" => slot[s].at # "idle" /\ r.key = slot[s].key
  PROVE  IInv'
<1>0. UNCHANGED <<turns, summaries, results>>
  BY DEF tables
<1>1. TablesTyped' /\ TablesWalled' /\ KeptOK'
  BY <1>0, TablesStay DEF IInv, TablesTyped
<1>2. r \in SlotRecord
  BY DEF SlotOK, SlotTyped
<1>3. OwnersKept
  BY DEF OwnersKept
<1>4. \A key : Undisturbed(key)
  BY <1>0 DEF Undisturbed
<1>5. SlotOK(r)'
  BY <1>3, <1>4, SlotKept
<1>6. SlotsOK'
  BY <1>2, <1>3, <1>4, <1>5, SlotsMove
<1>7. AloneOK'
  <2>1. \A t \in Slots : slot'[t].at # "idle" =>
           slot[t].at # "idle" /\ slot'[t].key = slot[t].key
    BY DEF IInv, SlotsOK
  <2> QED
    BY <2>1, AloneKept DEF IInv
<1> QED
  BY <1>1, <1>6, <1>7 DEF IInv

(***************************************************************************)
(* A run starts, and folds what it loaded                                  *)
(***************************************************************************)

(* Slots that are put together from what is known of others.                 *)
LEMMA FramesFacts ==
  ASSUME NEW r \in SlotRecord, SlotOK(r), r.at # "idle"
  PROVE  /\ r.frames[1] \in FrameRecord /\ 1 \in DOMAIN r.frames
         /\ OwnRows(r.key, r.frames[1].recent) /\ SaidIn(r.key, r.frames[1].summary)
         /\ r.frames[1].agent \in MayUse[r.key[1]] /\ IsFiniteSet(r.frames[1].recent)
<1>1. r.frames \in Seq(FrameRecord) /\ Len(r.frames) > 0
  BY DEF SlotOK, SlotTyped, SlotRecord
<1>2. 1 \in DOMAIN r.frames /\ r.frames[1] \in FrameRecord
  BY <1>1
<1> QED
  BY <1>2 DEF SlotOK, SlotTyped, SlotWalled, SlotGranted

(* The slot of the same run, but for its frames and its fold.                *)
SameRun(q, r) ==
  /\ r \in SlotRecord /\ r.key = q.key /\ r.run = q.run /\ r.fetched = q.fetched
  /\ r.relayed = q.relayed /\ r.cancelled = q.cancelled
  /\ q.at # "idle" /\ r.at \notin {"idle", "reply"}

(* A slot whose first frame is another, of the same conversation.            *)
LEMMA FirstFrame ==
  ASSUME NEW q \in SlotRecord, SlotOK(q), NEW r, SameRun(q, r), NEW f \in FrameRecord,
         r.frames = [q.frames EXCEPT ![1] = f], r.fold = q.fold,
         OwnRows(q.key, f.recent), SaidIn(q.key, f.summary), f.agent \in MayUse[q.key[1]],
         IsFiniteSet(f.recent)
  PROVE  r.frames[1] = f /\ SlotTyped(r) /\ SlotWalled(r) /\ SlotGranted(r) /\ SlotStopped(r)
<1>1. q.frames \in Seq(FrameRecord) /\ Len(q.frames) > 0
  BY DEF SlotOK, SlotTyped, SlotRecord, SameRun
<1>2. PICK frames : frames = r.frames
  OBVIOUS
<1>3. /\ frames \in Seq(FrameRecord) /\ Len(frames) = Len(q.frames)
      /\ DOMAIN frames = DOMAIN q.frames /\ frames[1] = f
      /\ \A i \in DOMAIN frames : i # 1 => frames[i] = q.frames[i]
  BY <1>1, <1>2
<1>4. /\ r \in SlotRecord /\ r.key = q.key /\ r.frames = frames /\ r.fold = q.fold
      /\ r.run = q.run /\ r.fetched = q.fetched /\ r.relayed = q.relayed
      /\ r.cancelled = q.cancelled /\ q.at # "idle" /\ r.at \notin {"idle", "reply"}
  BY <1>2 DEF SameRun
<1>5. SlotTyped(r)
  <2>1. \A i \in DOMAIN frames : IsFiniteSet(frames[i].recent)
    BY <1>3 DEF SlotOK, SlotTyped
  <2> QED
    BY <1>3, <1>4, <2>1 DEF SlotOK, SlotTyped
<1>6. SlotWalled(r)
  <2>1. \A i \in DOMAIN frames : /\ OwnRows(q.key, frames[i].recent)
                                 /\ SaidIn(q.key, frames[i].summary)
    BY <1>3, <1>4 DEF SlotOK, SlotWalled
  <2> QED
    BY <1>4, <2>1 DEF SlotOK, SlotWalled
<1>7. SlotGranted(r)
  BY <1>3, <1>4 DEF SlotOK, SlotGranted
<1>8. SlotStopped(r)
  BY <1>4 DEF SlotOK, SlotStopped
<1> QED
  BY <1>2, <1>3, <1>5, <1>6, <1>7, <1>8

(* A slot with another fold, of the same conversation.                       *)
LEMMA OtherFold ==
  ASSUME NEW q \in SlotRecord, SlotOK(q), NEW r, SameRun(q, r), r.frames = q.frames,
         OwnRows(q.key, r.fold.recent), SaidIn(q.key, r.fold.summary),
         SaidIn(q.key, r.fold.text), IsFiniteSet(r.fold.recent)
  PROVE  SlotTyped(r) /\ SlotWalled(r) /\ SlotGranted(r) /\ SlotStopped(r)
<1>1. /\ r \in SlotRecord /\ r.key = q.key
      /\ r.run = q.run /\ r.fetched = q.fetched /\ r.relayed = q.relayed
      /\ r.cancelled = q.cancelled /\ q.at # "idle" /\ r.at \notin {"idle", "reply"}
  BY DEF SameRun
<1>2. SlotTyped(r)
  BY <1>1 DEF SlotOK, SlotTyped
<1>3. SlotWalled(r)
  BY <1>1 DEF SlotOK, SlotWalled
<1>4. SlotGranted(r) /\ SlotStopped(r)
  BY <1>1 DEF SlotOK, SlotGranted, SlotStopped
<1> QED
  BY <1>1, <1>2, <1>3, <1>4

(* Nothing is being folded.                                                 *)
LEMMA NoFoldFacts == /\ NoFold \in FoldRecord /\ NoFold.recent = {} /\ NoFold.summary = {}
                     /\ NoFold.text = {} /\ IsFiniteSet(NoFold.recent)
BY FS_EmptySet DEF NoFold, FoldRecord

LEMMA LoadSummaryStep ==
  ASSUME IInv, NEW s \in Slots, LoadSummary(s)
  PROVE  IInv'
<1>1. PICK q, f, r : /\ q = slot[s]
                     /\ f = [q.frames[1] EXCEPT !.summary = summaries[q.key]]
                     /\ r = [q EXCEPT !.at = "recent", !.frames = [q.frames EXCEPT ![1] = f]]
  OBVIOUS
<1>2. q \in SlotRecord /\ SlotOK(q) /\ q.at = "start" /\ q.key \in Keys
  BY <1>1, SlotFacts DEF LoadSummary, SlotOK, SlotTyped
<1>3. slot' = [slot EXCEPT ![s] = r]
  BY <1>1, <1>2 DEF LoadSummary, SlotRecord
<1>4. /\ f \in FrameRecord /\ f.recent = q.frames[1].recent /\ f.agent = q.frames[1].agent
      /\ f.summary = summaries[q.key]
  BY <1>1, <1>2, FramesFacts DEF FrameRecord, IInv, TablesTyped
<1>5. /\ r.at = "recent" /\ r.key = q.key /\ r.frames[1] = f
      /\ SlotTyped(r) /\ SlotWalled(r) /\ SlotGranted(r) /\ SlotStopped(r)
  <2>1. SaidIn(q.key, f.summary)
    BY <1>2, <1>4 DEF IInv, TablesWalled
  <2>2. /\ SameRun(q, r) /\ r.at = "recent" /\ r.key = q.key /\ r.fold = q.fold
        /\ r.frames = [q.frames EXCEPT ![1] = f]
    <3>1. q.frames \in Seq(FrameRecord) /\ Len(q.frames) > 0
      BY <1>2 DEF SlotRecord, SlotOK, SlotTyped
    <3>2. [q.frames EXCEPT ![1] = f] \in Seq(FrameRecord)
      BY <1>4, <3>1
    <3> QED
      BY <1>1, <1>2, <3>2 DEF SameRun, SlotRecord, Stages
  <2>3. /\ OwnRows(q.key, f.recent) /\ f.agent \in MayUse[q.key[1]]
        /\ IsFiniteSet(f.recent)
    BY <1>2, <1>4, FramesFacts
  <2> QED
    BY <1>2, <1>4, <2>1, <2>2, <2>3, FirstFrame
<1>6. SlotFolds(r)
  BY <1>4, <1>5 DEF SlotFolds
<1>7. SlotOK(r)
  BY <1>5, <1>6 DEF SlotOK
<1> QED
  BY <1>1, <1>2, <1>3, <1>5, <1>7, LocalStep DEF LoadSummary, history

(* A slot that goes on with its loop folds nothing.                          *)
LEMMA AtLoopFacts ==
  ASSUME NEW q \in SlotRecord, SlotOK(q), q.at # "idle", NEW r,
         r = [q EXCEPT !.at = "loop", !.fold = NoFold]
  PROVE  SlotOK(r) /\ r.at = "loop" /\ r.key = q.key
<1>1. /\ SameRun(q, r) /\ r.at = "loop" /\ r.key = q.key /\ r.frames = q.frames
      /\ r.fold = NoFold
  BY NoFoldFacts DEF SameRun, SlotRecord, Stages
<1>2. /\ OwnRows(q.key, r.fold.recent) /\ SaidIn(q.key, r.fold.summary)
      /\ SaidIn(q.key, r.fold.text) /\ IsFiniteSet(r.fold.recent)
  BY <1>1, NoFoldFacts DEF OwnRows, SaidIn
<1>3. SlotTyped(r) /\ SlotWalled(r) /\ SlotGranted(r) /\ SlotStopped(r)
  BY <1>1, <1>2, OtherFold
<1>4. SlotFolds(r)
  BY <1>1 DEF SlotFolds
<1> QED
  BY <1>1, <1>3, <1>4 DEF SlotOK

LEMMA WithinBudgetStep ==
  ASSUME IInv, NEW s \in Slots, WithinBudget(s)
  PROVE  IInv'
<1>1. PICK q, r : q = slot[s] /\ r = [q EXCEPT !.at = "loop"]
  OBVIOUS
<1>2. q \in SlotRecord /\ SlotOK(q) /\ q.at = "budget"
  BY <1>1, SlotFacts DEF WithinBudget
<1>3. /\ r \in SlotRecord /\ r.at = "loop" /\ r.key = q.key /\ r.frames = q.frames
      /\ r.fold = q.fold /\ r.run = q.run /\ r.fetched = q.fetched /\ r.relayed = q.relayed
      /\ r.cancelled = q.cancelled
  BY <1>1, <1>2 DEF SlotRecord, Stages
<1>4. SlotTyped(r) /\ SlotWalled(r)
  BY <1>2, <1>3 DEF SlotOK, SlotTyped, SlotWalled
<1>5. SlotGranted(r) /\ SlotStopped(r) /\ SlotFolds(r)
  BY <1>2, <1>3 DEF SlotOK, SlotGranted, SlotStopped, SlotFolds
<1>6. SlotOK(r) /\ slot' = [slot EXCEPT ![s] = r]
  BY <1>1, <1>4, <1>5 DEF SlotOK, WithinBudget, Goes
<1> QED
  BY <1>1, <1>2, <1>3, <1>6, LocalStep DEF WithinBudget, history

LEMMA FoldFailsStep ==
  ASSUME IInv, NEW s \in Slots, FoldFails(s)
  PROVE  IInv'
<1>1. PICK q, r : q = slot[s] /\ r = [q EXCEPT !.at = "loop", !.fold = NoFold]
  OBVIOUS
<1>2. q \in SlotRecord /\ SlotOK(q) /\ q.at = "fold"
  BY <1>1, SlotFacts DEF FoldFails
<1>3. SlotOK(r) /\ r.at = "loop" /\ r.key = q.key
  BY <1>1, <1>2, AtLoopFacts
<1>4. slot' = [slot EXCEPT ![s] = r]
  BY <1>1, <1>2 DEF FoldFails, SlotRecord
<1> QED
  BY <1>1, <1>2, <1>3, <1>4, LocalStep DEF FoldFails, history

(* A fold begins with what was read: the newest rows, and the summary.       *)
LEMMA BeginFoldFacts ==
  ASSUME NEW q \in SlotRecord, SlotOK(q), q.at # "idle", NEW r, NEW recent \in SUBSET Rows,
         NEW summary \in SUBSET Contents, NEW keep \in Nat, NEW manual \in BOOLEAN,
         r = [q EXCEPT !.at = "fold",
                !.fold = [recent |-> recent, summary |-> summary, manual |-> manual,
                          keep |-> keep, text |-> {}]],
         OwnRows(q.key, recent), SaidIn(q.key, summary), IsFiniteSet(recent),
         q.key \notin crowded => Loaded(q.key, recent) /\ summaries[q.key] \subseteq summary
  PROVE  SlotOK(r) /\ r.key = q.key
<1>1. PICK f : f = [recent |-> recent, summary |-> summary, manual |-> manual, keep |-> keep,
                    text |-> {}]
  OBVIOUS
<1>2. /\ f \in FoldRecord /\ f.recent = recent /\ f.summary = summary /\ f.text = {}
      /\ SaidIn(q.key, f.text)
  BY <1>1 DEF FoldRecord, SaidIn
<1>3. SameRun(q, r) /\ r.at = "fold" /\ r.key = q.key /\ r.frames = q.frames /\ r.fold = f
  BY <1>1, <1>2 DEF SameRun, SlotRecord, Stages
<1>4. SlotTyped(r) /\ SlotWalled(r) /\ SlotGranted(r) /\ SlotStopped(r)
  BY <1>2, <1>3, OtherFold
<1>5. SlotFolds(r)
  BY <1>2, <1>3 DEF SlotFolds
<1> QED
  BY <1>3, <1>4, <1>5 DEF SlotOK

(* What a fold keeps is a number of turns.                                   *)
LEMMA KeepIsNumber ==
  ASSUME NEW recent, IsFiniteSet(recent), NEW min_keep \in Nat
  PROVE  Keep(Cardinality(recent), min_keep) \in Nat
<1>1. Cardinality(recent) \in Nat
  BY FS_CardinalityType
<1>2. Cardinality(recent) \div 2 \in Nat
  BY <1>1
<1> QED
  BY <1>2 DEF Keep, Greater

LEMMA OverBudgetStep ==
  ASSUME IInv, NEW s \in Slots, OverBudget(s)
  PROVE  IInv'
<1>1. PICK q, recent, summary, keep :
        /\ q = slot[s] /\ recent = q.frames[1].recent /\ summary = q.frames[1].summary
        /\ keep = Keep(Cardinality(recent), KMinKeep)
  OBVIOUS
<1>2. PICK r : r = [q EXCEPT !.at = "fold",
                      !.fold = [recent |-> recent, summary |-> summary, manual |-> FALSE,
                                keep |-> keep, text |-> {}]]
  OBVIOUS
<1>3. q \in SlotRecord /\ SlotOK(q) /\ q.at = "budget"
  BY <1>1, SlotFacts DEF OverBudget
<1>4. /\ recent \in SUBSET Rows /\ summary \in SUBSET Contents
      /\ OwnRows(q.key, recent) /\ SaidIn(q.key, summary) /\ IsFiniteSet(recent)
  BY <1>1, <1>3, FramesFacts DEF FrameRecord
<1>5. keep \in Nat
  BY <1>1, <1>4, KeepIsNumber, ConversationAssumption
<1>6. q.key \notin crowded => Loaded(q.key, recent) /\ summaries[q.key] \subseteq summary
  BY <1>1, <1>3 DEF SlotOK, SlotFolds
<1>7. SlotOK(r) /\ r.key = q.key
  BY <1>2, <1>3, <1>4, <1>5, <1>6, BeginFoldFacts
<1>8. slot' = [slot EXCEPT ![s] = r]
  BY <1>1, <1>2 DEF OverBudget, BeginFold
<1> QED
  BY <1>1, <1>3, <1>7, <1>8, LocalStep DEF OverBudget, history

LEMMA FoldAnswersStep ==
  ASSUME IInv, NEW s \in Slots, FoldAnswers(s)
  PROVE  IInv'
<1>1. PICK q, f, r : /\ q = slot[s]
                     /\ f = [q.fold EXCEPT !.text = FoldText(q.fold)]
                     /\ r = [q EXCEPT !.at = "write", !.fold = f]
  OBVIOUS
<1>2. q \in SlotRecord /\ SlotOK(q) /\ q.at = "fold"
  BY <1>1, SlotFacts DEF FoldAnswers
<1>3. q.fold \in FoldRecord
  BY <1>2 DEF SlotRecord
<1>4. Folded(q.fold) \subseteq Contents /\ SaidIn(q.key, Folded(q.fold))
  BY <1>2, <1>3 DEF Folded, Said, Content, Contents, FoldRecord, Rows, SlotOK, SlotWalled,
                    OwnRows, SaidIn
<1>5. /\ f \in FoldRecord /\ f.recent = q.fold.recent /\ f.summary = q.fold.summary
      /\ f.keep = q.fold.keep /\ f.text = q.fold.summary \cup Folded(q.fold)
  BY <1>1, <1>3, <1>4 DEF FoldRecord, FoldText
<1>6. /\ OwnRows(q.key, f.recent) /\ SaidIn(q.key, f.summary) /\ SaidIn(q.key, f.text)
      /\ IsFiniteSet(f.recent)
  BY <1>2, <1>4, <1>5 DEF SlotOK, SlotWalled, SlotTyped, SaidIn
<1>7. SameRun(q, r) /\ r.at = "write" /\ r.key = q.key /\ r.frames = q.frames /\ r.fold = f
  BY <1>1, <1>2, <1>5 DEF SameRun, SlotRecord, Stages
<1>8. SlotTyped(r) /\ SlotWalled(r) /\ SlotGranted(r) /\ SlotStopped(r)
  BY <1>2, <1>6, <1>7, OtherFold
<1>9. Folded(f) = Folded(q.fold)
  BY <1>5 DEF Folded
<1>10. SlotFolds(r)
  BY <1>2, <1>5, <1>7, <1>9 DEF SlotFolds, SlotOK
<1>11. SlotOK(r) /\ slot' = [slot EXCEPT ![s] = r]
  BY <1>1, <1>2, <1>8, <1>10 DEF SlotOK, FoldAnswers, SlotRecord
<1> QED
  BY <1>1, <1>2, <1>7, <1>11, LocalStep DEF FoldAnswers, history

LEMMA CompressContextStep ==
  ASSUME IInv, NEW s \in Slots, CompressContext(s)
  PROVE  IInv'
<1>1. PICK q, f, r : /\ q = slot[s] /\ f = [NoFold EXCEPT !.summary = summaries[q.key]]
                     /\ r = [q EXCEPT !.at = "manual", !.fold = f, !.calls = q.calls + 1]
  OBVIOUS
<1>2. q \in SlotRecord /\ SlotOK(q) /\ q.at = "loop" /\ q.key \in Keys
  BY <1>1, SlotFacts DEF CompressContext, Calling, AtLoop, SlotOK, SlotTyped
<1>3. /\ f \in FoldRecord /\ f.recent = {} /\ f.summary = summaries[q.key] /\ f.text = {}
      /\ IsFiniteSet(f.recent)
  BY <1>1, <1>2, NoFoldFacts DEF FoldRecord, NoFold, IInv, TablesTyped
<1>4. OwnRows(q.key, f.recent) /\ SaidIn(q.key, f.summary) /\ SaidIn(q.key, f.text)
  BY <1>2, <1>3 DEF OwnRows, SaidIn, IInv, TablesWalled
<1>5. SameRun(q, r) /\ r.at = "manual" /\ r.key = q.key /\ r.frames = q.frames /\ r.fold = f
  <2>1. q.calls + 1 \in Nat
    BY <1>2 DEF SlotRecord
  <2>2. r = [q EXCEPT !.at = "manual", !.fold = f, !.calls = q.calls + 1]
    BY <1>1
  <2>3. /\ r \in SlotRecord /\ r.at = "manual" /\ r.key = q.key /\ r.frames = q.frames
        /\ r.fold = f /\ r.run = q.run /\ r.fetched = q.fetched /\ r.relayed = q.relayed
        /\ r.cancelled = q.cancelled
    BY <1>2, <1>3, <2>1, <2>2 DEF SlotRecord, Stages
  <2> QED
    BY <1>2, <2>3 DEF SameRun
<1>6. SlotTyped(r) /\ SlotWalled(r) /\ SlotGranted(r) /\ SlotStopped(r)
  BY <1>2, <1>4, <1>5, <1>3, OtherFold
<1>7. SlotFolds(r)
  BY <1>3, <1>5 DEF SlotFolds
<1>8. SlotOK(r) /\ slot' = [slot EXCEPT ![s] = r]
  BY <1>1, <1>2, <1>6, <1>7 DEF SlotOK, CompressContext, Called, SlotRecord
<1> QED
  BY <1>1, <1>2, <1>5, <1>8, LocalStep DEF CompressContext, history

(* The rows of a conversation, and its newest.                               *)
LEMMA RowsOfFacts ==
  ASSUME IInv, NEW key \in Keys, NEW n \in Nat
  PROVE  /\ RowsOf(key) \in SUBSET Rows /\ IsFiniteSet(RowsOf(key))
         /\ RecentTurns(key, n) \in SUBSET Rows /\ IsFiniteSet(RecentTurns(key, n))
         /\ RecentTurns(key, n) \subseteq RowsOf(key)
         /\ OwnRows(key, RecentTurns(key, n))
         /\ \A row \in RowsOf(key) \ RecentTurns(key, n) :
              \A r \in RecentTurns(key, n) : row.id < r.id
         /\ n = Cardinality(turns) => RecentTurns(key, n) = RowsOf(key)
<1>1. RowsOf(key) \subseteq turns /\ turns \in SUBSET Rows /\ IsFiniteSet(turns)
  BY DEF RowsOf, IInv, TablesTyped
<1>2. /\ RowsOf(key) \in SUBSET Rows /\ IsFiniteSet(RowsOf(key))
      /\ Cardinality(RowsOf(key)) <= Cardinality(turns)
  BY <1>1, FS_Subset
<1>3. OwnRows(key, RowsOf(key))
  BY <1>1 DEF OwnRows, RowsOf, IInv, TablesWalled
<1>4. /\ RecentTurns(key, n) \subseteq RowsOf(key) /\ IsFiniteSet(RecentTurns(key, n))
      /\ \A row \in RowsOf(key) \ RecentTurns(key, n) :
           \A r \in RecentTurns(key, n) : row.id < r.id
      /\ n = Cardinality(turns) => RecentTurns(key, n) = RowsOf(key)
  BY <1>2, NewestFacts DEF RecentTurns
<1>5. OwnRows(key, RecentTurns(key, n))
  BY <1>3, <1>4 DEF OwnRows
<1> QED
  BY <1>2, <1>4, <1>5

LEMMA CompressReadsStep ==
  ASSUME IInv, NEW s \in Slots, CompressReads(s)
  PROVE  IInv'
<1>1. PICK q, recent, keep :
        /\ q = slot[s] /\ recent = RecentTurns(q.key, Cardinality(turns))
        /\ keep = Keep(Cardinality(recent), ManualMinKeep)
  OBVIOUS
<1>2. q \in SlotRecord /\ SlotOK(q) /\ q.at = "manual" /\ q.key \in Keys
  BY <1>1, SlotFacts DEF CompressReads, SlotOK, SlotTyped
<1>3. CASE Foldable(recent, ManualMinKeep)
  <2>1. PICK r : r = [q EXCEPT !.at = "fold",
                        !.fold = [recent |-> recent, summary |-> q.fold.summary,
                                  manual |-> TRUE, keep |-> keep, text |-> {}]]
    OBVIOUS
  <2>2. Cardinality(turns) \in Nat
    BY FS_CardinalityType DEF IInv, TablesTyped
  <2>3. /\ recent \in SUBSET Rows /\ IsFiniteSet(recent) /\ OwnRows(q.key, recent)
        /\ recent = RowsOf(q.key)
    BY <1>1, <1>2, <2>2, RowsOfFacts
  <2>4. keep \in Nat
    BY <1>1, <2>3, KeepIsNumber, ConversationAssumption
  <2>5. q.fold.summary \in SUBSET Contents /\ SaidIn(q.key, q.fold.summary)
    BY <1>2 DEF SlotOK, SlotWalled, SlotRecord, FoldRecord
  <2>6. q.key \notin crowded =>
          Loaded(q.key, recent) /\ summaries[q.key] \subseteq q.fold.summary
    BY <1>2, <2>3 DEF SlotOK, SlotFolds, Loaded
  <2>7. SlotOK(r) /\ r.key = q.key
    BY <1>2, <2>1, <2>3, <2>4, <2>5, <2>6, BeginFoldFacts
  <2>8. slot' = [slot EXCEPT ![s] = r]
    BY <1>1, <1>3, <2>1 DEF CompressReads, BeginFold
  <2> QED
    BY <1>1, <1>2, <2>7, <2>8, LocalStep DEF CompressReads, history
<1>4. CASE ~Foldable(recent, ManualMinKeep)
  <2>1. PICK r : r = [q EXCEPT !.at = "loop", !.fold = NoFold]
    OBVIOUS
  <2>2. SlotOK(r) /\ r.at = "loop" /\ r.key = q.key
    BY <1>2, <2>1, AtLoopFacts
  <2>3. slot' = [slot EXCEPT ![s] = r]
    BY <1>1, <1>2, <1>4, <2>1 DEF CompressReads, SlotRecord
  <2> QED
    BY <1>1, <1>2, <2>2, <2>3, LocalStep DEF CompressReads, history
<1> QED
  BY <1>3, <1>4

(***************************************************************************)
(* The loop                                                                *)
(***************************************************************************)

(* A slot at its loop: any stack of granted frames will do.                  *)
LEMMA LoopSlot ==
  ASSUME NEW q \in SlotRecord, SlotOK(q), q.at = "loop", NEW r \in SlotRecord, r.at = "loop",
         r.key = q.key, r.run = q.run, r.fold = q.fold, r.relayed => r.cancelled,
         Len(r.frames) \in 1..(MaxDelegationDepth + 1),
         \A run \in r.fetched : owner[run] = q.key,
         \A i \in DOMAIN r.frames :
           \/ i \in DOMAIN q.frames /\ r.frames[i] = q.frames[i]
           \/ /\ OwnRows(q.key, r.frames[i].recent) /\ SaidIn(q.key, r.frames[i].summary)
              /\ r.frames[i].agent \in MayUse[q.key[1]] /\ IsFiniteSet(r.frames[i].recent)
  PROVE  SlotOK(r)
<1>1. SlotTyped(r)
  <2>1. \A i \in DOMAIN r.frames : IsFiniteSet(r.frames[i].recent)
    BY DEF SlotOK, SlotTyped
  <2>2. /\ r.key \in Keys /\ r.run \in Runs /\ owner[r.run] = r.key
        /\ IsFiniteSet(r.fold.recent)
    BY DEF SlotOK, SlotTyped
  <2>3. Len(r.frames) > 0 /\ Len(r.frames) <= MaxDelegationDepth + 1
    BY ConversationAssumption
  <2> QED
    BY <2>1, <2>2, <2>3 DEF SlotTyped
<1>2. SlotWalled(r)
  <2>1. \A i \in DOMAIN r.frames : /\ OwnRows(q.key, r.frames[i].recent)
                                   /\ SaidIn(q.key, r.frames[i].summary)
    BY DEF SlotOK, SlotWalled
  <2> QED
    BY <2>1 DEF SlotOK, SlotWalled
<1>3. SlotGranted(r)
  BY DEF SlotOK, SlotGranted
<1>4. SlotStopped(r) /\ SlotFolds(r)
  BY DEF SlotStopped, SlotFolds
<1> QED
  BY <1>1, <1>2, <1>3, <1>4 DEF SlotOK

(* What a slot at its loop is known to hold.                                *)
LEMMA LoopFacts ==
  ASSUME NEW q \in SlotRecord, SlotOK(q), q.at # "idle"
  PROVE  /\ q.key \in Keys /\ q.run \in Runs /\ owner[q.run] = q.key
         /\ q.frames \in Seq(FrameRecord) /\ Len(q.frames) \in 1..(MaxDelegationDepth + 1)
         /\ \A run \in q.fetched : owner[run] = q.key
         /\ q.relayed => q.cancelled
<1>1. q.frames \in Seq(FrameRecord)
  BY DEF SlotRecord
<1> QED
  BY <1>1, ConversationAssumption DEF SlotOK, SlotTyped, SlotWalled, SlotStopped

LEMMA DelegateStep ==
  ASSUME IInv, NEW s \in Slots, NEW a \in AgentNames, Delegate(s, a)
  PROVE  IInv'
<1>1. PICK q, f, frames, r :
        /\ q = slot[s] /\ f = Frame(a, RecentTurns(q.key, MemoryTurns), {})
        /\ frames = Append(q.frames, f)
        /\ r = [q EXCEPT !.frames = frames, !.calls = q.calls + 1]
  OBVIOUS
<1>2. q \in SlotRecord /\ SlotOK(q) /\ q.at = "loop"
  BY <1>1, SlotFacts DEF Delegate, AtLoop
<1>3. /\ q.key \in Keys /\ q.frames \in Seq(FrameRecord)
      /\ \A run \in q.fetched : owner[run] = q.key
      /\ q.relayed => q.cancelled
  BY <1>2, LoopFacts
<1>4. a \in MayUse[q.key[1]] /\ Len(q.frames) <= MaxDelegationDepth
  BY <1>1, <1>3, NoneAssumption, ConversationAssumption DEF Delegate, Refusal
<1>5. /\ f \in FrameRecord /\ OwnRows(q.key, f.recent) /\ SaidIn(q.key, f.summary)
      /\ f.agent = a /\ IsFiniteSet(f.recent)
  <2>1. PICK recent : recent = RecentTurns(q.key, MemoryTurns)
    OBVIOUS
  <2>2. recent \in SUBSET Rows /\ IsFiniteSet(recent) /\ OwnRows(q.key, recent)
    BY <1>3, <2>1, RowsOfFacts, ConversationAssumption
  <2>3. f = [agent |-> a, recent |-> recent, summary |-> {}]
    BY <1>1, <2>1 DEF Frame
  <2> QED
    BY <2>2, <2>3 DEF FrameRecord, SaidIn
<1>6. /\ frames \in Seq(FrameRecord) /\ Len(frames) = Len(q.frames) + 1
      /\ \A i \in DOMAIN frames : \/ i \in DOMAIN q.frames /\ frames[i] = q.frames[i]
                                  \/ frames[i] = f
  BY <1>1, <1>3, <1>5
<1>7. /\ r \in SlotRecord /\ r.at = "loop" /\ r.key = q.key /\ r.run = q.run
      /\ r.fold = q.fold /\ r.frames = frames /\ r.fetched = q.fetched
      /\ r.relayed = q.relayed /\ r.cancelled = q.cancelled
  <2>1. q.calls + 1 \in Nat
    BY <1>2 DEF SlotRecord
  <2> QED
    BY <1>1, <1>2, <1>6, <2>1 DEF SlotRecord
<1>8. Len(frames) \in 1..(MaxDelegationDepth + 1)
  BY <1>3, <1>4, <1>6, ConversationAssumption
<1>9. SlotOK(r)
  BY <1>2, <1>3, <1>4, <1>5, <1>6, <1>7, <1>8, LoopSlot
<1>10. slot' = [slot EXCEPT ![s] = r]
  BY <1>1 DEF Delegate, Called
<1> QED
  BY <1>1, <1>2, <1>7, <1>9, <1>10, LocalStep DEF Delegate, history

LEMMA ReturnStep ==
  ASSUME IInv, NEW s \in Slots, Return(s)
  PROVE  IInv'
<1>1. PICK q, frames : q = slot[s] /\ frames = Front(q.frames)
  OBVIOUS
<1>2. q \in SlotRecord /\ SlotOK(q) /\ q.at = "loop" /\ Len(q.frames) # 1
  BY <1>1, SlotFacts DEF Return, Outermost
<1>3. /\ q.key \in Keys /\ q.frames \in Seq(FrameRecord)
      /\ Len(q.frames) \in 1..(MaxDelegationDepth + 1)
      /\ \A run \in q.fetched : owner[run] = q.key
      /\ q.relayed => q.cancelled
  BY <1>2, LoopFacts
<1>4. PICK e \in Ends(s) :
        slot' = [slot EXCEPT ![s].frames = Front(@), ![s].cancelled = FlagAfter(s),
                             ![s].relayed = @ \/ e = "stopped"]
  BY DEF Return
<1>5. PICK relayed \in BOOLEAN : relayed = (q.relayed \/ e = "stopped")
  OBVIOUS
<1>6. PICK r : r = [q EXCEPT !.frames = frames, !.relayed = relayed]
  OBVIOUS
<1>7. q.cancelled \in BOOLEAN /\ FlagAfter(s) = q.cancelled
  BY <1>1, <1>2 DEF SlotRecord, FlagAfter
<1>8. relayed => q.cancelled
  BY <1>1, <1>3, <1>4, <1>5, <1>7 DEF Ends
<1>9. /\ frames \in Seq(FrameRecord) /\ Len(frames) = Len(q.frames) - 1
      /\ \A i \in DOMAIN frames : i \in DOMAIN q.frames /\ frames[i] = q.frames[i]
  BY <1>1, <1>2, <1>3 DEF Front
<1>10. /\ r \in SlotRecord /\ r.at = "loop" /\ r.key = q.key /\ r.run = q.run
       /\ r.fold = q.fold /\ r.frames = frames /\ r.fetched = q.fetched
       /\ r.relayed = relayed /\ r.cancelled = q.cancelled
  BY <1>2, <1>5, <1>6, <1>9 DEF SlotRecord
<1>11. Len(frames) \in 1..(MaxDelegationDepth + 1)
  <2>1. PICK n : n = Len(q.frames)
    OBVIOUS
  <2>2. n \in 1..(MaxDelegationDepth + 1) /\ n # 1 /\ Len(frames) = n - 1
    BY <1>2, <1>3, <1>9, <2>1
  <2>3. MaxDelegationDepth \in Nat
    BY ConversationAssumption
  <2> QED
    BY <2>2, <2>3
<1>12. SlotOK(r)
  BY <1>2, <1>3, <1>8, <1>9, <1>10, <1>11, LoopSlot
<1>13. slot' = [slot EXCEPT ![s] = r]
  BY <1>1, <1>2, <1>4, <1>5, <1>6, <1>7 DEF SlotRecord, IInv, SlotsOK
<1> QED
  BY <1>1, <1>2, <1>10, <1>12, <1>13, LocalStep DEF Return, history

LEMMA HangupStep ==
  ASSUME IInv, NEW s \in Slots, Hangup(s)
  PROVE  IInv'
<1>1. PICK q, r : q = slot[s] /\ r = [q EXCEPT !.cancelled = TRUE]
  OBVIOUS
<1>2. q \in SlotRecord /\ SlotOK(q) /\ q.at = "loop"
  BY <1>1, SlotFacts DEF Hangup, AtLoop
<1>3. /\ Len(q.frames) \in 1..(MaxDelegationDepth + 1)
      /\ \A run \in q.fetched : owner[run] = q.key
  BY <1>2, LoopFacts
<1>4. /\ r \in SlotRecord /\ r.at = "loop" /\ r.key = q.key /\ r.run = q.run
      /\ r.fold = q.fold /\ r.frames = q.frames /\ r.fetched = q.fetched
      /\ r.cancelled = TRUE
  BY <1>1, <1>2 DEF SlotRecord
<1>5. SlotOK(r)
  BY <1>2, <1>3, <1>4, LoopSlot
<1>6. slot' = [slot EXCEPT ![s] = r]
  BY <1>1 DEF Hangup
<1> QED
  BY <1>1, <1>2, <1>4, <1>5, <1>6, LocalStep DEF Hangup, history

LEMMA ReadResultStep ==
  ASSUME IInv, NEW s \in Slots, NEW i \in DOMAIN results, ReadResult(s, i)
  PROVE  IInv'
<1>1. PICK q, fetched, r :
        /\ q = slot[s] /\ fetched = q.fetched \cup {results[i].run}
        /\ r = [q EXCEPT !.fetched = fetched, !.calls = q.calls + 1]
  OBVIOUS
<1>2. q \in SlotRecord /\ SlotOK(q) /\ q.at = "loop"
  BY <1>1, SlotFacts DEF ReadResult, Calling, AtLoop
<1>3. /\ Len(q.frames) \in 1..(MaxDelegationDepth + 1)
      /\ \A run \in q.fetched : owner[run] = q.key
      /\ q.relayed => q.cancelled
  BY <1>2, LoopFacts
<1>4. i \in 1..MaxResults /\ results[i] \in {None} \cup Result
  BY DEF IInv, TablesTyped
<1>5. results[i] # None /\ results[i].key = q.key
  BY <1>1 DEF ReadResult, Found
<1>6. results[i].run \in Runs /\ owner[results[i].run] = q.key
  BY <1>4, <1>5 DEF IInv, TablesWalled, Result
<1>7. fetched \in SUBSET Runs /\ \A run \in fetched : owner[run] = q.key
  BY <1>1, <1>2, <1>3, <1>6 DEF SlotRecord
<1>8. q.calls + 1 \in Nat
  BY <1>2 DEF SlotRecord
<1>9. /\ r \in SlotRecord /\ r.at = "loop" /\ r.key = q.key /\ r.run = q.run
      /\ r.fold = q.fold /\ r.frames = q.frames /\ r.fetched = fetched
      /\ r.cancelled = q.cancelled /\ r.relayed = q.relayed
  BY <1>1, <1>2, <1>7, <1>8 DEF SlotRecord
<1>10. SlotOK(r)
  BY <1>2, <1>3, <1>7, <1>9, LoopSlot
<1>11. slot' = [slot EXCEPT ![s] = r]
  BY <1>1 DEF ReadResult, Called
<1> QED
  BY <1>1, <1>2, <1>9, <1>10, <1>11, LocalStep DEF ReadResult, history

(* A slot that is free.                                                     *)
LEMMA IdleOK == SlotOK(Idle) /\ Idle \in SlotRecord /\ Idle.at = "idle"
<1>1. /\ Idle.at = "idle" /\ Idle.frames = <<>> /\ Idle.fold = NoFold /\ Idle.relayed = FALSE
      /\ Len(Idle.frames) = 0 /\ DOMAIN Idle.frames = {}
  BY DEF Idle
<1>2. Idle \in SlotRecord
  <2>1. <<>> \in Seq(FrameRecord) /\ NoFold \in FoldRecord
    BY NoFoldFacts
  <2>2. /\ Idle.at \in Stages /\ Idle.ends \in Outcomes
    BY DEF Idle, Stages, Outcomes
  <2> QED
    BY <2>1, <2>2 DEF Idle, SlotRecord
<1>3. SlotTyped(Idle)
  BY <1>1, <1>2, NoFoldFacts, ConversationAssumption DEF SlotTyped
<1>4. SlotWalled(Idle) /\ SlotGranted(Idle) /\ SlotStopped(Idle) /\ SlotFolds(Idle)
  BY <1>1 DEF SlotWalled, SlotGranted, SlotStopped, SlotFolds
<1> QED
  BY <1>1, <1>2, <1>3, <1>4 DEF SlotOK

LEMMA ThrowsStep ==
  ASSUME IInv, NEW s \in Slots, Throws(s)
  PROVE  IInv'
<1>1. PICK r : r = Idle
  OBVIOUS
<1>2. SlotOK(r) /\ r.at = "idle" /\ slot' = [slot EXCEPT ![s] = r]
  BY <1>1, IdleOK DEF Throws
<1> QED
  BY <1>2, LocalStep DEF Throws

(***************************************************************************)
(* Steps that touch what slots share                                       *)
(***************************************************************************)

(* A step of a run that writes to the tables of its own conversation.        *)
LEMMA TableStep ==
  ASSUME IInv, NEW s \in Slots, NEW r, SlotOK(r)', slot' = [slot EXCEPT ![s] = r],
         slot[s].at # "idle", r.at # "idle" => r.key = slot[s].key,
         UNCHANGED <<owner, crowded>>, unseen \subseteq unseen',
         \A row \in turns' : row.key # slot[s].key => row \in turns,
         \A key \in Keys \ {slot[s].key} : summaries'[key] = summaries[key],
         TablesTyped', TablesWalled', KeptOK'
  PROVE  IInv'
<1>1. OwnersKept /\ crowded \subseteq crowded'
  BY DEF OwnersKept
<1>2. r \in SlotRecord
  BY DEF SlotOK, SlotTyped
<1>3. \A t \in Slots \ {s} : slot[t].at # "idle" => Undisturbed(slot[t].key)
  BY <1>1, OthersUndisturbed
<1>4. SlotsOK'
  BY <1>1, <1>2, <1>3, SlotsMove
<1>5. AloneOK'
  <2>1. \A t \in Slots : slot'[t].at # "idle" =>
           slot[t].at # "idle" /\ slot'[t].key = slot[t].key
    BY DEF IInv, SlotsOK
  <2> QED
    BY <1>1, <2>1, AloneKept DEF IInv
<1> QED
  BY <1>4, <1>5 DEF IInv

LEMMA LoadRecentStep ==
  ASSUME IInv, NEW s \in Slots, LoadRecent(s)
  PROVE  IInv'
<1>1. PICK q, recent, f, r :
        /\ q = slot[s] /\ recent = RecentTurns(q.key, MemoryTurns)
        /\ f = [q.frames[1] EXCEPT !.recent = recent]
        /\ r = [q EXCEPT !.at = "budget", !.frames = [q.frames EXCEPT ![1] = f]]
  OBVIOUS
<1>2. q \in SlotRecord /\ SlotOK(q) /\ q.at = "recent" /\ q.key \in Keys
  BY <1>1, SlotFacts DEF LoadRecent, SlotOK, SlotTyped
<1>3. slot' = [slot EXCEPT ![s] = r]
  BY <1>1, <1>2 DEF LoadRecent, SlotRecord
<1>4. /\ recent \in SUBSET Rows /\ IsFiniteSet(recent) /\ OwnRows(q.key, recent)
      /\ \A row \in RowsOf(q.key) \ recent : \A later \in recent : row.id < later.id
  BY <1>1, <1>2, RowsOfFacts, ConversationAssumption
<1>5. /\ f \in FrameRecord /\ f.recent = recent /\ f.agent = q.frames[1].agent
      /\ f.summary = q.frames[1].summary
  BY <1>1, <1>2, <1>4, FramesFacts DEF FrameRecord
<1>6. SameRun(q, r) /\ r.at = "budget" /\ r.fold = q.fold /\ r.frames = [q.frames EXCEPT ![1] = f]
  <2>1. q.frames \in Seq(FrameRecord) /\ Len(q.frames) > 0
    BY <1>2 DEF SlotRecord, SlotOK, SlotTyped
  <2>2. [q.frames EXCEPT ![1] = f] \in Seq(FrameRecord)
    BY <1>5, <2>1
  <2> QED
    BY <1>1, <1>2, <2>2 DEF SameRun, SlotRecord, Stages
<1>7. r.frames[1] = f /\ SlotTyped(r) /\ SlotWalled(r) /\ SlotGranted(r) /\ SlotStopped(r)
  <2>1. SaidIn(q.key, f.summary) /\ f.agent \in MayUse[q.key[1]]
    BY <1>2, <1>5, FramesFacts
  <2> QED
    BY <1>2, <1>4, <1>5, <1>6, <2>1, FirstFrame
<1>8. \A row \in RowsOf(q.key) \ recent : Content(row) \in unseen'
  BY <1>1 DEF LoadRecent, Said
<1>9. /\ UNCHANGED <<turns, summaries, results, does, owner, appended, erased, crowded, agents,
                     cleaning>>
      /\ unseen \subseteq unseen'
  BY DEF LoadRecent, tables
<1>10. Loaded(q.key, recent)'
  BY <1>4, <1>8, <1>9 DEF Loaded, RowsOf
<1>11. q.key \notin crowded => summaries'[q.key] \subseteq f.summary
  BY <1>2, <1>5, <1>9 DEF SlotOK, SlotFolds
<1>12. SlotFolds(r)'
  BY <1>5, <1>6, <1>7, <1>9, <1>10, <1>11 DEF SlotFolds, SameRun
<1>13. SlotTyped(r)' /\ SlotWalled(r)' /\ SlotGranted(r)' /\ SlotStopped(r)'
  BY <1>7, <1>9 DEF SlotTyped, SlotWalled, SlotGranted, SlotStopped, SaidIn, OwnRows
<1>14. TablesTyped' /\ TablesWalled' /\ KeptOK'
  <2>1. agents' \subseteq AgentNames /\ cleaning' \subseteq Keys
    BY <1>9 DEF IInv, TablesTyped
  <2> QED
    BY <1>9, <2>1, TablesStay DEF IInv
<1>15. SlotOK(r)' /\ r.key = slot[s].key /\ slot[s].at # "idle"
  BY <1>1, <1>2, <1>6, <1>12, <1>13 DEF SlotOK, SameRun
<1> QED
  BY <1>3, <1>9, <1>14, <1>15, TableStep

LEMMA WriteSummaryStep ==
  ASSUME IInv, NEW s \in Slots, WriteSummary(s)
  PROVE  IInv'
<1>1. PICK q, r : q = slot[s] /\ r = [q EXCEPT !.at = "prune"]
  OBVIOUS
<1>2. q \in SlotRecord /\ SlotOK(q) /\ q.at = "write" /\ q.key \in Keys
  BY <1>1, SlotFacts DEF WriteSummary, SlotOK, SlotTyped
<1>3. slot' = [slot EXCEPT ![s] = r]
  BY <1>1 DEF WriteSummary, Goes
<1>4. /\ r \in SlotRecord /\ r.at = "prune" /\ r.key = q.key /\ r.frames = q.frames
      /\ r.fold = q.fold /\ r.run = q.run /\ r.fetched = q.fetched /\ r.relayed = q.relayed
      /\ r.cancelled = q.cancelled
  BY <1>1, <1>2 DEF SlotRecord, Stages
<1>5. PICK text \in SUBSET Contents : text = q.fold.text
  BY <1>2 DEF SlotRecord, FoldRecord
<1>6. /\ summaries' = [summaries EXCEPT ![q.key] = text]
      /\ UNCHANGED <<turns, results, agents, cleaning, does, owner, appended, erased, crowded,
                     unseen>>
  BY <1>1, <1>5 DEF WriteSummary, history
<1>7. /\ summaries' \in [Keys -> SUBSET Contents] /\ summaries'[q.key] = text
      /\ \A key \in Keys \ {q.key} : summaries'[key] = summaries[key]
  BY <1>2, <1>6 DEF IInv, TablesTyped
<1>8. q.key \notin crowded =>
        summaries[q.key] \subseteq text /\ Folded(q.fold) \subseteq text /\ Loaded(q.key, q.fold.recent)
  BY <1>2, <1>5 DEF SlotOK, SlotFolds
<1>9. SlotFolds(r)'
  <2>1. Loaded(q.key, q.fold.recent)' = Loaded(q.key, q.fold.recent)
    BY <1>6 DEF Loaded, RowsOf
  <2> QED
    BY <1>4, <1>6, <1>7, <1>8, <2>1 DEF SlotFolds
<1>10. SlotTyped(r)' /\ SlotWalled(r)' /\ SlotGranted(r)' /\ SlotStopped(r)'
  <2>1. OwnersKept
    BY <1>6 DEF OwnersKept
  <2>2. SlotTyped(q)' /\ SlotWalled(q)' /\ SlotGranted(q)' /\ SlotStopped(q)'
    BY <1>2, <2>1, SlotStays
  <2> QED
    BY <1>2, <1>4, <2>2 DEF SlotTyped, SlotWalled, SlotGranted, SlotStopped
<1>11. TablesTyped'
  BY <1>6, <1>7 DEF IInv, TablesTyped
<1>12. TablesWalled'
  <2>1. SaidIn(q.key, text)
    BY <1>2, <1>5 DEF SlotOK, SlotWalled
  <2>2. \A key \in Keys : SaidIn(key, summaries'[key])
    BY <1>7, <2>1 DEF IInv, TablesWalled
  <2> QED
    BY <1>6, <2>2 DEF IInv, TablesWalled, SaidIn
<1>13. KeptOK'
  <2> SUFFICES ASSUME NEW c \in appended \ (erased \cup unseen), owner[c[1]] \notin crowded
               PROVE  c \in summaries'[owner[c[1]]]
                      \/ \E row \in turns : row.key = owner[c[1]] /\ Content(row) = c
    BY <1>6 DEF KeptOK
  <2>1. c \in summaries[owner[c[1]]]
        \/ \E row \in turns : row.key = owner[c[1]] /\ Content(row) = c
    BY DEF IInv, KeptOK
  <2>2. owner[c[1]] \in Keys
    BY DEF IInv, TablesTyped, TablesWalled, Contents
  <2> QED
    BY <1>7, <1>8, <2>1, <2>2
<1>14. SlotOK(r)' /\ r.key = slot[s].key /\ slot[s].at # "idle"
  BY <1>1, <1>2, <1>4, <1>9, <1>10 DEF SlotOK
<1>15. \A key \in Keys \ {slot[s].key} : summaries'[key] = summaries[key]
  BY <1>1, <1>7
<1> QED
  BY <1>3, <1>6, <1>11, <1>12, <1>13, <1>14, <1>15, TableStep

LEMMA StoreResultStep ==
  ASSUME IInv, NEW s \in Slots, StoreResult(s)
  PROVE  IInv'
<1>1. PICK q, r : q = slot[s] /\ r = [q EXCEPT !.calls = q.calls + 1]
  OBVIOUS
<1>2. q \in SlotRecord /\ SlotOK(q) /\ q.at = "loop"
  BY <1>1, SlotFacts DEF StoreResult, Calling, AtLoop
<1>3. /\ q.key \in Keys /\ q.run \in Runs /\ owner[q.run] = q.key
      /\ Len(q.frames) \in 1..(MaxDelegationDepth + 1)
      /\ \A run \in q.fetched : owner[run] = q.key
      /\ q.relayed => q.cancelled
  BY <1>2, LoopFacts
<1>4. PICK id \in DOMAIN results :
        results' = [results EXCEPT ![id] = [key |-> q.key, run |-> q.run]]
  BY <1>1 DEF StoreResult
<1>5. slot' = [slot EXCEPT ![s] = r]
  BY <1>1 DEF StoreResult, Called
<1>6. UNCHANGED <<turns, summaries, agents, cleaning, does, owner, appended, erased, crowded,
                  unseen>>
  BY DEF StoreResult, history
<1>7. /\ r \in SlotRecord /\ r.at = "loop" /\ r.key = q.key /\ r.run = q.run
      /\ r.fold = q.fold /\ r.frames = q.frames /\ r.fetched = q.fetched
      /\ r.cancelled = q.cancelled /\ r.relayed = q.relayed
  <2>1. q.calls + 1 \in Nat
    BY <1>2 DEF SlotRecord
  <2> QED
    BY <1>1, <1>2, <2>1 DEF SlotRecord
<1>8. SlotOK(r)
  BY <1>2, <1>3, <1>7, LoopSlot
<1>9. SlotOK(r)'
  <2>1. OwnersKept /\ Undisturbed(r.key)
    BY <1>6 DEF OwnersKept, Undisturbed
  <2> QED
    BY <1>6, <1>8, <2>1, SlotKept
<1>10. /\ results' \in [1..MaxResults -> {None} \cup Result]
       /\ \A i \in 1..MaxResults : results'[i] # None => owner[results'[i].run] = results'[i].key
  <2>1. [key |-> q.key, run |-> q.run] \in Result
    BY <1>3 DEF Result
  <2> QED
    BY <1>3, <1>4, <2>1 DEF IInv, TablesTyped, TablesWalled
<1>11. TablesTyped'
  BY <1>6, <1>10 DEF IInv, TablesTyped
<1>12. TablesWalled'
  BY <1>6, <1>10 DEF IInv, TablesWalled, SaidIn
<1>13. KeptOK'
  BY <1>6 DEF IInv, KeptOK
<1>14. r.key = slot[s].key /\ slot[s].at # "idle"
  BY <1>1, <1>2, <1>7
<1> QED
  BY <1>5, <1>6, <1>9, <1>11, <1>12, <1>13, <1>14, TableStep

(* A prune takes rows that the window left out, or that the summary covers.  *)
LEMMA PrunedRows ==
  ASSUME IInv, NEW s \in Slots, PruneTurns(s), slot[s].key \notin crowded,
         NEW row \in turns \ turns'
  PROVE  row.key = slot[s].key /\ (Content(row) \in unseen \/ Content(row) \in summaries[row.key])
<1>1. PICK q, f, n : q = slot[s] /\ f = q.fold /\ n = f.keep
  OBVIOUS
<1>2. q \in SlotRecord /\ SlotOK(q) /\ q.at = "prune" /\ q.key \in Keys
  BY <1>1, SlotFacts DEF PruneTurns, SlotOK, SlotTyped
<1>3. f \in FoldRecord /\ IsFiniteSet(f.recent)
  BY <1>1, <1>2 DEF SlotRecord, SlotOK, SlotTyped
<1>4. f.recent \in SUBSET Rows /\ n \in Nat
  BY <1>1, <1>3 DEF FoldRecord
<1>5. turns' = turns \ (RowsOf(q.key) \ Newest(RowsOf(q.key), n))
  BY <1>1 DEF PruneTurns, PruneRows, FoldKeep
<1>6. row \in RowsOf(q.key) /\ row \notin Newest(RowsOf(q.key), n)
  BY <1>5
<1>7. RowsOf(q.key) \in SUBSET Rows /\ IsFiniteSet(RowsOf(q.key))
  BY <1>2, <1>4, RowsOfFacts
<1>8. Loaded(q.key, f.recent) /\ Folded(f) \subseteq summaries[q.key]
  BY <1>1, <1>2, <1>6 DEF SlotOK, SlotFolds
<1>9. CASE row \notin f.recent
  BY <1>1, <1>6, <1>8, <1>9 DEF Loaded, RowsOf
<1>10. CASE row \in f.recent
  <2>1. \A other \in RowsOf(q.key) : other \in f.recent \/ other.id < row.id
    BY <1>8, <1>10 DEF Loaded
  <2>2. row \notin Newest(f.recent, n)
    <3>1. PICK rows, recent : rows = RowsOf(q.key) /\ recent = f.recent
      OBVIOUS
    <3>2. row \notin Newest(recent, n)
      BY <1>3, <1>4, <1>6, <1>7, <1>10, <2>1, <3>1, NewestOfFewer
    <3> QED
      BY <3>1, <3>2
  <2>3. Content(row) \in Folded(f)
    BY <1>1, <1>10, <2>2 DEF Folded, Said
  <2> QED
    BY <1>1, <1>6, <1>8, <2>3 DEF RowsOf
<1> QED
  BY <1>9, <1>10

LEMMA PruneTurnsStep ==
  ASSUME IInv, NEW s \in Slots, PruneTurns(s)
  PROVE  IInv'
<1>1. PICK q, f : q = slot[s] /\ f = q.fold
  OBVIOUS
<1>2. /\ q \in SlotRecord /\ SlotOK(q) /\ q.at = "prune" /\ q.key \in Keys
      /\ q.frames \in Seq(FrameRecord) /\ Len(q.frames) > 0
  BY <1>1, SlotFacts DEF PruneTurns, SlotOK, SlotTyped, SlotRecord
<1>3. f \in FoldRecord /\ IsFiniteSet(f.recent)
  BY <1>1, <1>2 DEF SlotRecord, SlotOK, SlotTyped
<1>4. PICK first : first = IF f.manual THEN q.frames[1]
                           ELSE Frame(q.frames[1].agent, Newest(f.recent, f.keep), f.text)
  OBVIOUS
<1>5. PICK r : r = [q EXCEPT !.at = "loop", !.fold = NoFold, !.frames = [q.frames EXCEPT ![1] = first]]
  OBVIOUS
<1>6. slot' = [slot EXCEPT ![s] = r]
  BY <1>1, <1>2, <1>4, <1>5 DEF PruneTurns, SlotRecord
<1>7. /\ first \in FrameRecord /\ OwnRows(q.key, first.recent) /\ SaidIn(q.key, first.summary)
      /\ first.agent \in MayUse[q.key[1]] /\ IsFiniteSet(first.recent)
  <2>1. CASE f.manual
    BY <1>2, <1>4, <2>1, FramesFacts
  <2>2. CASE ~f.manual
    <3>1. PICK recent : recent = Newest(f.recent, f.keep)
      OBVIOUS
    <3>2. f.recent \in SUBSET Rows /\ f.keep \in Nat /\ f.text \in SUBSET Contents
      BY <1>3 DEF FoldRecord
    <3>3. recent \subseteq f.recent /\ IsFiniteSet(recent)
      BY <1>3, <3>1, <3>2, NewestFacts
    <3>4. OwnRows(q.key, recent) /\ SaidIn(q.key, f.text)
      BY <1>1, <1>2, <3>3 DEF SlotOK, SlotWalled, OwnRows
    <3>5. q.frames[1].agent \in AgentNames /\ q.frames[1].agent \in MayUse[q.key[1]]
      BY <1>2, FramesFacts DEF FrameRecord
    <3>6. first = [agent |-> q.frames[1].agent, recent |-> recent, summary |-> f.text]
      BY <1>4, <2>2, <3>1 DEF Frame
    <3> QED
      BY <3>2, <3>3, <3>4, <3>5, <3>6 DEF FrameRecord
  <2> QED
    BY <2>1, <2>2
<1>8. PICK frames : frames = [q.frames EXCEPT ![1] = first]
  OBVIOUS
<1>9. /\ frames \in Seq(FrameRecord) /\ Len(frames) = Len(q.frames)
      /\ DOMAIN frames = DOMAIN q.frames /\ frames[1] = first
      /\ \A i \in DOMAIN frames : i # 1 => frames[i] = q.frames[i]
  BY <1>2, <1>7, <1>8
<1>10. PICK p : p = [q EXCEPT !.at = "loop", !.fold = NoFold]
  OBVIOUS
<1>11. /\ p \in SlotRecord /\ SlotOK(p) /\ p.at = "loop" /\ p.key = q.key /\ p.frames = q.frames
  BY <1>2, <1>10, AtLoopFacts DEF SlotOK, SlotTyped, SlotRecord
<1>12. /\ r \in SlotRecord /\ r.at = "loop" /\ r.key = p.key /\ r.run = p.run
       /\ r.fold = p.fold /\ r.frames = frames /\ r.fetched = p.fetched
       /\ r.cancelled = p.cancelled /\ r.relayed = p.relayed
  BY <1>2, <1>5, <1>8, <1>9, <1>10, NoFoldFacts DEF SlotRecord, Stages
<1>13. SlotOK(r)
  <2>1. /\ Len(frames) \in 1..(MaxDelegationDepth + 1)
        /\ \A run \in p.fetched : owner[run] = p.key
        /\ p.relayed => p.cancelled
    BY <1>9, <1>11, LoopFacts
  <2>2. \A i \in DOMAIN frames : i # 1 => i \in DOMAIN p.frames /\ frames[i] = p.frames[i]
    BY <1>9, <1>11
  <2> QED
    BY <1>7, <1>9, <1>11, <1>12, <2>1, <2>2, LoopSlot
<1>14. /\ UNCHANGED <<summaries, results, agents, cleaning, does, owner, appended, erased, crowded,
                      unseen>>
       /\ turns' \subseteq turns
  BY DEF PruneTurns, PruneRows, history
<1>15. SlotOK(r)'
  <2>1. OwnersKept /\ Undisturbed(r.key)
    BY <1>14 DEF OwnersKept, Undisturbed
  <2> QED
    BY <1>13, <1>14, <2>1, SlotKept
<1>16. TablesTyped'
  <2>1. IsFiniteSet(turns')
    BY <1>14, FS_Subset DEF IInv, TablesTyped
  <2> QED
    BY <1>14, <2>1 DEF IInv, TablesTyped
<1>17. TablesWalled'
  BY <1>14 DEF IInv, TablesWalled, SaidIn
<1>18. KeptOK'
  <2> SUFFICES ASSUME NEW c \in appended \ (erased \cup unseen), owner[c[1]] \notin crowded
               PROVE  c \in summaries[owner[c[1]]]
                      \/ \E row \in turns' : row.key = owner[c[1]] /\ Content(row) = c
    BY <1>14 DEF KeptOK
  <2>1. CASE c \in summaries[owner[c[1]]]
    BY <2>1
  <2>2. ASSUME NEW row \in turns, row.key = owner[c[1]], Content(row) = c, row \notin turns'
        PROVE  c \in summaries[owner[c[1]]]
    <3>1. row.key = q.key
      BY <1>1, <2>2 DEF PruneTurns, PruneRows, RowsOf
    <3>2. Content(row) \in unseen \/ Content(row) \in summaries[row.key]
      BY <1>1, <2>2, <3>1, PrunedRows
    <3> QED
      BY <2>2, <3>2
  <2> QED
    BY <2>1, <2>2 DEF IInv, KeptOK
<1>19. r.key = slot[s].key /\ slot[s].at # "idle"
  BY <1>1, <1>2, <1>11, <1>12
<1> QED
  BY <1>6, <1>14, <1>15, <1>16, <1>17, <1>18, <1>19, TableStep

(* A turn is appended to the run's own conversation.                         *)
LEMMA AppendFacts ==
  ASSUME IInv, NEW s \in Slots, NEW role \in Roles, AppendTurn(s, role), slot[s].at # "idle",
         UNCHANGED <<summaries, results, agents, cleaning, does, owner, erased, crowded, unseen>>
  PROVE  /\ TablesTyped' /\ TablesWalled' /\ KeptOK'
         /\ \A row \in turns' : row.key # slot[s].key => row \in turns
<1>1. PICK key, run, row :
        /\ key = slot[s].key /\ run = slot[s].run
        /\ row = [id |-> NewTurnId, key |-> key, run |-> run, role |-> role]
  OBVIOUS
<1>2. key \in Keys /\ run \in Runs /\ owner[run] = key
  BY <1>1, SlotFacts DEF SlotOK, SlotTyped
<1>3. NewTurnId \in Nat \ {0}
  BY NewTurnIdIsId DEF IInv, TablesTyped
<1>4. /\ row \in Rows /\ row.key = key /\ row.run = run /\ Content(row) = <<run, role>>
      /\ Content(row) \in Contents
  BY <1>1, <1>2, <1>3 DEF Rows, Content, Contents
<1>5. turns' = turns \cup {row} /\ appended' = appended \cup {Content(row)}
  BY <1>1, <1>4 DEF AppendTurn
<1>6. TablesTyped'
  <2>1. IsFiniteSet(turns') /\ turns' \subseteq Rows
    BY <1>4, <1>5, FS_AddElement DEF IInv, TablesTyped
  <2> QED
    BY <1>4, <1>5, <2>1 DEF IInv, TablesTyped
<1>7. TablesWalled'
  <2>1. owner[Content(row)[1]] # None
    BY <1>2, <1>4, NoneAssumption
  <2> QED
    BY <1>2, <1>4, <1>5, <2>1 DEF IInv, TablesWalled, SaidIn
<1>8. KeptOK'
  <2> SUFFICES ASSUME NEW c \in appended' \ (erased \cup unseen), owner[c[1]] \notin crowded
               PROVE  c \in summaries[owner[c[1]]]
                      \/ \E other \in turns' : other.key = owner[c[1]] /\ Content(other) = c
    BY DEF KeptOK
  <2>1. CASE c = Content(row)
    BY <1>2, <1>4, <1>5, <2>1
  <2>2. CASE c # Content(row)
    BY <1>5, <2>2 DEF IInv, KeptOK
  <2> QED
    BY <2>1, <2>2
<1> QED
  BY <1>1, <1>4, <1>5, <1>6, <1>7, <1>8

LEMMA AppendUserStep ==
  ASSUME IInv, NEW s \in Slots, AppendUser(s)
  PROVE  IInv'
<1>1. PICK e \in Ends(s) \ {"threw"} :
        slot' = [slot EXCEPT ![s].at = "reply", ![s].ends = e] /\ AppendTurn(s, "user")
  BY DEF AppendUser
<1>2. PICK q, r : q = slot[s] /\ r = [q EXCEPT !.at = "reply", !.ends = e]
  OBVIOUS
<1>3. q \in SlotRecord /\ SlotOK(q) /\ q.at = "loop"
  BY <1>2, SlotFacts DEF AppendUser
<1>4. slot' = [slot EXCEPT ![s] = r]
  BY <1>1, <1>2, <1>3 DEF SlotRecord
<1>5. e \in Outcomes
  BY <1>1 DEF Ends, Outcomes
<1>6. /\ r \in SlotRecord /\ r.at = "reply" /\ r.key = q.key /\ r.frames = q.frames
      /\ r.fold = q.fold /\ r.run = q.run /\ r.fetched = q.fetched /\ r.relayed = q.relayed
      /\ r.cancelled = q.cancelled /\ r.ends = e
  BY <1>2, <1>3, <1>5 DEF SlotRecord, Stages
<1>7. q.relayed => q.cancelled /\ e # "answer"
  BY <1>1, <1>2, <1>3 DEF AppendUser, Ends, SlotOK, SlotStopped
<1>8. SlotTyped(r) /\ SlotWalled(r)
  BY <1>3, <1>6 DEF SlotOK, SlotTyped, SlotWalled
<1>9. SlotGranted(r) /\ SlotStopped(r) /\ SlotFolds(r)
  BY <1>3, <1>6, <1>7 DEF SlotOK, SlotGranted, SlotStopped, SlotFolds
<1>10. UNCHANGED <<summaries, results, agents, cleaning, does, owner, erased, crowded, unseen>>
  BY DEF AppendUser
<1>11. SlotOK(r)'
  <2>1. OwnersKept
    BY <1>10 DEF OwnersKept
  <2>2. SlotTyped(r)' /\ SlotWalled(r)' /\ SlotGranted(r)' /\ SlotStopped(r)'
    BY <1>8, <1>9, <2>1, SlotStays DEF SlotOK
  <2>3. SlotFolds(r)'
    BY <1>6 DEF SlotFolds
  <2> QED
    BY <2>2, <2>3 DEF SlotOK
<1>12. /\ TablesTyped' /\ TablesWalled' /\ KeptOK'
       /\ \A row \in turns' : row.key # slot[s].key => row \in turns
  BY <1>1, <1>2, <1>3, <1>10, AppendFacts DEF Roles
<1> QED
  BY <1>2, <1>3, <1>4, <1>6, <1>10, <1>11, <1>12, TableStep

LEMMA AppendAssistantStep ==
  ASSUME IInv, NEW s \in Slots, AppendAssistant(s)
  PROVE  IInv'
<1>1. PICK r : r = Idle
  OBVIOUS
<1>2. SlotOK(r) /\ r.at = "idle" /\ slot' = [slot EXCEPT ![s] = r]
  BY <1>1, IdleOK DEF AppendAssistant
<1>3. UNCHANGED <<summaries, results, agents, cleaning, does, owner, erased, crowded, unseen>>
  BY DEF AppendAssistant
<1>4. AppendTurn(s, "assistant") /\ slot[s].at # "idle"
  BY DEF AppendAssistant
<1>5. SlotOK(r)'
  <2>1. OwnersKept
    BY <1>3 DEF OwnersKept
  <2>2. SlotTyped(r)' /\ SlotWalled(r)' /\ SlotGranted(r)' /\ SlotStopped(r)'
    BY <1>2, <2>1, SlotStays
  <2>3. SlotFolds(r)'
    BY <1>2 DEF SlotFolds
  <2> QED
    BY <2>2, <2>3 DEF SlotOK
<1>6. /\ TablesTyped' /\ TablesWalled' /\ KeptOK'
      /\ \A row \in turns' : row.key # slot[s].key => row \in turns
  BY <1>3, <1>4, AppendFacts DEF Roles
<1> QED
  BY <1>2, <1>3, <1>4, <1>5, <1>6, TableStep

(* Runs are numbered as they start: the next number is free.                 *)
LEMMA NextRunIsFree ==
  ASSUME TablesTyped, NEW runs \in 0..MaxRuns, Cardinality(Started) < runs
  PROVE  \E run \in Runs : /\ run = Cardinality(Started) + 1 /\ run \in 0..MaxRuns
                           /\ owner[run] = None
                           /\ \A r \in Runs : owner[r] # None <=> r < run
<1>1. MaxRuns \in Nat
  BY ConversationAssumption
<1>2. PICK n \in 0..MaxRuns : \A r \in Runs : owner[r] # None <=> r <= n
  BY DEF TablesTyped
<1>3. Started = 1..n
  BY <1>1, <1>2 DEF Started, Runs
<1>4. Cardinality(1..n) = n
  <2>1. 1 \in Int /\ n \in Int /\ n >= 0
    BY <1>1, <1>2
  <2>2. Cardinality(1..n) = IF 1 > n THEN 0 ELSE n - 1 + 1
    BY <2>1, FS_Interval
  <2> QED
    BY <2>1, <2>2
<1>5. PICK k \in Nat : k = Cardinality(Started) /\ k = n
  BY <1>1, <1>2, <1>3, <1>4
<1>6. k < runs
  BY <1>5
<1>7. /\ k + 1 \in Runs /\ k + 1 \in 0..MaxRuns /\ ~(k + 1 <= n)
      /\ \A r \in Runs : r <= n <=> r < k + 1
  BY <1>1, <1>5, <1>6 DEF Runs
<1> QED
  BY <1>2, <1>5, <1>7

LEMMA ChatStep ==
  ASSUME IInv, NEW s \in Slots, NEW key \in Keys, NEW a \in AgentNames, Chat(s, key, a)
  PROVE  IInv'
<1>1. does.runs \in 0..MaxRuns
  BY ConversationAssumption DEF IInv, TablesTyped, Workload
<1>2. Cardinality(Started) < does.runs
  BY DEF Chat
<1>3. PICK run \in Runs : /\ run = Cardinality(Started) + 1 /\ run \in 0..MaxRuns
                         /\ owner[run] = None
                         /\ \A r \in Runs : owner[r] # None <=> r < run
  BY <1>1, <1>2, NextRunIsFree DEF IInv
<1>4. PICK f, r : /\ f = Frame(a, {}, {})
                  /\ r = [Idle EXCEPT !.at = "start", !.key = key, !.run = run, !.frames = <<f>>]
  OBVIOUS
<1>5. slot' = [slot EXCEPT ![s] = r]
  BY <1>3, <1>4 DEF Chat
<1>6. /\ owner' = [owner EXCEPT ![run] = key]
      /\ UNCHANGED <<turns, summaries, results, agents, cleaning, does, appended, erased, unseen>>
      /\ crowded' = IF Busy(key) THEN crowded \cup {key} ELSE crowded
      /\ a \in MayUse[key[1]] /\ slot[s] = Idle
  BY <1>3 DEF Chat, tables
<1>7. /\ owner' \in [Runs -> Keys \cup {None}] /\ owner'[run] = key
      /\ \A other \in Runs : other # run => owner'[other] = owner[other]
  BY <1>3, <1>6 DEF IInv, TablesTyped
<1>8. OwnersKept
  BY <1>3, <1>7 DEF OwnersKept
<1>9. crowded \subseteq crowded' /\ unseen \subseteq unseen'
  BY <1>6
<1>10. /\ r \in SlotRecord /\ r.at = "start" /\ r.key = key /\ r.run = run /\ r.frames = <<f>>
       /\ r.fold = NoFold /\ r.fetched = {} /\ r.relayed = FALSE
  <2>1. f \in FrameRecord
    BY <1>4 DEF Frame, FrameRecord
  <2>2. <<f>> \in Seq(FrameRecord)
    BY <2>1
  <2>3. Idle \in SlotRecord
    BY IdleOK
  <2>4. Idle.fold = NoFold /\ Idle.fetched = {} /\ Idle.relayed = FALSE
    BY DEF Idle
  <2> QED
    BY <1>3, <1>4, <2>2, <2>3, <2>4 DEF SlotRecord, Stages
<1>11. /\ Len(r.frames) = 1 /\ DOMAIN r.frames = {1} /\ r.frames[1] = f
       /\ f.agent = a /\ f.recent = {} /\ f.summary = {}
  BY <1>4, <1>10 DEF Frame
<1>12. SlotTyped(r)'
  <2>1. IsFiniteSet(r.fold.recent)
    BY <1>10, NoFoldFacts
  <2>2. \A i \in DOMAIN r.frames : IsFiniteSet(r.frames[i].recent)
    BY <1>11, FS_EmptySet
  <2>3. Len(r.frames) > 0 /\ Len(r.frames) <= MaxDelegationDepth + 1
    BY <1>11, ConversationAssumption
  <2>4. r.key \in Keys /\ r.run \in Runs /\ owner'[r.run] = r.key
    BY <1>3, <1>7, <1>10
  <2> QED
    BY <1>10, <2>1, <2>2, <2>3, <2>4 DEF SlotTyped
<1>13. SlotWalled(r)'
  BY <1>10, <1>11, NoFoldFacts DEF SlotWalled, OwnRows, SaidIn
<1>14. SlotGranted(r)' /\ SlotStopped(r)' /\ SlotFolds(r)'
  BY <1>6, <1>10, <1>11 DEF SlotGranted, SlotStopped, SlotFolds
<1>15. SlotsOK'
  <2>1. SlotOK(r)'
    BY <1>12, <1>13, <1>14 DEF SlotOK
  <2>2. \A k : Undisturbed(k)
    BY <1>6 DEF Undisturbed
  <2> QED
    BY <1>5, <1>8, <1>9, <1>10, <2>1, <2>2, SlotsMove
<1>16. TablesTyped'
  <2>1. \A other \in Runs : owner'[other] # None <=> other <= run
    BY <1>3, <1>7, NoneAssumption DEF Runs
  <2> QED
    BY <1>3, <1>6, <1>7, <2>1 DEF IInv, TablesTyped
<1>17. TablesWalled'
  <2>1. \A row \in turns : row.run \in Runs /\ row.key \in Keys
    BY DEF IInv, TablesTyped, Rows
  <2>2. \A row \in turns : owner'[row.run] = row.key
    BY <1>8, <2>1, NoneAssumption DEF IInv, TablesWalled, OwnersKept
  <2>3. \A k \in Keys : SaidIn(k, summaries[k])'
    <3>1. ASSUME NEW k \in Keys
          PROVE  SaidIn(k, summaries[k])'
      <4>1. PICK cs \in SUBSET Contents : cs = summaries[k]
        BY <3>1 DEF IInv, TablesTyped
      <4>2. SaidIn(k, cs)'
        BY <1>8, <3>1, <4>1, SaidKept DEF IInv, TablesWalled
      <4> QED
        BY <1>6, <4>1, <4>2 DEF SaidIn
    <3> QED
      BY <3>1
  <2>4. \A i \in 1..MaxResults : results[i] # None => owner'[results[i].run] = results[i].key
    <3>1. \A i \in 1..MaxResults : results[i] # None =>
            results[i].run \in Runs /\ results[i].key \in Keys
      BY DEF IInv, TablesTyped, Result
    <3> QED
      BY <1>8, <3>1, NoneAssumption DEF IInv, TablesWalled, OwnersKept
  <2>5. \A c \in appended : owner'[c[1]] # None
    BY <1>8 DEF IInv, TablesTyped, TablesWalled, Contents, OwnersKept
  <2> QED
    BY <1>6, <2>2, <2>3, <2>4, <2>5 DEF TablesWalled
<1>18. KeptOK'
  <2>1. \A c \in appended : owner'[c[1]] = owner[c[1]]
    BY <1>8 DEF IInv, TablesTyped, TablesWalled, Contents, OwnersKept
  <2> QED
    BY <1>6, <1>9, <2>1 DEF IInv, KeptOK
<1>19. AloneOK'
  <2> SUFFICES ASSUME NEW t \in Slots, NEW u \in Slots, t # u, slot'[t].at # "idle",
                      slot'[u].at # "idle", slot'[t].key = slot'[u].key
               PROVE  slot'[t].key \in crowded'
    BY DEF AloneOK
  <2>1. /\ slot'[s] = r /\ \A v \in Slots : v # s => slot'[v] = slot[v]
    BY <1>5, <1>10 DEF IInv, SlotsOK
  <2>2. CASE t # s /\ u # s
    BY <1>9, <2>1, <2>2 DEF IInv, AloneOK
  <2>3. CASE t = s
    BY <1>6, <1>10, <2>1, <2>3 DEF Busy
  <2>4. CASE u = s
    BY <1>6, <1>10, <2>1, <2>4 DEF Busy
  <2> QED
    BY <2>2, <2>3, <2>4
<1> QED
  BY <1>15, <1>16, <1>17, <1>18, <1>19 DEF IInv

(***************************************************************************)
(* The rest of the server                                                  *)
(***************************************************************************)

(* Slots that do not move, in a step that disturbs none of them.             *)
LEMMA SlotsStay ==
  ASSUME IInv, UNCHANGED <<slot, owner, crowded, unseen>>, \A key \in Keys : Undisturbed(key)
  PROVE  SlotsOK' /\ AloneOK'
<1>1. OwnersKept
  BY DEF OwnersKept
<1>2. ASSUME NEW t \in Slots
      PROVE  SlotOK(slot[t])'
  <2>1. PICK q : q = slot[t]
    OBVIOUS
  <2>2. slot'[t] = q /\ SlotOK(q) /\ (q.at # "idle" => q.key \in Keys)
    BY <2>1, SlotFacts DEF SlotOK, SlotTyped
  <2>3. SlotOK(q)'
    BY <1>1, <2>2, SlotKept
  <2> QED
    BY <2>2, <2>3, SlotIs
<1>3. SlotsOK'
  BY <1>2 DEF IInv, SlotsOK
<1>4. AloneOK'
  BY DEF IInv, AloneOK
<1> QED
  BY <1>3, <1>4

LEMMA DeleteStep ==
  ASSUME IInv, NEW key \in Keys, DeleteSession(key), cleaning' \subseteq Keys,
         UNCHANGED <<agents, slot, does, owner, appended, crowded, unseen>>
  PROVE  IInv'
<1>1. /\ turns' = turns \ RowsOf(key)
      /\ summaries' = [summaries EXCEPT ![key] = {}]
      /\ erased' = erased \cup summaries[key] \cup Said(RowsOf(key))
      /\ \A row \in turns' : row.key # key
  BY DEF DeleteSession, RowsOf
<1>2. /\ summaries' \in [Keys -> SUBSET Contents] /\ summaries'[key] = {}
      /\ \A k \in Keys \ {key} : summaries'[k] = summaries[k]
  BY <1>1 DEF IInv, TablesTyped
<1>3. /\ results' \in [1..MaxResults -> {None} \cup Result]
      /\ \A i \in 1..MaxResults : results'[i] # None => results'[i] = results[i]
  BY DEF DeleteSession, IInv, TablesTyped
<1>4. TablesTyped'
  <2>1. IsFiniteSet(turns')
    BY <1>1, FS_Subset DEF IInv, TablesTyped
  <2> QED
    BY <1>1, <1>2, <1>3, <2>1 DEF IInv, TablesTyped
<1>5. TablesWalled'
  <2>1. \A k \in Keys : SaidIn(k, summaries'[k])
    BY <1>2 DEF IInv, TablesWalled, SaidIn
  <2> QED
    BY <1>1, <1>3, <2>1 DEF IInv, TablesWalled, SaidIn
<1>6. KeptOK'
  <2> SUFFICES ASSUME NEW c \in appended \ (erased' \cup unseen), owner[c[1]] \notin crowded
               PROVE  c \in summaries'[owner[c[1]]]
                      \/ \E row \in turns' : row.key = owner[c[1]] /\ Content(row) = c
    BY DEF KeptOK
  <2>1. c \in appended \ (erased \cup unseen) /\ c \notin summaries[key] /\ c \notin Said(RowsOf(key))
    BY <1>1
  <2>2. owner[c[1]] \in Keys
    BY DEF IInv, TablesTyped, TablesWalled, Contents
  <2>3. c \in summaries[owner[c[1]]]
        \/ \E row \in turns : row.key = owner[c[1]] /\ Content(row) = c
    BY <2>1 DEF IInv, KeptOK
  <2>4. owner[c[1]] # key
    BY <2>1, <2>3 DEF Said, RowsOf
  <2>5. \A row \in turns : row.key = owner[c[1]] => row \in turns'
    BY <1>1, <2>4 DEF RowsOf
  <2> QED
    BY <1>2, <2>2, <2>3, <2>4, <2>5
<1>7. \A k \in Keys : Undisturbed(k)
  BY <1>1, <1>2 DEF Undisturbed
<1> QED
  BY <1>4, <1>5, <1>6, <1>7, SlotsStay DEF IInv

(* Steps that leave the tables and the slots alone.                          *)
LEMMA QuietStep ==
  ASSUME IInv, UNCHANGED <<tables, slot, does, owner, appended, erased, crowded, unseen>>,
         agents' \subseteq AgentNames, cleaning' \subseteq Keys
  PROVE  IInv'
<1>1. UNCHANGED <<turns, summaries, results>>
  BY DEF tables
<1>2. TablesTyped' /\ TablesWalled' /\ KeptOK'
  BY <1>1, TablesStay DEF IInv
<1>3. \A k \in Keys : Undisturbed(k)
  BY <1>1 DEF Undisturbed
<1> QED
  BY <1>2, <1>3, SlotsStay DEF IInv

LEMMA CrashStep ==
  ASSUME IInv, Crash
  PROVE  IInv'
<1>1. /\ slot' = [s \in Slots |-> Idle] /\ cleaning' = {}
      /\ UNCHANGED <<turns, summaries, agents, does, owner, appended, erased, crowded, unseen>>
  BY DEF Crash, history
<1>2. /\ results' \in [1..MaxResults -> {None} \cup Result]
      /\ \A i \in 1..MaxResults : results'[i] # None => results'[i] = results[i]
  BY DEF Crash, IInv, TablesTyped
<1>3. TablesTyped'
  BY <1>1, <1>2 DEF IInv, TablesTyped
<1>4. TablesWalled'
  BY <1>1, <1>2 DEF IInv, TablesWalled, SaidIn
<1>5. KeptOK'
  BY <1>1 DEF IInv, KeptOK
<1>6. ASSUME NEW s \in Slots
      PROVE  SlotOK(slot[s])'
  <2>1. PICK r : r = Idle
    OBVIOUS
  <2>2. SlotOK(r) /\ r.at = "idle" /\ slot'[s] = r
    BY <1>1, <2>1, IdleOK
  <2>3. OwnersKept
    BY <1>1 DEF OwnersKept
  <2>4. SlotOK(r)'
    BY <1>1, <2>2, <2>3, SlotKept
  <2> QED
    BY <2>2, <2>4, SlotIs
<1>7. SlotsOK'
  BY <1>1, <1>6, IdleOK DEF SlotsOK
<1>8. AloneOK'
  BY <1>1, IdleOK DEF AloneOK
<1> QED
  BY <1>3, <1>4, <1>5, <1>7, <1>8 DEF IInv

(***************************************************************************)
(* The invariant holds                                                     *)
(***************************************************************************)
LEMMA InvariantInit == Init => IInv
<1> SUFFICES ASSUME Init
             PROVE  IInv
  OBVIOUS
<1>1. TablesTyped
  <2>1. MaxRuns \in Nat /\ 0 \in 0..MaxRuns
    BY ConversationAssumption
  <2>2. \A r \in Runs : owner[r] # None <=> r <= 0
    BY <2>1 DEF Init, Runs
  <2>3. /\ turns \subseteq Rows /\ IsFiniteSet(turns) /\ summaries \in [Keys -> SUBSET Contents]
        /\ results \in [1..MaxResults -> {None} \cup Result]
        /\ owner \in [Runs -> Keys \cup {None}] /\ appended \subseteq Contents
    BY FS_EmptySet DEF Init
  <2>4. agents \subseteq AgentNames /\ cleaning \subseteq Keys /\ does \in Workloads
    BY ConversationAssumption DEF Init
  <2> QED
    BY <2>1, <2>2, <2>3, <2>4 DEF TablesTyped
<1>2. TablesWalled /\ KeptOK
  BY DEF Init, TablesWalled, SaidIn, KeptOK
<1>3. SlotsOK
  BY IdleOK DEF Init, SlotsOK
<1>4. AloneOK
  BY IdleOK DEF Init, AloneOK
<1> QED
  BY <1>1, <1>2, <1>3, <1>4 DEF IInv

LEMMA InvariantNext == IInv /\ [Next]_vars => IInv'
<1> SUFFICES ASSUME IInv, [Next]_vars
             PROVE  IInv'
  OBVIOUS
<1>1. ASSUME NEW s \in Slots, Run(s)
      PROVE  IInv'
  <2>1. ASSUME NEW key \in Keys, NEW a \in AgentNames, Chat(s, key, a)
        PROVE  IInv'
    BY <1>1, <2>1, ChatStep
  <2>2. ASSUME LoadSummary(s) \/ LoadRecent(s) \/ WithinBudget(s) \/ OverBudget(s)
        PROVE  IInv'
    BY <1>1, <2>2, LoadSummaryStep, LoadRecentStep, WithinBudgetStep, OverBudgetStep
  <2>3. ASSUME FoldFails(s) \/ FoldAnswers(s) \/ WriteSummary(s) \/ PruneTurns(s)
        PROVE  IInv'
    BY <1>1, <2>3, FoldFailsStep, FoldAnswersStep, WriteSummaryStep, PruneTurnsStep
  <2>4. ASSUME CompressContext(s) \/ CompressReads(s)
        PROVE  IInv'
    BY <1>1, <2>4, CompressContextStep, CompressReadsStep
  <2>5. ASSUME NEW a \in AgentNames, Delegate(s, a)
        PROVE  IInv'
    BY <1>1, <2>5, DelegateStep
  <2>6. ASSUME Return(s) \/ Hangup(s) \/ StoreResult(s)
        PROVE  IInv'
    BY <1>1, <2>6, ReturnStep, HangupStep, StoreResultStep
  <2>7. ASSUME NEW i \in DOMAIN results, ReadResult(s, i)
        PROVE  IInv'
    BY <1>1, <2>7, ReadResultStep
  <2>8. ASSUME AppendUser(s) \/ AppendAssistant(s) \/ Throws(s)
        PROVE  IInv'
    BY <1>1, <2>8, AppendUserStep, AppendAssistantStep, ThrowsStep
  <2> QED
    BY <1>1, <2>1, <2>2, <2>3, <2>4, <2>5, <2>6, <2>7, <2>8 DEF Run
<1>2. ASSUME NEW key \in Keys, Erase(key)
      PROVE  IInv'
  <2>1. cleaning' \subseteq Keys
    BY <1>2 DEF Erase, IInv, TablesTyped
  <2> QED
    BY <1>2, <2>1, DeleteStep DEF Erase
<1>3. ASSUME NEW key \in Keys, DropCron(key)
      PROVE  IInv'
  <2>1. cleaning' \subseteq Keys
    BY <1>3 DEF DropCron, IInv, TablesTyped
  <2> QED
    BY <1>3, <2>1, DeleteStep DEF DropCron
<1>4. ASSUME CollectCron
      PROVE  IInv'
  <2>1. cleaning' \subseteq Keys /\ agents' \subseteq AgentNames
    BY <1>4 DEF CollectCron, IInv, TablesTyped
  <2> QED
    BY <1>4, <2>1, QuietStep DEF CollectCron, history
<1>5. ASSUME Reload
      PROVE  IInv'
  <2>1. cleaning' \subseteq Keys /\ agents' \subseteq AgentNames
    BY <1>5 DEF Reload, IInv, TablesTyped
  <2> QED
    BY <1>5, <2>1, QuietStep DEF Reload, history
<1>6. CASE UNCHANGED vars
  <2>1. cleaning' \subseteq Keys /\ agents' \subseteq AgentNames
    BY <1>6 DEF vars, IInv, TablesTyped
  <2> QED
    BY <1>6, <2>1, QuietStep DEF vars, history
<1> QED
  BY <1>1, <1>2, <1>3, <1>4, <1>5, <1>6, CrashStep DEF Next

LEMMA Invariant == Spec => []IInv
BY InvariantInit, InvariantNext, PTL DEF Spec

(* The tables keep their types, slots their stages, and no chain of          *)
(* delegation is longer than the guard allows.                              *)
THEOREM TypeCorrect == Spec => []TypeOK
<1>1. IInv => TypeOK
  <2> SUFFICES ASSUME IInv
               PROVE  TypeOK
    OBVIOUS
  <2>1. ASSUME NEW s \in Slots
        PROVE  /\ slot[s].at \in Stages /\ slot[s].ends \in Outcomes
               /\ slot[s].at # "idle" => slot[s].key \in Keys /\ slot[s].run \in Runs
               /\ Len(slot[s].frames) \in 0..(MaxDelegationDepth + 1)
    <3>1. slot[s] \in SlotRecord /\ SlotTyped(slot[s])
      BY SlotFacts DEF SlotOK
    <3>2. slot[s].frames \in Seq(FrameRecord)
      BY <3>1 DEF SlotRecord
    <3>3. Len(slot[s].frames) \in Nat /\ Len(slot[s].frames) <= MaxDelegationDepth + 1
      BY <3>1, <3>2 DEF SlotTyped
    <3> QED
      BY <3>1, <3>3, ConversationAssumption DEF SlotTyped, SlotRecord
  <2>2. /\ turns \subseteq Rows /\ summaries \in [Keys -> SUBSET Contents]
        /\ results \in [1..MaxResults -> {None} \cup [key : Keys, run : Runs]]
        /\ agents \subseteq AgentNames /\ cleaning \subseteq Keys
    BY DEF IInv, TablesTyped, Result
  <2> QED
    BY <2>1, <2>2 DEF TypeOK
<1> QED
  BY <1>1, Invariant, PTL

(* Nothing a run is shown, folds, fetches or lists was said in another       *)
(* conversation or by another account.                                      *)
THEOREM WallHolds == Spec => []ContextWall
<1>1. IInv => ContextWall
  <2> SUFFICES ASSUME IInv
               PROVE  ContextWall
    OBVIOUS
  <2>1. ASSUME NEW s \in Slots, slot[s].at # "idle",
               NEW c \in Shown(s) \cup (Said(slot[s].fold.recent) \cup slot[s].fold.summary)
        PROVE  owner[c[1]] = slot[s].key
    <3>1. SlotWalled(slot[s])
      BY <2>1, SlotFacts DEF SlotOK
    <3>2. ASSUME NEW rows, OwnRows(slot[s].key, rows), c \in Said(rows)
          PROVE  owner[c[1]] = slot[s].key
      BY <3>2 DEF OwnRows, Said, Content
    <3>3. CASE c \in Said(slot[s].fold.recent)
      BY <2>1, <3>1, <3>2, <3>3 DEF SlotWalled
    <3>4. CASE c \in slot[s].fold.summary
      BY <2>1, <3>1, <3>4 DEF SlotWalled, SaidIn
    <3>5. CASE c \in Shown(s)
      <4>1. PICK i \in DOMAIN slot[s].frames :
              c \in Said(slot[s].frames[i].recent) \cup slot[s].frames[i].summary
        BY <3>5 DEF Shown
      <4> QED
        BY <2>1, <3>1, <3>2, <4>1 DEF SlotWalled, SaidIn
    <3> QED
      BY <2>1, <3>3, <3>4, <3>5
  <2>2. ASSUME NEW s \in Slots, slot[s].at # "idle", NEW r \in slot[s].fetched
        PROVE  owner[r] = slot[s].key
    BY <2>2, SlotFacts DEF SlotOK, SlotWalled
  <2>3. ASSUME NEW u \in Users, NEW l \in ListSessions(u, TRUE), NEW row \in l.preview
        PROVE  owner[row.run] = <<u, l.session>>
    <3>1. PICK k \in Keys :
            /\ k[1] = u /\ l.session = k[2]
            /\ l.preview = Earliest({said \in RowsOf(k) : said.role = "user"})
      BY <2>3 DEF ListSessions
    <3>2. row \in turns /\ row.key = k
      BY <2>3, <3>1 DEF Earliest, RowsOf
    <3>3. k = <<k[1], k[2]>>
      BY DEF Keys
    <3> QED
      BY <3>1, <3>2, <3>3 DEF IInv, TablesWalled
  <2> QED
    BY <2>1, <2>2, <2>3 DEF ContextWall
<1> QED
  BY <1>1, Invariant, PTL

(* A conversation held one run at a time loses no turn to compression but    *)
(* those that a run left out of its window.                                 *)
THEOREM TurnsHold == Spec => []TurnsKeptOrFolded
<1>1. IInv => TurnsKeptOrFolded
  <2> SUFFICES ASSUME IInv, NEW c \in appended \ (erased \cup unseen), owner[c[1]] \notin crowded
               PROVE  c \in summaries[owner[c[1]]] \cup Said(RowsOf(owner[c[1]]))
    BY DEF TurnsKeptOrFolded
  <2> QED
    BY DEF IInv, KeptOK, Said, RowsOf
<1> QED
  BY <1>1, Invariant, PTL

(* Every agent at work was granted, however deep it was reached, and the     *)
(* roster tells the truth of what will be refused.                          *)
THEOREM GrantsAreHeld == Spec => []GrantsHold
<1>1. IInv => GrantsHold
  <2> SUFFICES ASSUME IInv, NEW s \in Slots, slot[s].at = "loop"
               PROVE  /\ \A a \in Roster(s) : Refusal(s, a) \in {None, "depth"}
                      /\ \A a \in Denied(s) : Refusal(s, a) = "permission"
                      /\ \A i \in DOMAIN slot[s].frames :
                           slot[s].frames[i].agent \in MayUse[slot[s].key[1]]
    BY DEF GrantsHold
  <2>1. \A a \in Roster(s) : Refusal(s, a) \in {None, "depth"}
    BY DEF Roster, Refusal
  <2>2. \A a \in Denied(s) : Refusal(s, a) = "permission"
    BY DEF Denied, Refusal
  <2>3. \A i \in DOMAIN slot[s].frames : slot[s].frames[i].agent \in MayUse[slot[s].key[1]]
    BY SlotFacts DEF SlotOK, SlotGranted
  <2> QED
    BY <2>1, <2>2, <2>3
<1> QED
  BY <1>1, Invariant, PTL

(* No answer is made of a specialist's "(stopped by user)".                  *)
THEOREM StopsHold == Spec => []StopIsRelayed
<1>1. IInv => StopIsRelayed
  BY SlotFacts DEF StopIsRelayed, SlotOK, SlotStopped
<1> QED
  BY <1>1, Invariant, PTL
=============================================================================
