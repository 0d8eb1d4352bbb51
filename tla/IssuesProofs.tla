----------------------------- MODULE IssuesProofs -----------------------------
(***************************************************************************)
(* Issues implements IssuePromise, for every set of publications, days,    *)
(* readers, agents, pages and calls: nothing of an issue is posted before  *)
(* every reader has its mail, and no slot on record is posted again.  Every *)
(* link of an issue comes from the pools it was written from, and a block   *)
(* is cut only after the writer was warned.                                 *)
(***************************************************************************)
EXTENDS Issues, FiniteSetTheorems, WellFoundedInduction, TLAPS

(* A non-empty set of natural numbers has a least element.                   *)
LEMMA LeastOf ==
  ASSUME NEW S, S \subseteq Nat, S # {}
  PROVE  \E n \in S : \A m \in S : n <= m
<1>1. IsWellFoundedOn(OpToRel(<, Nat), Nat)
  BY NatLessThanWellFounded, Zenon
<1>2. PICK n \in S : \A m \in S : ~(<<m, n>> \in OpToRel(<, Nat))
  BY <1>1, WFMin, Zenon
<1>3. \A m \in S : ~(m < n)
  BY <1>2, Zenon DEF OpToRel
<1> QED
  BY <1>3

(***************************************************************************)
(* The inductive invariant                                                 *)
(***************************************************************************)
RunOf(S) == [at : RunStates, key : Keys \cup {None}, items : S, mode : Modes,
             left : SUBSET Subscribers]
PosterOf(S) == [at : {"idle", "posting", "saving", "commenting"},
                key : Keys \cup {None}, slot : Slots \cup {0}, items : S,
                todo : SUBSET Slots]

(* The files and what is outside, as far as the promise is about them.      *)
FilesTyped ==
  /\ today \in Days /\ newest \in Publications
  /\ runs \in [Keys -> {"none", "blocked", "rendered", "dry-run", "sent"}]
  /\ posted \in [Keys -> [Slots -> {"none", "pending", "done"}]]
  /\ public \in [Keys -> [Slots -> Nat]]
RunsTyped == \E S : run \in [Agents -> RunOf(S)]

(* Reader s has the mail of issue k.                                        *)
Has(k, s) == \E m \in mails : m.key = k /\ m.to = s

(* A script that mails is at an issue, and every reader is still to get the  *)
(* mail or has it: nobody is skipped on the way to the record.               *)
Flight(r) == r.at # "idle" => r.key \in Keys
Complete(r) == r.at = "mailing" /\ r.mode # "dry" =>
                 \A s \in Subscribers : s \in r.left \/ Has(r.key, s)
RunsOK == RunsTyped /\ \A a \in Agents : Flight(run[a]) /\ Complete(run[a])

(* A record that says sent is true.                                         *)
SentIsMailed == \A k \in Keys : runs[k] = "sent" => k \in Mailed

(* A post is about to go out only where the record allowed it, no other run  *)
(* has taken the slot, and what the poster still owes a comment is on record. *)
PosterOK ==
  /\ \E S : poster \in PosterOf(S)
  /\ poster.at # "idle" =>
       /\ poster.key \in Keys /\ poster.slot \in Slots
       /\ \A s \in poster.todo : posted[poster.key][s] # "none"
  /\ poster.at \in {"posting", "saving"} =>
       poster.key \in Mailed /\ posted[poster.key][poster.slot] = "none"
  /\ poster.at = "saving" => public[poster.key][poster.slot] > 0

IInv == FilesTyped /\ RunsOK /\ SentIsMailed /\ PosterOK

(***************************************************************************)
(* What a step may do to the parts of the invariant                        *)
(***************************************************************************)

(* Mail is not taken back.                                                  *)
LEMMA MailStays ==
  ASSUME mails \subseteq mails'
  PROVE  /\ Mailed \subseteq Mailed'
         /\ \A k, s : Has(k, s) => Has(k, s)'
BY DEF Mailed, Has

(* A call in progress becomes another one; the others go on.                *)
LEMMA TurnFacts ==
  ASSUME RunsOK, mails \subseteq mails', NEW a \in Agents, NEW x, NEW r \in RunOf({x}),
         run' = [run EXCEPT ![a] = r], Flight(r), Complete(r)'
  PROVE  RunsOK'
<1>1. PICK S : run \in [Agents -> RunOf(S)]
  BY DEF RunsOK, RunsTyped
<1>2. run' \in [Agents -> RunOf(S \cup {x})]
  BY <1>1 DEF RunOf
<1>3. run'[a] = r /\ \A b \in Agents : b # a => run'[b] = run[b]
  BY <1>1
<1>4. ASSUME NEW b \in Agents, b # a
      PROVE  Flight(run[b])' /\ Complete(run[b])'
  BY <1>3, <1>4, MailStays DEF RunsOK, Flight, Complete
<1>5. Flight(run[a])' /\ Complete(run[a])'
  BY <1>3 DEF Flight, Complete
<1> QED
  BY <1>2, <1>4, <1>5 DEF RunsOK, RunsTyped

(* What is in progress is a record.                                         *)
LEMMA RunFacts ==
  ASSUME RunsOK, NEW a \in Agents
  PROVE  run[a] \in RunOf({run[a].items}) /\ Flight(run[a]) /\ Complete(run[a])
<1>1. PICK S : run \in [Agents -> RunOf(S)]
  BY DEF RunsOK, RunsTyped
<1> QED
  BY <1>1 DEF RunsOK, RunOf

LEMMA IdleFacts == Idle \in RunOf({<<>>}) /\ Idle.at = "idle"
BY DEF Idle, RunOf, RunStates, Modes

LEMMA RestFacts ==
  ASSUME RunsOK, mails \subseteq mails', NEW a \in Agents, Rest(a)
  PROVE  RunsOK'
BY IdleFacts, TurnFacts DEF Rest, Flight, Complete

LEMMA RunsStay ==
  ASSUME RunsOK, mails \subseteq mails', run' = run
  PROVE  RunsOK'
BY MailStays DEF RunsOK, RunsTyped, Flight, Complete

(* Of the records, only "sent" has to be true.                              *)
LEMMA RecordFacts ==
  ASSUME FilesTyped, SentIsMailed, mails \subseteq mails', NEW k \in Keys,
         NEW status \in {"none", "blocked", "rendered", "dry-run", "sent"},
         runs' = [runs EXCEPT ![k] = status], status = "sent" => k \in Mailed'
  PROVE  /\ runs' \in [Keys -> {"none", "blocked", "rendered", "dry-run", "sent"}]
         /\ SentIsMailed'
<1>1. runs' \in [Keys -> {"none", "blocked", "rendered", "dry-run", "sent"}]
  BY DEF FilesTyped
<1>2. \A j \in Keys : runs'[j] = IF j = k THEN status ELSE runs[j]
  BY DEF FilesTyped
<1> QED
  BY <1>1, <1>2, MailStays DEF SentIsMailed

LEMMA BlockFacts ==
  ASSUME FilesTyped, SentIsMailed, mails \subseteq mails', NEW k \in Keys, Block(k)
  PROVE  /\ runs' \in [Keys -> {"none", "blocked", "rendered", "dry-run", "sent"}]
         /\ SentIsMailed'
<1>1. PICK status : status = IF runs[k] = "sent" THEN runs[k] ELSE "blocked"
  OBVIOUS
<1>2. /\ runs' = [runs EXCEPT ![k] = status]
      /\ status \in {"none", "blocked", "rendered", "dry-run", "sent"}
      /\ status = "sent" => k \in Mailed'
  BY <1>1, MailStays DEF Block, FilesTyped, SentIsMailed
<1> QED
  BY <1>2, RecordFacts

LEMMA RecordsStay ==
  ASSUME SentIsMailed, mails \subseteq mails', runs' = runs
  PROVE  SentIsMailed'
BY MailStays DEF SentIsMailed

(* Nothing but the poster's own steps concerns the poster.                  *)
LEMMA PosterStays ==
  ASSUME PosterOK, mails \subseteq mails', UNCHANGED <<slots, public>>
  PROVE  PosterOK'
BY MailStays DEF PosterOK, slots

(* A call is for an issue.                                                  *)
LEMMA KeyFacts ==
  ASSUME FilesTyped, NEW c \in Calls
  PROVE  KeyOf(c) \in Keys
BY CallsAssumption DEF KeyOf, Keys, FilesTyped

(***************************************************************************)
(* The actions of an agent                                                 *)
(***************************************************************************)

(* What the agents' actions have in common: of what the promise is about,    *)
(* they only deliver mail, and the record and the call stay right.           *)
AgentsStep ==
  /\ mails \subseteq mails' /\ UNCHANGED <<slots, public>>
  /\ FilesTyped' /\ RunsOK' /\ SentIsMailed'

LEMMA HarvestSearchStep ==
  ASSUME IInv, NEW a \in Agents, NEW p \in Publications, HarvestSearch(a, p)
  PROVE  AgentsStep
<1>1. PICK x : run' = [run EXCEPT ![a] = [Idle EXCEPT !.at = "fetching", !.key = <<p, today>>,
                                          !.items = x]]
  BY DEF HarvestSearch
<1>2. PICK k : k = <<p, today>>
  OBVIOUS
<1>3. PICK r : r = [Idle EXCEPT !.at = "fetching", !.key = k, !.items = x]
  OBVIOUS
<1>4. k \in Keys
  BY <1>2 DEF IInv, FilesTyped, Keys
<1>5. r \in RunOf({x}) /\ r.at = "fetching" /\ r.key = k
  BY <1>3, <1>4 DEF Idle, RunOf, RunStates, Modes
<1>6. /\ UNCHANGED <<today, newest, runs, posted, public, mails, poster>>
  BY DEF HarvestSearch, world, files, slots, outside
<1>7. RunsOK'
  BY <1>1, <1>2, <1>3, <1>4, <1>5, <1>6, TurnFacts DEF IInv, Flight, Complete
<1> QED
  BY <1>6, <1>7, RecordsStay DEF IInv, AgentsStep, FilesTyped, slots

LEMMA HarvestPoolStep ==
  ASSUME IInv, NEW a \in Agents, HarvestPool(a)
  PROVE  AgentsStep
<1>1. /\ UNCHANGED <<today, runs, posted, public, mails, poster>> /\ Rest(a)
      /\ newest' \in {newest, run[a].key[1]} /\ run[a].at = "fetching"
  BY DEF HarvestPool, world, slots, outside
<1>2. newest' \in Publications
  <2>1. run[a].key \in Keys
    BY <1>1, RunFacts DEF IInv, Flight
  <2> QED
    BY <1>1, <2>1 DEF IInv, FilesTyped, Keys
<1> QED
  BY <1>1, <1>2, RestFacts, RecordsStay DEF IInv, AgentsStep, FilesTyped, slots

LEMMA RefusedStep ==
  ASSUME IInv, NEW a \in Agents, NEW c \in Calls, PublishTooFew(a, c) \/ PublishRejected(a, c)
  PROVE  AgentsStep
<1>1. /\ UNCHANGED <<today, newest, run, posted, public, mails, poster>> /\ Block(KeyOf(c))
  BY DEF PublishTooFew, PublishRejected, world, slots, outside
<1>2. PICK k \in Keys : k = KeyOf(c)
  BY KeyFacts DEF IInv
<1> QED
  BY <1>1, <1>2, BlockFacts, RunsStay DEF IInv, AgentsStep, FilesTyped, slots

LEMMA PublishBuiltStep ==
  ASSUME IInv, NEW a \in Agents, NEW c \in Calls, PublishBuilt(a, c)
  PROVE  AgentsStep
<1>1. PICK k \in Keys : k = KeyOf(c)
  BY KeyFacts DEF IInv
<1>2. PICK r : r = [Idle EXCEPT !.at = "script", !.key = k, !.mode = c.mode]
  OBVIOUS
<1>3. /\ UNCHANGED <<today, newest, runs, posted, public, mails, poster>>
      /\ run' = [run EXCEPT ![a] = r]
  BY <1>1, <1>2 DEF PublishBuilt, world, slots, outside
<1>4. r \in RunOf({<<>>}) /\ r.at = "script" /\ r.key = k
  BY <1>1, <1>2, CallsAssumption DEF Idle, RunOf, RunStates
<1>5. RunsOK'
  BY <1>3, <1>4, TurnFacts DEF IInv, Flight, Complete
<1> QED
  BY <1>3, <1>5, RecordsStay DEF IInv, AgentsStep, FilesTyped, slots

LEMMA ScriptChecksStep ==
  ASSUME IInv, NEW a \in Agents, ScriptChecks(a)
  PROVE  AgentsStep
<1>0. /\ UNCHANGED <<today, newest, posted, public, mails, poster>>
      /\ run[a].at = "script"
  BY DEF ScriptChecks, world, slots, outside
<1>1. run[a] \in RunOf({run[a].items}) /\ run[a].key \in Keys
  BY <1>0, RunFacts DEF IInv, Flight
<1>2. CASE Rest(a)
  <2>1. PICK status \in {"blocked", "rendered"} :
          runs' = runs \/ runs' = [runs EXCEPT ![run[a].key] = status]
    BY DEF ScriptChecks, WriteRunRecord
  <2>2. /\ runs' \in [Keys -> {"none", "blocked", "rendered", "dry-run", "sent"}]
        /\ SentIsMailed'
    BY <1>0, <1>1, <2>1, RecordFacts, RecordsStay DEF IInv, FilesTyped
  <2> QED
    BY <1>0, <1>2, <2>2, RestFacts DEF IInv, AgentsStep, FilesTyped, slots
<1>3. CASE ~Rest(a)
  <2>1. PICK x : /\ runs' = runs
                 /\ run' = [run EXCEPT ![a].at = "mailing", ![a].items = x,
                              ![a].left = IF run[a].mode = "dry" THEN {} ELSE Subscribers]
    BY <1>3 DEF ScriptChecks
  <2>2. PICK r : r = [run[a] EXCEPT !.at = "mailing", !.items = x,
                        !.left = IF run[a].mode = "dry" THEN {} ELSE Subscribers]
    OBVIOUS
  <2>3. /\ r \in RunOf({x}) /\ r.key = run[a].key
        /\ r.mode # "dry" => r.left = Subscribers
    BY <1>1, <2>2 DEF RunOf, RunStates
  <2>4. run' = [run EXCEPT ![a] = r]
    <3>1. PICK S : run \in [Agents -> RunOf(S)]
      BY DEF IInv, RunsOK, RunsTyped
    <3> QED
      BY <2>1, <2>2, <3>1
  <2>5. RunsOK'
    BY <1>0, <1>1, <2>3, <2>4, TurnFacts DEF IInv, Flight, Complete
  <2> QED
    BY <1>0, <2>1, <2>5, RecordsStay DEF IInv, AgentsStep, FilesTyped, slots
<1> QED
  BY <1>2, <1>3

LEMMA ScriptMailsStep ==
  ASSUME IInv, NEW a \in Agents, ScriptMails(a)
  PROVE  /\ AgentsStep
         /\ run[a].key \in Keys
         /\ \A k, s : k # run[a].key => Has(k, s)' = Has(k, s)
<1>0. /\ UNCHANGED <<today, newest, runs, posted, public, poster>>
      /\ run[a].at = "mailing"
  BY DEF ScriptMails, world, files, slots
<1>1. /\ run[a] \in RunOf({run[a].items}) /\ run[a].key \in Keys
      /\ run[a].mode # "dry" =>
           \A s \in Subscribers : s \in run[a].left \/ Has(run[a].key, s)
  BY <1>0, RunFacts DEF IInv, Flight, Complete
<1>2. PICK s \in run[a].left :
        /\ mails' = mails \cup {[key |-> run[a].key, items |-> run[a].items, to |-> s]}
        /\ run' = [run EXCEPT ![a].left = @ \ {s}]
  BY DEF ScriptMails
<1>3. PICK x, k, left : x = run[a].items /\ k = run[a].key /\ left = run[a].left
  OBVIOUS
<1>4. PICK r : r = [run[a] EXCEPT !.left = left \ {s}]
  OBVIOUS
<1>5. r \in RunOf({x}) /\ r.key = k /\ r.left = left \ {s} /\ r.mode = run[a].mode
  BY <1>1, <1>3, <1>4 DEF RunOf
<1>6. /\ mails \subseteq mails' /\ Has(k, s)'
      /\ \A j, t : j # k => Has(j, t)' = Has(j, t)
  <2>1. PICK m : m = [key |-> k, items |-> x, to |-> s]
    OBVIOUS
  <2>2. m.key = k /\ m.to = s /\ mails' = mails \cup {m}
    BY <1>2, <1>3, <2>1
  <2> QED
    BY <2>2 DEF Has
<1>7. Complete(r)'
  BY <1>1, <1>3, <1>5, <1>6, MailStays DEF Complete
<1>8. Flight(r)
  BY <1>1, <1>3, <1>5 DEF Flight
<1>9. RunsOK'
  <2>1. run' = [run EXCEPT ![a] = r]
    BY <1>2, <1>3, <1>4
  <2> QED
    BY <1>5, <1>6, <1>7, <1>8, <2>1, TurnFacts DEF IInv
<1> QED
  BY <1>0, <1>1, <1>3, <1>6, <1>9, RecordsStay DEF IInv, AgentsStep, FilesTyped, slots

LEMMA ScriptEndsStep ==
  ASSUME IInv, NEW a \in Agents,
         ScriptMailFails(a) \/ ScriptRecords(a) \/ ScriptTimesOut(a)
  PROVE  AgentsStep
<1>0. /\ UNCHANGED <<today, newest, posted, public, mails, poster>> /\ Rest(a)
      /\ run[a].at # "idle"
  BY DEF ScriptMailFails, ScriptRecords, ScriptTimesOut, world, slots, outside
<1>1. run[a] \in RunOf({run[a].items}) /\ run[a].key \in Keys /\ Complete(run[a])
  BY <1>0, RunFacts DEF IInv, Flight
<1>2. RunsOK'
  BY <1>0, RestFacts DEF IInv
<1>3. CASE ScriptMailFails(a)
  BY <1>0, <1>1, <1>2, <1>3, RecordFacts
     DEF ScriptMailFails, WriteRunRecord, IInv, AgentsStep, FilesTyped, slots
<1>4. CASE ScriptTimesOut(a)
  BY <1>0, <1>1, <1>2, <1>4, BlockFacts DEF ScriptTimesOut, IInv, AgentsStep, FilesTyped, slots
<1>5. CASE ScriptRecords(a)
  <2>1. PICK status : status = IF run[a].mode = "dry" THEN "dry-run" ELSE "sent"
    OBVIOUS
  <2>2. run[a].mode # "dry" => run[a].key \in Mailed
    BY <1>1, <1>5 DEF ScriptRecords, Complete, Mailed, Has
  <2>3. /\ status \in {"none", "blocked", "rendered", "dry-run", "sent"}
        /\ runs' = [runs EXCEPT ![run[a].key] = status]
        /\ status = "sent" => run[a].key \in Mailed
    BY <1>5, <2>1, <2>2 DEF ScriptRecords, WriteRunRecord
  <2>4. PICK k \in Keys : k = run[a].key
    BY <1>1
  <2>5. status = "sent" => k \in Mailed'
    BY <1>0, <2>3, <2>4, MailStays
  <2> QED
    BY <1>0, <1>2, <2>3, <2>4, <2>5, RecordFacts DEF IInv, AgentsStep, FilesTyped, slots
<1> QED
  BY <1>3, <1>4, <1>5

(***************************************************************************)
(* The actions of the poster                                               *)
(***************************************************************************)

(* What they have in common: the agents and the mail are left alone.        *)
PostersStep ==
  /\ UNCHANGED <<today, newest, runs, run, mails>>
  /\ posted' \in [Keys -> [Slots -> {"none", "pending", "done"}]]
  /\ public' \in [Keys -> [Slots -> Nat]]
  /\ PosterOK'

LEMMA PosterFacts ==
  ASSUME PosterOK
  PROVE  poster \in PosterOf({poster.items})
BY DEF PosterOK, PosterOf

(* A run that ended leaves nothing behind.                                  *)
LEMMA NoSlotFacts ==
  ASSUME poster' = NoSlot
  PROVE  PosterOK'
<1>1. NoSlot \in PosterOf({<<>>}) /\ NoSlot.at = "idle"
  BY DEF NoSlot, PosterOf
<1> QED
  BY <1>1 DEF PosterOK

LEMMA PostLoadStep ==
  ASSUME IInv, NEW p \in Publications, NEW s \in Slots, PostLoad(p, s)
  PROVE  PostersStep /\ UNCHANGED <<posted, public>>
<1>1. PICK k : k = <<p, today>>
  OBVIOUS
<1>2. k \in Keys
  BY <1>1 DEF IInv, FilesTyped, Keys
<1>3. PICK x, todo, at : /\ x = issues[k] /\ todo = Owed(k)
                         /\ at = IF posted[k][s] # "none" THEN "commenting" ELSE "posting"
  OBVIOUS
<1>4. /\ runs[k] = "sent"
      /\ poster' = [at |-> at, key |-> k, slot |-> s, items |-> x, todo |-> todo]
  BY <1>1, <1>3 DEF PostLoad, MayPost
<1>5. /\ UNCHANGED <<today, newest, runs, run, mails, posted, public>>
  BY DEF PostLoad, world, files, outside
<1>6. todo \subseteq Slots /\ \A t \in todo : posted[k][t] # "none"
  BY <1>3 DEF Owed
<1>7. /\ poster' \in PosterOf({x}) /\ poster'.key = k /\ poster'.slot = s
      /\ poster'.todo = todo /\ poster'.at \in {"posting", "commenting"}
      /\ poster'.at = "posting" => posted[k][s] = "none"
  BY <1>2, <1>3, <1>4, <1>6 DEF PosterOf
<1>8. k \in Mailed'
  BY <1>2, <1>4, <1>5, MailStays DEF IInv, SentIsMailed
<1>9. PosterOK'
  BY <1>2, <1>5, <1>6, <1>7, <1>8 DEF PosterOK
<1> QED
  BY <1>5, <1>9 DEF IInv, FilesTyped, PostersStep

(* A post adds one to its slot's count; posting it is the abstract Post.     *)
LEMMA PublicFacts ==
  ASSUME FilesTyped, NEW k \in Keys, NEW s \in Slots,
         public' = [public EXCEPT ![k][s] = @ + 1]
  PROVE  public' \in [Keys -> [Slots -> Nat]] /\ public'[k][s] > 0
BY DEF FilesTyped

LEMMA PostStep ==
  ASSUME IInv, PostToLinkedIn \/ PostFails
  PROVE  /\ PostersStep /\ posted' = posted
         /\ poster.key \in Keys /\ poster.slot \in Slots
         /\ poster.key \in Mailed /\ posted[poster.key][poster.slot] = "none"
         /\ \/ public' = public
            \/ public' = [public EXCEPT ![poster.key][poster.slot] = @ + 1]
<1>1. /\ UNCHANGED <<today, newest, runs, run, mails, posted>> /\ poster.at = "posting"
      /\ \/ public' = public
         \/ public' = [public EXCEPT ![poster.key][poster.slot] = @ + 1]
  BY DEF PostToLinkedIn, PostFails, world, files, outside
<1>2. /\ poster.key \in Keys /\ poster.slot \in Slots
      /\ \A t \in poster.todo : posted[poster.key][t] # "none"
      /\ poster.key \in Mailed /\ posted[poster.key][poster.slot] = "none"
  BY <1>1 DEF IInv, PosterOK
<1>3. public' \in [Keys -> [Slots -> Nat]]
  BY <1>1, <1>2, PublicFacts DEF IInv, FilesTyped
<1>4. PosterOK'
  <2>1. CASE PostFails
    BY <2>1, NoSlotFacts DEF PostFails
  <2>2. CASE PostToLinkedIn
    <3>1. PICK k, s, x, todo : k = poster.key /\ s = poster.slot /\ x = poster.items
                               /\ todo = poster.todo
      OBVIOUS
    <3>2. public'[k][s] > 0
      BY <1>2, <2>2, <3>1, PublicFacts DEF IInv, PostToLinkedIn
    <3>3. /\ poster' \in PosterOf({x}) /\ poster'.key = k /\ poster'.slot = s
          /\ poster'.todo = todo /\ poster'.at = "saving"
      BY <2>2, <3>1, PosterFacts DEF IInv, PostToLinkedIn, PosterOf
    <3>4. k \in Mailed'
      BY <1>1, <1>2, <3>1, MailStays
    <3> QED
      BY <1>1, <1>2, <3>1, <3>2, <3>3, <3>4 DEF PosterOK
  <2> QED
    BY <2>1, <2>2
<1> QED
  BY <1>1, <1>2, <1>3, <1>4 DEF IInv, FilesTyped, PostersStep

LEMMA SavePostedStep ==
  ASSUME IInv, SavePosted
  PROVE  /\ PostersStep /\ public' = public
         /\ poster.key \in Keys /\ poster.slot \in Slots
         /\ public[poster.key][poster.slot] > 0
         /\ posted' = [posted EXCEPT ![poster.key][poster.slot] = "pending"]
<1>1. /\ UNCHANGED <<today, newest, runs, run, mails, public>> /\ poster.at = "saving"
      /\ posted' = [posted EXCEPT ![poster.key][poster.slot] = "pending"]
      /\ poster' = [poster EXCEPT !.at = "commenting", !.todo = @ \cup {poster.slot}]
  BY DEF SavePosted, world, files, outside
<1>2. PICK k, s, x, todo : k = poster.key /\ s = poster.slot /\ x = poster.items
                           /\ todo = poster.todo
  OBVIOUS
<1>3. /\ k \in Keys /\ s \in Slots /\ public[k][s] > 0
      /\ \A t \in todo : posted[k][t] # "none"
  BY <1>1, <1>2 DEF IInv, PosterOK
<1>4. todo \subseteq Slots
  BY <1>2, PosterFacts DEF IInv, PosterOf
<1>5. /\ poster' \in PosterOf({x}) /\ poster'.key = k /\ poster'.slot = s
      /\ poster'.todo = todo \cup {s} /\ poster'.at = "commenting"
  BY <1>1, <1>2, <1>3, PosterFacts DEF IInv, PosterOf
<1>6. /\ posted' \in [Keys -> [Slots -> {"none", "pending", "done"}]]
      /\ \A t \in todo \cup {s} : posted'[k][t] # "none"
  BY <1>1, <1>2, <1>3, <1>4 DEF IInv, FilesTyped
<1>7. PosterOK'
  BY <1>3, <1>5, <1>6 DEF PosterOK
<1> QED
  BY <1>1, <1>2, <1>3, <1>6, <1>7 DEF IInv, FilesTyped, PostersStep

LEMMA FinishCommentStep ==
  ASSUME IInv, FinishComment
  PROVE  /\ PostersStep /\ public' = public
         /\ \A k \in Keys, s \in Slots : (posted'[k][s] # "none") = (posted[k][s] # "none")
<1>1. PICK k, s, x, todo : k = poster.key /\ s = Least(poster.todo) /\ x = poster.items
                           /\ todo = poster.todo
  OBVIOUS
<1>2. /\ UNCHANGED <<today, newest, runs, run, mails, public>> /\ poster.at = "commenting"
      /\ posted' = posted \/ posted' = [posted EXCEPT ![k][s] = "done"]
      /\ poster' = NoSlot \/ poster' = [poster EXCEPT !.todo = todo \ {s}]
      /\ todo # {}
  BY <1>1 DEF FinishComment, world, files
<1>3. todo \subseteq Slots /\ k \in Keys /\ \A t \in todo : posted[k][t] # "none"
  BY <1>1, <1>2, PosterFacts DEF IInv, PosterOK, PosterOf
<1>4. s \in todo
  <2>1. todo \subseteq Nat
    BY <1>3 DEF Slots
  <2>2. \E n \in todo : \A m \in todo : n <= m
    BY <1>2, <2>1, LeastOf
  <2> QED
    BY <1>1, <2>2 DEF Least
<1>5. /\ posted' \in [Keys -> [Slots -> {"none", "pending", "done"}]]
      /\ \A j \in Keys, t \in Slots : (posted'[j][t] # "none") = (posted[j][t] # "none")
  <2>1. CASE posted' = posted
    BY <2>1 DEF IInv, FilesTyped
  <2>2. CASE posted' = [posted EXCEPT ![k][s] = "done"]
    BY <1>3, <1>4, <2>2 DEF IInv, FilesTyped
  <2> QED
    BY <1>2, <2>1, <2>2
<1>6. PosterOK'
  <2>1. CASE poster' = NoSlot
    BY <2>1, NoSlotFacts
  <2>2. CASE poster' = [poster EXCEPT !.todo = todo \ {s}]
    <3>1. /\ poster' \in PosterOf({x}) /\ poster'.key = k /\ poster'.slot = poster.slot
          /\ poster'.todo = todo \ {s} /\ poster'.at = "commenting"
      BY <1>1, <1>2, <1>3, <2>2, PosterFacts DEF IInv, PosterOf
    <3>2. poster.slot \in Slots
      BY <1>2 DEF IInv, PosterOK
    <3> QED
      BY <1>3, <1>5, <3>1, <3>2 DEF PosterOK
  <2> QED
    BY <1>2, <2>1, <2>2
<1> QED
  BY <1>2, <1>5, <1>6 DEF IInv, FilesTyped, PostersStep

LEMMA PosterDiesStep ==
  ASSUME IInv, PosterDies
  PROVE  PostersStep /\ UNCHANGED <<posted, public>>
<1>1. UNCHANGED <<today, newest, runs, run, mails, posted, public>>
  BY DEF PosterDies, world, files, outside
<1> QED
  BY <1>1, NoSlotFacts DEF PosterDies, IInv, FilesTyped, PostersStep

(* The steps around them.                                                   *)
LEMMA OtherStep ==
  ASSUME IInv, NextDay \/ LinkDies \/ ServerDies \/ UNCHANGED vars
  PROVE  IInv' /\ UNCHANGED <<mails, posted, public>>
<1>1. UNCHANGED <<newest, runs, posted, public, mails, poster>>
  BY DEF NextDay, LinkDies, ServerDies, vars, files, outside, slots
<1>2. today' \in Days
  BY IssuesAssumption DEF NextDay, LinkDies, ServerDies, vars, world, IInv, FilesTyped, Days
<1>3. RunsOK'
  <2>1. CASE run' = run
    BY <1>1, <2>1, RunsStay DEF IInv
  <2>2. CASE run' # run
    <3>1. run' = [a \in Agents |-> Idle]
      BY <2>2 DEF NextDay, LinkDies, ServerDies, vars
    <3>2. run' \in [Agents -> RunOf({<<>>})]
      BY <3>1, IdleFacts
    <3> QED
      BY <3>1, <3>2, IdleFacts DEF RunsOK, RunsTyped, Flight, Complete
  <2> QED
    BY <2>1, <2>2
<1> QED
  BY <1>1, <1>2, <1>3, RecordsStay, PosterStays DEF IInv, FilesTyped, slots

(***************************************************************************)
(* The refinement                                                          *)
(***************************************************************************)
LEMMA InvariantInit == Init => IInv
<1> SUFFICES ASSUME Init PROVE IInv
  OBVIOUS
<1>1. FilesTyped
  BY IssuesAssumption DEF Init, FilesTyped, Days
<1>2. RunsOK
  BY IdleFacts DEF Init, RunsOK, RunsTyped, Flight, Complete
<1>3. SentIsMailed
  BY DEF Init, SentIsMailed
<1>4. PosterOK
  <2>1. NoSlot \in PosterOf({<<>>}) /\ NoSlot.at = "idle"
    BY DEF NoSlot, PosterOf
  <2> QED
    BY <2>1 DEF Init, PosterOK
<1> QED
  BY <1>1, <1>2, <1>3, <1>4 DEF IInv

(* Nothing is mailed, posted or on record at first, and there are readers.   *)
LEMMA PromiseInit == Init => Promise!Init
<1> SUFFICES ASSUME Init PROVE Promise!Init
  OBVIOUS
<1>1. Mailed = {}
  BY ReadersAssumption DEF Init, Mailed
<1>2. Recorded = {}
  BY DEF Init, Recorded
<1> QED
  BY <1>1, <1>2 DEF Init, Promise!Init

(* A step of an agent is no step of the promise, or the one that mails.      *)
LEMMA AgentPromise ==
  ASSUME IInv, NEW a \in Agents, AgentStep(a)
  PROVE  AgentsStep /\ [Promise!Next]_(Promise!promised)
<1>1. CASE ScriptMails(a)
  <2>1. /\ AgentsStep /\ run[a].key \in Keys
        /\ \A k, s : k # run[a].key => Has(k, s)' = Has(k, s)
    BY <1>1, ScriptMailsStep
  <2>2. PICK k \in Keys : k = run[a].key
    BY <2>1
  <2>3. Mailed' \in {Mailed, Mailed \cup {k}}
    <3>1. Mailed \subseteq Mailed'
      BY <2>1, MailStays DEF AgentsStep
    <3>2. \A j \in Mailed' : j = k \/ j \in Mailed
      BY <2>1, <2>2 DEF Mailed, Has
    <3> QED
      BY <2>2, <3>1, <3>2 DEF Mailed
  <2>4. public' = public /\ Recorded' = Recorded
    BY <2>1 DEF AgentsStep, slots, Recorded
  <2>5. CASE Mailed' = Mailed
    BY <2>1, <2>4, <2>5 DEF Promise!promised
  <2>6. CASE Mailed' = Mailed \cup {k}
    BY <2>1, <2>4, <2>6 DEF Promise!Next, Promise!Mail
  <2> QED
    BY <2>3, <2>5, <2>6
<1>2. CASE ~ScriptMails(a)
  <2>1. AgentsStep
    BY <1>2, HarvestSearchStep, HarvestPoolStep, RefusedStep, PublishBuiltStep,
       ScriptChecksStep, ScriptEndsStep DEF AgentStep
  <2>2. mails' = mails
    BY <1>2 DEF AgentStep, HarvestSearch, HarvestPool, PublishTooFew, PublishRejected,
                PublishBuilt, ScriptChecks, ScriptMailFails, ScriptRecords, ScriptTimesOut,
                outside
  <2>3. Mailed' = Mailed /\ public' = public /\ Recorded' = Recorded
    BY <2>1, <2>2 DEF Mailed, Recorded, AgentsStep, slots
  <2> QED
    BY <2>1, <2>3 DEF Promise!promised
<1> QED
  BY <1>1, <1>2

(* A step of the poster is none, or posts a slot that is due and not on      *)
(* record, or puts on record one that was posted.                           *)
LEMMA PosterPromise ==
  ASSUME IInv, PosterStep
  PROVE  PostersStep /\ [Promise!Next]_(Promise!promised)
<1>1. ASSUME PostersStep PROVE Mailed' = Mailed
  BY <1>1 DEF PostersStep, Mailed
<1>2. ASSUME posted' = posted PROVE Recorded' = Recorded
  BY <1>2 DEF Recorded
<1>3. ASSUME NEW p \in Publications, NEW s \in Slots, PostLoad(p, s)
      PROVE  PostersStep /\ [Promise!Next]_(Promise!promised)
  BY <1>1, <1>2, <1>3, PostLoadStep DEF Promise!promised
<1>4. CASE PosterDies
  BY <1>1, <1>2, <1>4, PosterDiesStep DEF Promise!promised
<1>5. CASE PostToLinkedIn \/ PostFails
  <2>1. /\ PostersStep /\ posted' = posted
        /\ poster.key \in Keys /\ poster.slot \in Slots
        /\ poster.key \in Mailed /\ posted[poster.key][poster.slot] = "none"
        /\ \/ public' = public
           \/ public' = [public EXCEPT ![poster.key][poster.slot] = @ + 1]
    BY <1>5, PostStep
  <2>2. <<poster.key, poster.slot>> \notin Recorded
    BY <2>1 DEF Recorded
  <2>3. CASE public' = public
    BY <1>1, <1>2, <2>1, <2>3 DEF Promise!promised
  <2>4. CASE public' = [public EXCEPT ![poster.key][poster.slot] = @ + 1]
    BY <1>1, <1>2, <2>1, <2>2, <2>4 DEF Promise!Next, Promise!Post
  <2> QED
    BY <2>1, <2>3, <2>4
<1>6. CASE SavePosted
  <2>1. /\ PostersStep /\ public' = public
        /\ poster.key \in Keys /\ poster.slot \in Slots
        /\ public[poster.key][poster.slot] > 0
        /\ posted' = [posted EXCEPT ![poster.key][poster.slot] = "pending"]
    BY <1>6, SavePostedStep
  <2>2. Recorded' = Recorded \cup {<<poster.key, poster.slot>>}
    <3>1. \A e \in Keys \X Slots : posted'[e[1]][e[2]] =
            IF e = <<poster.key, poster.slot>> THEN "pending" ELSE posted[e[1]][e[2]]
      BY <2>1 DEF IInv, FilesTyped
    <3> QED
      BY <2>1, <3>1 DEF Recorded
  <2> QED
    BY <1>1, <2>1, <2>2 DEF Promise!Next, Promise!Record
<1>7. CASE FinishComment
  <2>1. /\ PostersStep /\ public' = public
        /\ \A k \in Keys, s \in Slots : (posted'[k][s] # "none") = (posted[k][s] # "none")
    BY <1>7, FinishCommentStep
  <2>2. Recorded' = Recorded
    BY <2>1 DEF Recorded
  <2> QED
    BY <1>1, <2>1, <2>2 DEF Promise!promised
<1> QED
  BY <1>3, <1>4, <1>5, <1>6, <1>7 DEF PosterStep

LEMMA StepFacts ==
  IInv /\ [Next]_vars => IInv' /\ [Promise!Next]_(Promise!promised)
<1> SUFFICES ASSUME IInv, [Next]_vars
             PROVE  IInv' /\ [Promise!Next]_(Promise!promised)
  OBVIOUS
<1>1. ASSUME NEW a \in Agents, AgentStep(a)
      PROVE  IInv' /\ [Promise!Next]_(Promise!promised)
  BY <1>1, AgentPromise, PosterStays DEF IInv, AgentsStep
<1>2. CASE PosterStep
  <2>1. PostersStep /\ [Promise!Next]_(Promise!promised)
    BY <1>2, PosterPromise
  <2>2. FilesTyped' /\ RunsOK' /\ SentIsMailed' /\ PosterOK'
    BY <2>1, RunsStay, RecordsStay DEF PostersStep, IInv, FilesTyped
  <2> QED
    BY <2>1, <2>2 DEF IInv
<1>3. CASE NextDay \/ LinkDies \/ ServerDies \/ UNCHANGED vars
  <2>1. IInv' /\ UNCHANGED <<mails, posted, public>>
    BY <1>3, OtherStep
  <2> QED
    BY <2>1 DEF Mailed, Recorded, Promise!promised
<1> QED
  BY <1>1, <1>2, <1>3 DEF Next

(***************************************************************************)
(* Going through a list: a shortlist, the fetches, a selection, a repair.   *)
(* The list is of any length, so each is reasoned about by its steps.       *)
(***************************************************************************)

(* Going through a list: what holds before the first step and is kept by     *)
(* each holds all the way.                                                   *)
LEMMA StepsStay ==
  ASSUME NEW N \in Nat, NEW S, NEW g, g[0] \in S[0],
         \A n \in 1..N : g[n - 1] \in S[n - 1] => g[n] \in S[n]
  PROVE  \A n \in 0..N : g[n] \in S[n]
<1> DEFINE Bad == {n \in 0..N : g[n] \notin S[n]}
<1>1. SUFFICES ASSUME Bad # {} PROVE FALSE
  OBVIOUS
<1>2. PICK n \in Bad : \A m \in Bad : n <= m
  <2>1. Bad \subseteq Nat
    OBVIOUS
  <2> HIDE DEF Bad
  <2> QED
    BY <1>1, <2>1, LeastOf
<1>3. n \in 1..N /\ n - 1 \in 0..N /\ n - 1 \notin Bad
  BY <1>2
<1> QED
  BY <1>2, <1>3

(* Such a way exists: the values after each step of a list.                  *)
KeepsTo(N, S, F) == \A n \in 1..N : \A x \in S[n - 1] : F[n][x] \in S[n]
Steps(N, S, init, F, g) ==
  /\ g = [n \in 0..N |-> g[n]]
  /\ g[0] = init /\ \A n \in 1..N : g[n] = F[n][g[n - 1]]
  /\ \A n \in 0..N : g[n] \in S[n]
LEMMA StepsExist ==
  ASSUME NEW N \in Nat, NEW S, NEW init \in S[0], NEW F, KeepsTo(N, S, F)
  PROVE  \E g : Steps(N, S, init, F, g)
<1> DEFINE UpTo(m, g) == Steps(m, S, init, F, g)
           Bad == {m \in 0..N : ~\E g : UpTo(m, g)}
<1>1. SUFFICES ASSUME Bad # {} PROVE FALSE
  OBVIOUS
<1>2. PICK m \in Bad : \A k \in Bad : m <= k
  <2>1. Bad \subseteq Nat
    OBVIOUS
  <2> HIDE DEF Bad
  <2> QED
    BY <1>1, <2>1, LeastOf
<1>3. m # 0
  <2>1. UpTo(0, [n \in 0..0 |-> init])
    BY DEF Steps
  <2> QED
    BY <1>2, <2>1
<1>4. m \in 1..N /\ m - 1 \in 0..N /\ m - 1 \notin Bad
  BY <1>2, <1>3
<1>5. PICK g : UpTo(m - 1, g)
  BY <1>4
<1> DEFINE h == [n \in 0..m |-> IF n = m THEN F[m][g[m - 1]] ELSE g[n]]
<1>6. /\ h = [n \in 0..m |-> h[n]] /\ h[0] = init
      /\ \A n \in 0..(m - 1) : h[n] = g[n]
      /\ h[m] = F[m][g[m - 1]]
  BY <1>4, <1>5 DEF Steps
<1>7. g[m - 1] \in S[m - 1]
  BY <1>4, <1>5 DEF Steps
<1> HIDE DEF h
<1>8. ASSUME NEW n \in 1..m PROVE h[n] = F[n][h[n - 1]]
  <2>1. CASE n = m
    <3>1. m - 1 \in 0..(m - 1)
      BY <1>4
    <3> QED
      BY <1>6, <2>1, <3>1
  <2>2. CASE n # m
    <3>1. n \in 1..(m - 1) /\ n \in 0..(m - 1) /\ n - 1 \in 0..(m - 1)
      BY <1>4, <2>2
    <3>2. g[n] = F[n][g[n - 1]]
      BY <1>5, <3>1 DEF Steps
    <3> QED
      BY <1>6, <3>1, <3>2
  <2> QED
    BY <2>1, <2>2
<1>9. ASSUME NEW n \in 0..m PROVE h[n] \in S[n]
  <2>1. CASE n = m
    BY <1>4, <1>6, <1>7, <2>1 DEF KeepsTo
  <2>2. CASE n # m
    <3>1. n \in 0..(m - 1)
      BY <1>4, <2>2
    <3> QED
      BY <1>5, <1>6, <3>1 DEF Steps
  <2> QED
    BY <2>1, <2>2
<1>10. UpTo(m, h)
  BY <1>6, <1>8, <1>9 DEF Steps
<1> QED
  BY <1>2, <1>10

(* The rule for each of them: a set of values that has the first one and     *)
(* that no step leaves has the last one.                                     *)
LEMMA ShortlistIn ==
  ASSUME NEW T, NEW hits \in Seq(T), NEW ran, NEW day, NEW S, <<>> \in S,
         \A n \in 1..Len(hits) : \A acc \in S : Take(acc, hits[n], ran, day) \in S
  PROVE  Shortlist(hits, ran, day) \in S
<1> DEFINE N == Len(hits)
           Ss == [n \in 0..N |-> S]
           F == [n \in 1..N |-> [acc \in S |-> Take(acc, hits[n], ran, day)]]
           taken[n \in 0..N] == IF n = 0 THEN <<>> ELSE Take(taken[n - 1], hits[n], ran, day)
<1>1. N \in Nat
  OBVIOUS
<1>2. PICK g : Steps(N, Ss, <<>>, F, g)
  <2>1. <<>> \in Ss[0] /\ KeepsTo(N, Ss, F)
    BY <1>1 DEF KeepsTo
  <2> HIDE DEF N, Ss, F
  <2> QED
    BY <1>1, <2>1, StepsExist
<1>3. ASSUME NEW n \in 1..N
      PROVE  g[n] = Take(g[n - 1], hits[n], ran, day)
  <2>1. n - 1 \in 0..N
    BY <1>1
  <2>2. g[n - 1] \in S
    BY <1>2, <2>1 DEF Steps
  <2> QED
    BY <1>2, <2>2 DEF Steps
<1>4. g = [n \in 0..N |-> IF n = 0 THEN <<>> ELSE Take(g[n - 1], hits[n], ran, day)]
  <2>1. \A n \in 0..N : n = 0 \/ n \in 1..N
    BY <1>1
  <2> HIDE DEF N
  <2> QED
    BY <1>2, <1>3, <2>1 DEF Steps
<1>5. taken = [n \in 0..N |-> IF n = 0 THEN <<>> ELSE Take(taken[n - 1], hits[n], ran, day)]
  BY <1>4
<1>6. Shortlist(hits, ran, day) = taken[N]
  BY DEF Shortlist
<1> HIDE DEF taken
<1>7. /\ taken[0] = <<>>
      /\ \A n \in 1..N : taken[n] = Take(taken[n - 1], hits[n], ran, day)
  <2>1. 0 \in 0..N /\ \A n \in 1..N : n \in 0..N /\ n # 0
    BY <1>1
  <2> HIDE DEF N
  <2> QED
    BY <1>5, <2>1
<1>8. \A n \in 0..N : taken[n] \in Ss[n]
  <2>1. /\ taken[0] \in Ss[0]
        /\ \A n \in 1..N : taken[n - 1] \in Ss[n - 1] => taken[n] \in Ss[n]
    BY <1>1, <1>7
  <2> HIDE DEF Ss, N
  <2> QED
    BY <1>1, <2>1, StepsStay
<1> QED
  BY <1>1, <1>6, <1>8

(* What is kept depends on how far the list has been gone through.           *)
LEMMA FetchedIn ==
  ASSUME NEW T, NEW list \in Seq(T), NEW S, <<>> \in S[0],
         \A n \in 1..Len(list) : \A acc \in S[n - 1] : Keep(acc, list[n]) \in S[n]
  PROVE  Fetched(list) \in S[Len(list)]
<1> DEFINE N == Len(list)
           F == [n \in 1..N |-> [acc \in S[n - 1] |-> Keep(acc, list[n])]]
           kept[n \in 0..N] == IF n = 0 THEN <<>> ELSE Keep(kept[n - 1], list[n])
<1>1. N \in Nat
  OBVIOUS
<1>2. PICK g : Steps(N, S, <<>>, F, g)
  <2>1. <<>> \in S[0] /\ KeepsTo(N, S, F)
    BY <1>1 DEF KeepsTo
  <2> HIDE DEF N, F
  <2> QED
    BY <1>1, <2>1, StepsExist
<1>3. ASSUME NEW n \in 1..N
      PROVE  g[n] = Keep(g[n - 1], list[n])
  <2>1. n - 1 \in 0..N
    BY <1>1
  <2>2. g[n - 1] \in S[n - 1]
    BY <1>2, <2>1 DEF Steps
  <2> QED
    BY <1>2, <2>2 DEF Steps
<1>4. g = [n \in 0..N |-> IF n = 0 THEN <<>> ELSE Keep(g[n - 1], list[n])]
  <2>1. \A n \in 0..N : n = 0 \/ n \in 1..N
    BY <1>1
  <2> HIDE DEF N
  <2> QED
    BY <1>2, <1>3, <2>1 DEF Steps
<1>5. kept = [n \in 0..N |-> IF n = 0 THEN <<>> ELSE Keep(kept[n - 1], list[n])]
  BY <1>4
<1>6. Fetched(list) = kept[N]
  BY DEF Fetched
<1> HIDE DEF kept
<1>7. /\ kept[0] = <<>>
      /\ \A n \in 1..N : kept[n] = Keep(kept[n - 1], list[n])
  <2>1. 0 \in 0..N /\ \A n \in 1..N : n \in 0..N /\ n # 0
    BY <1>1
  <2> HIDE DEF N
  <2> QED
    BY <1>5, <2>1
<1>8. \A n \in 0..N : kept[n] \in S[n]
  <2>1. /\ kept[0] \in S[0]
        /\ \A n \in 1..N : kept[n - 1] \in S[n - 1] => kept[n] \in S[n]
    BY <1>1, <1>7
  <2> HIDE DEF N
  <2> QED
    BY <1>1, <2>1, StepsStay
<1> QED
  BY <1>1, <1>6, <1>8

LEMMA BuildIssueIn ==
  ASSUME NEW pool, NEW trim, NEW T, NEW selection \in Seq(T), NEW S, NothingBuilt \in S,
         \A n \in 1..Len(selection) : \A acc \in S :
            Entry(pool, trim, acc, selection[n]) \in S
  PROVE  BuildIssue(pool, selection, trim) \in S
<1> DEFINE N == Len(selection)
           Ss == [n \in 0..N |-> S]
           F == [n \in 1..N |-> [acc \in S |-> Entry(pool, trim, acc, selection[n])]]
           built[n \in 0..N] ==
             IF n = 0 THEN NothingBuilt ELSE Entry(pool, trim, built[n - 1], selection[n])
<1>1. N \in Nat
  OBVIOUS
<1>2. PICK g : Steps(N, Ss, NothingBuilt, F, g)
  <2>1. NothingBuilt \in Ss[0] /\ KeepsTo(N, Ss, F)
    BY <1>1 DEF KeepsTo
  <2> HIDE DEF N, Ss, F
  <2> QED
    BY <1>1, <2>1, StepsExist
<1>3. ASSUME NEW n \in 1..N
      PROVE  g[n] = Entry(pool, trim, g[n - 1], selection[n])
  <2>1. n - 1 \in 0..N
    BY <1>1
  <2>2. g[n - 1] \in S
    BY <1>2, <2>1 DEF Steps
  <2> QED
    BY <1>2, <2>2 DEF Steps
<1>4. g = [n \in 0..N |->
          IF n = 0 THEN NothingBuilt ELSE Entry(pool, trim, g[n - 1], selection[n])]
  <2>1. \A n \in 0..N : n = 0 \/ n \in 1..N
    BY <1>1
  <2> HIDE DEF N
  <2> QED
    BY <1>2, <1>3, <2>1 DEF Steps
<1>5. built = [n \in 0..N |->
              IF n = 0 THEN NothingBuilt ELSE Entry(pool, trim, built[n - 1], selection[n])]
  BY <1>4
<1>6. BuildIssue(pool, selection, trim) = built[N]
  BY DEF BuildIssue
<1> HIDE DEF built
<1>7. /\ built[0] = NothingBuilt
      /\ \A n \in 1..N : built[n] = Entry(pool, trim, built[n - 1], selection[n])
  <2>1. 0 \in 0..N /\ \A n \in 1..N : n \in 0..N /\ n # 0
    BY <1>1
  <2> HIDE DEF N
  <2> QED
    BY <1>5, <2>1
<1>8. \A n \in 0..N : built[n] \in Ss[n]
  <2>1. /\ built[0] \in Ss[0]
        /\ \A n \in 1..N : built[n - 1] \in Ss[n - 1] => built[n] \in Ss[n]
    BY <1>1, <1>7
  <2> HIDE DEF Ss, N
  <2> QED
    BY <1>1, <2>1, StepsStay
<1> QED
  BY <1>1, <1>6, <1>8

LEMMA RepairIn ==
  ASSUME NEW pool, NEW T, NEW items \in Seq(T), NEW S, Unrepaired(items) \in S,
         \A n \in 1..Len(items) : \A acc \in S : Check(pool, acc, items[n]) \in S
  PROVE  RepairAndCheck(items, pool) \in S
<1> DEFINE N == Len(items)
           Ss == [n \in 0..N |-> S]
           F == [n \in 1..N |-> [acc \in S |-> Check(pool, acc, items[n])]]
           after[n \in 0..N] ==
             IF n = 0 THEN Unrepaired(items) ELSE Check(pool, after[n - 1], items[n])
<1>1. N \in Nat
  OBVIOUS
<1>2. PICK g : Steps(N, Ss, Unrepaired(items), F, g)
  <2>1. Unrepaired(items) \in Ss[0] /\ KeepsTo(N, Ss, F)
    BY <1>1 DEF KeepsTo
  <2> HIDE DEF N, Ss, F
  <2> QED
    BY <1>1, <2>1, StepsExist
<1>3. ASSUME NEW n \in 1..N
      PROVE  g[n] = Check(pool, g[n - 1], items[n])
  <2>1. n - 1 \in 0..N
    BY <1>1
  <2>2. g[n - 1] \in S
    BY <1>2, <2>1 DEF Steps
  <2> QED
    BY <1>2, <2>2 DEF Steps
<1>4. g = [n \in 0..N |->
          IF n = 0 THEN Unrepaired(items) ELSE Check(pool, g[n - 1], items[n])]
  <2>1. \A n \in 0..N : n = 0 \/ n \in 1..N
    BY <1>1
  <2> HIDE DEF N
  <2> QED
    BY <1>2, <1>3, <2>1 DEF Steps
<1>5. after = [n \in 0..N |->
              IF n = 0 THEN Unrepaired(items) ELSE Check(pool, after[n - 1], items[n])]
  BY <1>4
<1>6. RepairAndCheck(items, pool) = after[N]
  BY DEF RepairAndCheck
<1> HIDE DEF after
<1>7. /\ after[0] = Unrepaired(items)
      /\ \A n \in 1..N : after[n] = Check(pool, after[n - 1], items[n])
  <2>1. 0 \in 0..N /\ \A n \in 1..N : n \in 0..N /\ n # 0
    BY <1>1
  <2> HIDE DEF N
  <2> QED
    BY <1>5, <2>1
<1>8. \A n \in 0..N : after[n] \in Ss[n]
  <2>1. /\ after[0] \in Ss[0]
        /\ \A n \in 1..N : after[n - 1] \in Ss[n - 1] => after[n] \in Ss[n]
    BY <1>1, <1>7
  <2> HIDE DEF Ss, N
  <2> QED
    BY <1>1, <2>1, StepsStay
<1> QED
  BY <1>1, <1>6, <1>8

(***************************************************************************)
(* Links and warnings: the inductive invariant                             *)
(***************************************************************************)
(* A page is named once among candidates, and in an issue.                  *)
DistinctPages(list) ==
  \A i, j \in DOMAIN list : Page[list[i].url].key = Page[list[j].url].key => i = j

(* What is right for issue k: candidates of a pool were harvested for it, and *)
(* an item's page carries its text.                                         *)
Candidate == [url : Links, story : Nat]
Shortlisted == {list \in Seq(Candidate) : DistinctPages(list)}
Pool(k, pool) ==
  /\ DOMAIN pool \subseteq Nat \ {0} /\ DistinctPages(pool)
  /\ \A i \in DOMAIN pool : pool[i].url \in harvested[k]
Good(k) == {it \in Items : it.url \in harvested[k] /\ Grounded(it.text, it.url)}

PoolsOK == /\ harvested \in [Keys -> SUBSET Links]
           /\ DOMAIN pools = Keys /\ \A k \in Keys : Pool(k, pools[k])
IssuesOK == /\ DOMAIN issues = Keys
            /\ \A k \in Keys : issues[k] \in Seq(Good(k)) /\ DistinctPages(issues[k])
Carries(r) ==
  /\ r.at = "fetching" => r.items \in Shortlisted
  /\ r.at = "mailing" => r.items \in Seq(Good(r.key)) /\ Len(r.items) >= MinItems[r.key[1]]
CallsOK == \A a \in Agents : Carries(run[a])
OutsideOK ==
  /\ \A m \in mails : /\ m.key \in Keys /\ m.items \in Seq(Good(m.key))
                      /\ Len(m.items) >= MinItems[m.key[1]]
  /\ \A c \in comments : c.key \in Keys /\ c.url \in harvested[c.key]
  /\ poster.at # "idle" => poster.items \in Seq(Good(poster.key))
LinksInv == PoolsOK /\ IssuesOK /\ CallsOK /\ OutsideOK

(* Trimming is armed, and trimmed text is in an issue, after a warning.       *)
TrimInv == retries \subseteq warned /\ TrimOnlyAfterWarning

(***************************************************************************)
(* What the steps through a list keep                                      *)
(***************************************************************************)
LEMMA AppendFacts ==
  ASSUME NEW T, NEW s \in Seq(T), NEW e \in T
  PROVE  /\ Append(s, e) \in Seq(T) /\ DOMAIN Append(s, e) = DOMAIN s \cup {Len(s) + 1}
         /\ \A i \in DOMAIN s : Append(s, e)[i] = s[i] /\ i # Len(s) + 1
         /\ Append(s, e)[Len(s) + 1] = e
OBVIOUS

(* Another page at the end of a list that does not have it.                  *)
LEMMA DistinctAppend ==
  ASSUME NEW T, NEW s \in Seq(T), NEW e \in T, DistinctPages(s),
         \A i \in DOMAIN s : Page[s[i].url].key # Page[e.url].key
  PROVE  DistinctPages(Append(s, e))
<1>1. PICK t : t = Append(s, e)
  OBVIOUS
<1>2. /\ DOMAIN t = DOMAIN s \cup {Len(s) + 1} /\ t[Len(s) + 1] = e
      /\ \A i \in DOMAIN s : t[i] = s[i]
  BY <1>1, AppendFacts
<1>3. DistinctPages(t)
  BY <1>2 DEF DistinctPages
<1> QED
  BY <1>1, <1>3

(* A story has a number.                                                     *)
LEMMA StoryIsNat ==
  ASSUME NEW taken \in Seq(Candidate), NEW u, NEW ran, NEW day
  PROVE  StoryFor(u, taken, ran, day) \in Nat
<1> DEFINE same == {i \in DOMAIN taken : SameStory(u, taken[i].url)}
           stories == {taken[i].story : i \in DOMAIN taken}
           story == IF same = {} THEN Cardinality(stories) + 1 ELSE taken[Least(same)].story
<1>1. Cardinality(stories) \in Nat
  <2>1. [i \in DOMAIN taken |-> taken[i].story] \in Surjection(DOMAIN taken, stories)
    BY DEF Surjection
  <2>2. IsFiniteSet(DOMAIN taken)
    <3>1. DOMAIN taken = 1..Len(taken) /\ Len(taken) \in Int
      OBVIOUS
    <3> QED
      BY <3>1, FS_Interval
  <2> HIDE DEF stories
  <2> QED
    BY <2>1, <2>2, FS_Surjection, FS_CardinalityType
<1>2. ASSUME same # {} PROVE taken[Least(same)].story \in Nat
  <2>1. Least(same) \in same
    <3>1. same \subseteq Nat
      OBVIOUS
    <3>2. \E n \in same : \A m \in same : n <= m
      <4> HIDE DEF same
      <4> QED
        BY <1>2, <3>1, LeastOf
    <3> HIDE DEF same
    <3> QED
      BY <3>2 DEF Least
  <2>2. Least(same) \in DOMAIN taken
    BY <2>1
  <2> HIDE DEF same
  <2>3. PICK i : i = Least(same)
    OBVIOUS
  <2>4. taken[i] \in Candidate
    BY <2>2, <2>3
  <2> QED
    BY <2>3, <2>4 DEF Candidate
<1>3. story \in Nat
  <2> HIDE DEF stories, same
  <2> QED
    BY <1>1, <1>2
<1>4. StoryFor(u, taken, ran, day) \in {0, story}
  <2> HIDE DEF story
  <2> QED
    BY DEF StoryFor, story, stories, same
<1> HIDE DEF story
<1> QED
  BY <1>3, <1>4

(* shortlist takes no page twice.                                            *)
LEMMA ShortlistFacts ==
  ASSUME NEW hits \in Seq(Links), NEW ran, NEW day
  PROVE  Shortlist(hits, ran, day) \in Shortlisted
<1>1. <<>> \in Shortlisted
  BY DEF Shortlisted, DistinctPages
<1>2. ASSUME NEW taken \in Shortlisted, NEW u \in Links
      PROVE  Take(taken, u, ran, day) \in Shortlisted
  <2>1. PICK story \in Nat : story = StoryFor(u, taken, ran, day)
    BY StoryIsNat DEF Shortlisted
  <2>2. CASE story = 0
    BY <2>1, <2>2 DEF Take
  <2>3. CASE story # 0
    <3>1. PICK c : c = [url |-> u, story |-> story]
      OBVIOUS
    <3>2. c \in Candidate /\ c.url = u /\ taken \in Seq(Candidate) /\ DistinctPages(taken)
      BY <2>1, <3>1 DEF Candidate, Shortlisted
    <3>3. Take(taken, u, ran, day) = Append(taken, c)
      BY <2>1, <2>3, <3>1 DEF Take
    <3>4. {i \in DOMAIN taken : \/ Page[taken[i].url].key = Page[u].key
                                \/ Page[taken[i].url].title = Page[u].title} = {}
      BY <2>1, <2>3 DEF StoryFor
    <3> QED
      BY <3>2, <3>3, <3>4, AppendFacts, DistinctAppend DEF Shortlisted
  <2> QED
    BY <2>2, <2>3
<1>3. \A n \in 1..Len(hits) : hits[n] \in Links
  OBVIOUS
<1> QED
  BY <1>1, <1>2, <1>3, ShortlistIn

(* Nor is one fetched twice.                                                 *)
LEMMA FetchedFacts ==
  ASSUME NEW list \in Shortlisted
  PROVE  Fetched(list) \in Shortlisted
<1> DEFINE Some(kept, n) == \A i \in DOMAIN kept : \E j \in 1..n : kept[i] = list[j]
           S == [n \in 0..Len(list) |-> {kept \in Shortlisted : Some(kept, n)}]
<1>0. list \in Seq(Candidate) /\ Len(list) \in Nat /\ DistinctPages(list)
  BY DEF Shortlisted
<1>1. <<>> \in S[0]
  BY <1>0 DEF Shortlisted, DistinctPages
<1>2. ASSUME NEW n \in 1..Len(list), NEW kept \in S[n - 1]
      PROVE  Keep(kept, list[n]) \in S[n]
  <2>0. n \in 0..Len(list) /\ n - 1 \in 0..Len(list) /\ n \in Nat /\ n \in DOMAIN list
    BY <1>0
  <2>1. kept \in Shortlisted /\ Some(kept, n - 1)
    BY <2>0
  <2>2. Some(kept, n)
    BY <2>0, <2>1
  <2>3. CASE Keep(kept, list[n]) = kept
    BY <2>0, <2>1, <2>2, <2>3
  <2>4. CASE Keep(kept, list[n]) # kept
    <3>1. PICK c \in Candidate : c = list[n]
      BY <1>0
    <3>2. PICK more : more = Append(kept, c)
      OBVIOUS
    <3>3. Keep(kept, list[n]) = more
      BY <2>4, <3>1, <3>2 DEF Keep
    <3>4. ASSUME NEW i \in DOMAIN kept PROVE Page[kept[i].url].key # Page[c.url].key
      <4>1. PICK j \in 1..(n - 1) : kept[i] = list[j]
        BY <2>1
      <4>2. j \in DOMAIN list /\ j # n
        BY <1>0, <2>0
      <4> QED
        BY <1>0, <2>0, <3>1, <4>1, <4>2 DEF DistinctPages
    <3>5. kept \in Seq(Candidate) /\ DistinctPages(kept)
      BY <2>1 DEF Shortlisted
    <3>6. /\ more \in Seq(Candidate) /\ DOMAIN more = DOMAIN kept \cup {Len(kept) + 1}
          /\ \A i \in DOMAIN kept : more[i] = kept[i]
          /\ more[Len(kept) + 1] = c
      BY <3>2, <3>5, AppendFacts
    <3>7. more \in Shortlisted
      BY <3>2, <3>4, <3>5, <3>6, DistinctAppend DEF Shortlisted
    <3>8. Some(more, n)
      BY <2>0, <2>2, <3>1, <3>6
    <3> QED
      BY <2>0, <3>3, <3>7, <3>8
  <2> QED
    BY <2>3, <2>4
<1>3. Fetched(list) \in S[Len(list)]
  <2> HIDE DEF S
  <2> QED
    BY <1>0, <1>1, <1>2, FetchedIn
<1> QED
  BY <1>0, <1>3

(* An item with a page of its own among those of a selection.                *)
Selected == [id : Nat, text : Texts, emoji : BOOLEAN]
Faults == {"unknown", "duplicate", "empty", "article", "limit", "emoji", "none"}
Built(k, pool, trim) ==
  {acc \in [used : SUBSET Nat, items : Seq(Good(k)), faults : SUBSET Faults] :
     \A i \in DOMAIN acc.items :
       /\ acc.items[i].id \in acc.used /\ acc.items[i].id \in DOMAIN pool
       /\ acc.items[i].url = pool[acc.items[i].id].url
       /\ acc.items[i].trimmed => trim
       /\ \A j \in DOMAIN acc.items : acc.items[j].id = acc.items[i].id => i = j}

(* A number names a candidate of the pool or nothing; text is supported by a *)
(* page that carries it and that no item has.                                *)
LEMMA LeastIn ==
  ASSUME NEW S, S \subseteq Nat, S # {}
  PROVE  Least(S) \in S
BY LeastOf DEF Least

LEMMA ResolveFacts ==
  ASSUME NEW pool, DOMAIN pool \subseteq Nat, NEW id
  PROVE  Resolve(pool, id) = 0 \/ Resolve(pool, id) \in DOMAIN pool
<1> DEFINE by_result == {i \in DOMAIN pool : pool[i].result = id}
<1>1. by_result # {} => Least(by_result) \in by_result
  <2>1. by_result \subseteq Nat
    OBVIOUS
  <2> HIDE DEF by_result
  <2> QED
    BY <2>1, LeastIn
<1> QED
  BY <1>1 DEF Resolve

LEMMA SupportFacts ==
  ASSUME NEW pool, DOMAIN pool \subseteq Nat, NEW t, NEW c \in DOMAIN pool, NEW used,
         c \notin used, Support(pool, t, c, used) # 0
  PROVE  /\ Support(pool, t, c, used) \in DOMAIN pool \ used
         /\ Grounded(t, pool[Support(pool, t, c, used)].url)
<1> DEFINE others == {i \in DOMAIN pool \ (used \cup {c}) : Grounded(t, pool[i].url)}
<1>1. others # {} => Least(others) \in others
  <2>1. others \subseteq Nat
    OBVIOUS
  <2> HIDE DEF others
  <2> QED
    BY <2>1, LeastIn
<1> QED
  BY <1>1 DEF Support

(* One entry of a selection.                                                 *)
LEMMA EntryFacts ==
  ASSUME PoolsOK, NEW k \in Keys, NEW pool, Pool(k, pool), NEW trim \in BOOLEAN,
         NEW sel \in Selected, NEW acc \in Built(k, pool, trim)
  PROVE  Entry(pool, trim, acc, sel) \in Built(k, pool, trim)
<1> DEFINE c == Resolve(pool, sel.id)
           fault == Fault(pool, sel, acc.used, trim)
           cut == Draft[sel.text].length = "long"
           text == IF cut THEN Draft[sel.text].shorter ELSE sel.text
           by == Support(pool, text, c, acc.used)
           item == [text |-> text, url |-> pool[by].url, id |-> by, trimmed |-> cut]
<1>0. /\ acc.used \in SUBSET Nat /\ acc.items \in Seq(Good(k))
      /\ acc.faults \in SUBSET Faults /\ DOMAIN pool \subseteq Nat \ {0}
      /\ acc \in [used : SUBSET Nat, items : Seq(Good(k)), faults : SUBSET Faults]
  BY DEF Built, Pool
<1>1. c = 0 \/ c \in DOMAIN pool
  BY <1>0, ResolveFacts
<1>2. fault \in Faults
  BY DEF Fault, Faults
<1>3. fault = "none" => c # 0 /\ c \notin acc.used /\ (cut => trim)
  BY DEF Fault
<1>4. text \in Texts
  BY IssuesAssumption DEF Selected
<1>5. CASE fault # "none"
  <2>1. PICK r : r = [acc EXCEPT !.faults = @ \cup {fault}, !.used = @ \cup ({c} \ {0})]
    OBVIOUS
  <2>2. Entry(pool, trim, acc, sel) = r
    BY <1>5, <2>1 DEF Entry
  <2> HIDE DEF fault, c
  <2>3. /\ r \in [used : SUBSET Nat, items : Seq(Good(k)), faults : SUBSET Faults]
        /\ r.items = acc.items /\ acc.used \subseteq r.used
    BY <1>0, <1>1, <1>2, <2>1
  <2>4. r \in Built(k, pool, trim)
    BY <2>3 DEF Built
  <2> QED
    BY <2>2, <2>4
<1>6. CASE fault = "none" /\ by = 0
  BY <1>6 DEF Entry
<1>7. CASE fault = "none" /\ by # 0
  <2>1. by \in DOMAIN pool \ acc.used /\ Grounded(text, pool[by].url) /\ by \in Nat \ {0}
    <3> HIDE DEF text, c
    <3> QED
      BY <1>0, <1>1, <1>3, <1>7, SupportFacts
  <2>2. PICK r : r = [acc EXCEPT !.used = @ \cup {by}, !.items = Append(@, item)]
    OBVIOUS
  <2>3. Entry(pool, trim, acc, sel) = r
    BY <1>7, <2>2 DEF Entry
  <2>4. PICK it : it = item
    OBVIOUS
  <2>5. /\ it.text = text /\ it.url = pool[by].url /\ it.id = by /\ it.trimmed = cut
        /\ it \in Good(k)
    <3>1. pool[by].url \in harvested[k] /\ pool[by].url \in Links
      BY <2>1 DEF Pool, PoolsOK
    <3> HIDE DEF text, by
    <3> QED
      BY <1>4, <2>1, <2>4, <3>1 DEF Good, Items
  <2>6. trim \/ ~it.trimmed
    BY <1>3, <1>7, <2>5
  <2> HIDE DEF by, fault, c, item, text, cut
  <2>7. /\ r.items = Append(acc.items, it) /\ r.used = acc.used \cup {by}
        /\ r \in [used : SUBSET Nat, items : Seq(Good(k)), faults : SUBSET Faults]
    BY <1>0, <2>1, <2>2, <2>4, <2>5, AppendFacts
  <2>8. /\ DOMAIN r.items = DOMAIN acc.items \cup {Len(acc.items) + 1}
        /\ r.items[Len(acc.items) + 1] = it
        /\ \A i \in DOMAIN acc.items : r.items[i] = acc.items[i]
    BY <1>0, <2>5, <2>7, AppendFacts
  <2>9. ASSUME NEW i \in DOMAIN acc.items
        PROVE  /\ acc.items[i].id \in acc.used /\ acc.items[i].id \in DOMAIN pool
               /\ acc.items[i].url = pool[acc.items[i].id].url
               /\ acc.items[i].trimmed => trim
               /\ \A j \in DOMAIN acc.items : acc.items[j].id = acc.items[i].id => i = j
    BY <2>9 DEF Built
  <2>10. ASSUME NEW i \in DOMAIN r.items
         PROVE  /\ r.items[i].id \in r.used /\ r.items[i].id \in DOMAIN pool
                /\ r.items[i].url = pool[r.items[i].id].url
                /\ r.items[i].trimmed => trim
                /\ \A j \in DOMAIN r.items : r.items[j].id = r.items[i].id => i = j
    <3>1. CASE i \in DOMAIN acc.items
      BY <2>1, <2>5, <2>7, <2>8, <2>9, <3>1
    <3>2. CASE i = Len(acc.items) + 1
      BY <2>1, <2>5, <2>6, <2>7, <2>8, <2>9, <3>2
    <3> QED
      BY <2>8, <2>10, <3>1, <3>2
  <2>11. r \in Built(k, pool, trim)
    BY <2>7, <2>10 DEF Built
  <2> QED
    BY <2>3, <2>11
<1> QED
  BY <1>5, <1>6, <1>7

(* build_issue: items carry links of the pool, each its own page that has    *)
(* its text, and without the retry none of them is trimmed.                  *)
LEMMA BuildIssueFacts ==
  ASSUME PoolsOK, NEW k \in Keys, NEW pool, Pool(k, pool), NEW trim \in BOOLEAN,
         NEW selection \in Seq(Selected)
  PROVE  LET items == BuildIssue(pool, selection, trim).items
         IN  /\ items \in Seq(Good(k)) /\ DistinctPages(items)
             /\ \A i \in DOMAIN items : items[i].trimmed => trim
<1>1. NothingBuilt \in Built(k, pool, trim)
  BY DEF NothingBuilt, Built
<1>2. \A n \in 1..Len(selection) : selection[n] \in Selected
  OBVIOUS
<1>3. PICK acc \in Built(k, pool, trim) : acc = BuildIssue(pool, selection, trim)
  BY <1>1, <1>2, EntryFacts, BuildIssueIn
<1>4. PICK items : items = acc.items
  OBVIOUS
<1>5. /\ items \in Seq(Good(k))
      /\ \A i \in DOMAIN items :
           /\ items[i].id \in DOMAIN pool /\ items[i].url = pool[items[i].id].url
           /\ items[i].trimmed => trim
           /\ \A j \in DOMAIN items : items[j].id = items[i].id => i = j
  BY <1>4 DEF Built
<1>6. DistinctPages(items)
  BY <1>5 DEF DistinctPages, Pool
<1> QED
  BY <1>3, <1>4, <1>5, <1>6

(* repair_and_check: what is kept carries links of the pool, too.            *)
Repaired(k) == [used : SUBSET Nat, kept : Seq(Good(k)), dropped : Nat]
LEMMA RepairFacts ==
  ASSUME PoolsOK, NEW k \in Keys, NEW pool, Pool(k, pool), NEW items \in Seq(Good(k))
  PROVE  RepairAndCheck(items, pool) \in Repaired(k)
<1>1. Unrepaired(items) \in Repaired(k)
  <2>1. {it.id : it \in ToSet(items)} \subseteq Nat
    BY DEF ToSet, Good, Items
  <2> QED
    BY <2>1 DEF Unrepaired, Repaired
<1>2. ASSUME NEW acc \in Repaired(k), NEW it \in Good(k)
      PROVE  Check(pool, acc, it) \in Repaired(k)
  <2>0. acc.kept \in Seq(Good(k)) /\ acc.dropped \in Nat /\ acc.used \in SUBSET Nat
    BY DEF Repaired
  <2>1. PICK by : by = Replacement(pool, it, acc.used)
    OBVIOUS
  <2>2. CASE it.url \notin dead
    <3>1. Check(pool, acc, it) = [acc EXCEPT !.kept = Append(@, it)]
      BY <2>2 DEF Check
    <3>2. Append(acc.kept, it) \in Seq(Good(k))
      BY <2>0, AppendFacts
    <3> QED
      BY <3>1, <3>2 DEF Repaired
  <2>3. CASE it.url \in dead /\ by = 0
    <3>1. Check(pool, acc, it) = [acc EXCEPT !.dropped = @ + 1]
      BY <2>1, <2>3 DEF Check
    <3> QED
      BY <2>0, <3>1 DEF Repaired
  <2>4. CASE it.url \in dead /\ by # 0
    <3> DEFINE fits == {i \in DOMAIN pool \ (acc.used \cup {it.id}) :
                          /\ it.id \in DOMAIN pool /\ pool[i].story = pool[it.id].story
                          /\ Grounded(it.text, pool[i].url)
                          /\ pool[i].url \notin dead}
    <3>1. by \in fits
      <4>1. fits \subseteq Nat
        BY DEF Pool
      <4>2. fits # {} /\ by = Least(fits)
        BY <2>1, <2>4 DEF Replacement
      <4> HIDE DEF fits
      <4> QED
        BY <4>1, <4>2, LeastIn
    <3>2. PICK one : one = [it EXCEPT !.url = pool[by].url, !.id = by]
      OBVIOUS
    <3>3. /\ pool[by].url \in harvested[k] /\ pool[by].url \in Links
          /\ Grounded(it.text, pool[by].url) /\ by \in Nat \ {0}
      BY <3>1 DEF Pool, PoolsOK
    <3>4. one \in Good(k)
      BY <3>2, <3>3 DEF Good, Items
    <3>5. Append(acc.kept, one) \in Seq(Good(k))
      BY <2>0, <3>4, AppendFacts
    <3>6. Check(pool, acc, it) =
            [acc EXCEPT !.used = @ \cup {by}, !.kept = Append(@, one)]
      BY <2>1, <2>4, <3>2 DEF Check
    <3> QED
      BY <2>0, <3>3, <3>5, <3>6 DEF Repaired
  <2> QED
    BY <2>2, <2>3, <2>4
<1>3. \A n \in 1..Len(items) : items[n] \in Good(k)
  OBVIOUS
<1> QED
  BY <1>1, <1>2, <1>3, RepairIn

(***************************************************************************)
(* The steps of the system                                                 *)
(***************************************************************************)

(* Which action touches what.                                                *)
LEMMA Touches ==
  ASSUME [Next]_vars
  PROVE  /\ (UNCHANGED <<pools, harvested>> \/ \E a \in Agents : HarvestPool(a))
         /\ (UNCHANGED issues \/ \E a \in Agents, c \in Calls : PublishBuilt(a, c))
         /\ (UNCHANGED mails \/ \E a \in Agents : ScriptMails(a))
         /\ (UNCHANGED comments \/ FinishComment)
         /\ \/ UNCHANGED <<retries, warned>> \/ ServerDies
            \/ \E a \in Agents, c \in Calls : PublishRejected(a, c)
<1> DEFINE Goal ==
         /\ (UNCHANGED <<pools, harvested>> \/ \E a \in Agents : HarvestPool(a))
         /\ (UNCHANGED issues \/ \E a \in Agents, c \in Calls : PublishBuilt(a, c))
         /\ (UNCHANGED mails \/ \E a \in Agents : ScriptMails(a))
         /\ (UNCHANGED comments \/ FinishComment)
         /\ \/ UNCHANGED <<retries, warned>> \/ ServerDies
            \/ \E a \in Agents, c \in Calls : PublishRejected(a, c)
<1>1. ASSUME NEW a \in Agents,
             (\E p \in Publications : HarvestSearch(a, p)) \/ HarvestPool(a)
      PROVE  Goal
  BY <1>1 DEF HarvestSearch, HarvestPool, files, seen, outside
<1>2. ASSUME NEW a \in Agents, NEW c \in Calls,
             PublishTooFew(a, c) \/ PublishRejected(a, c) \/ PublishBuilt(a, c)
      PROVE  Goal
  BY <1>2 DEF PublishTooFew, PublishRejected, PublishBuilt, seen, outside
<1>3. ASSUME NEW a \in Agents,
             \/ ScriptChecks(a) \/ ScriptMails(a) \/ ScriptMailFails(a)
             \/ ScriptRecords(a) \/ ScriptTimesOut(a)
      PROVE  Goal
  BY <1>3 DEF ScriptChecks, ScriptMails, ScriptMailFails, ScriptRecords, ScriptTimesOut,
              files, seen, outside
<1>4. CASE PosterStep
  <2>1. CASE FinishComment
    BY <2>1 DEF FinishComment, files, seen, outside
  <2>2. CASE \E p \in Publications, s \in Slots : PostLoad(p, s)
    BY <2>2 DEF PostLoad, files, seen, outside
  <2>3. CASE PostToLinkedIn \/ SavePosted \/ PosterDies
    BY <2>3 DEF PostToLinkedIn, SavePosted, PosterDies, files, seen, outside
  <2>4. CASE PostFails
    BY <2>4 DEF PostFails, files, seen, outside
  <2> QED
    BY <1>4, <2>1, <2>2, <2>3, <2>4 DEF PosterStep
<1>5. CASE NextDay \/ LinkDies \/ ServerDies \/ UNCHANGED vars
  BY <1>5 DEF NextDay, LinkDies, ServerDies, vars, files, seen, outside
<1>6. ASSUME NEW a \in Agents, AgentStep(a)
      PROVE  Goal
  BY <1>1, <1>2, <1>3, <1>6 DEF AgentStep
<1>7. CASE \E a \in Agents : AgentStep(a)
  BY <1>6, <1>7
<1> QED
  BY <1>4, <1>5, <1>7 DEF Next, Goal

(* What was harvested stays harvested, and with it what is good.             *)
Grown == \A k \in Keys : harvested[k] \subseteq harvested'[k]
LEMMA GoodGrows ==
  ASSUME Grown, NEW k \in Keys
  PROVE  Good(k) \subseteq Good(k)' /\ \A s \in Seq(Good(k)) : s \in Seq(Good(k)')
<1>1. Good(k) \subseteq Good(k)'
  BY DEF Good, Grown
<1> QED
  BY <1>1

(* harvest_handler: what it writes to the pool file it has on record.        *)
LEMMA HarvestLinks ==
  ASSUME IInv, LinksInv, NEW a \in Agents, HarvestPool(a)
  PROVE  PoolsOK' /\ Grown
<1>1. /\ run[a].at = "fetching" /\ run[a].items \in Shortlisted /\ run[a].key \in Keys
  BY RunFacts DEF HarvestPool, LinksInv, CallsOK, Carries, IInv, Flight
<1>2. PICK k \in Keys, kept \in Shortlisted, stored \in BOOLEAN :
        /\ k = run[a].key /\ kept = Fetched(run[a].items)
        /\ IF kept = <<>> THEN UNCHANGED <<pools, harvested>>
           ELSE /\ pools' = [pools EXCEPT ![k] = Numbered(kept, stored)]
                /\ harvested' = [harvested EXCEPT ![k] = @ \cup {c.url : c \in ToSet(kept)}]
  BY <1>1, FetchedFacts DEF HarvestPool
<1>3. CASE kept = <<>>
  BY <1>2, <1>3 DEF LinksInv, PoolsOK, Pool, Grown
<1>4. CASE kept # <<>>
  <2>0. kept \in Seq(Candidate) /\ DistinctPages(kept) /\ PoolsOK
    BY DEF Shortlisted, LinksInv
  <2>1. PICK pool : pool = Numbered(kept, stored)
    OBVIOUS
  <2>2. /\ DOMAIN pool = DOMAIN kept
        /\ \A i \in DOMAIN pool : pool[i].url = kept[i].url
    BY <2>1 DEF Numbered
  <2>3. PICK links : links = {c.url : c \in ToSet(kept)}
    OBVIOUS
  <2>4. /\ \A i \in DOMAIN kept : kept[i].url \in links
        /\ links \subseteq Links
    <3>1. ToSet(kept) \subseteq Candidate /\ \A i \in DOMAIN kept : kept[i] \in ToSet(kept)
      BY <2>0 DEF ToSet
    <3>2. \A c \in Candidate : c.url \in Links
      BY DEF Candidate
    <3> QED
      BY <2>3, <3>1, <3>2
  <2>5. /\ pools' = [pools EXCEPT ![k] = pool]
        /\ harvested' = [harvested EXCEPT ![k] = @ \cup links]
    BY <1>2, <1>4, <2>1, <2>3
  <2>6. harvested' \in [Keys -> SUBSET Links] /\ Grown /\ links \subseteq harvested'[k]
    BY <2>0, <2>4, <2>5 DEF PoolsOK, Grown
  <2>7. DOMAIN pools' = Keys /\ pools'[k] = pool
        /\ \A j \in Keys : j # k => pools'[j] = pools[j]
    BY <2>0, <2>5 DEF PoolsOK
  <2>8. Pool(k, pool)'
    BY <2>0, <2>2, <2>4, <2>6 DEF Pool, DistinctPages
  <2>9. ASSUME NEW j \in Keys PROVE Pool(j, pools[j])'
    <3>1. CASE j = k
      BY <2>7, <2>8, <3>1 DEF Pool
    <3>2. CASE j # k
      BY <2>0, <2>6, <2>7, <3>2 DEF Pool, PoolsOK, Grown
    <3> QED
      BY <3>1, <3>2
  <2> QED
    BY <2>6, <2>7, <2>9 DEF PoolsOK
<1> QED
  BY <1>3, <1>4

LEMMA PoolsNext ==
  ASSUME IInv, LinksInv, [Next]_vars
  PROVE  PoolsOK' /\ Grown
<1>1. CASE UNCHANGED <<pools, harvested>>
  BY <1>1 DEF LinksInv, PoolsOK, Pool, Grown
<1> QED
  BY <1>1, Touches, HarvestLinks

(* The issue publish_issue_handler writes.                                   *)
LEMMA BuiltFacts ==
  ASSUME IInv, PoolsOK, NEW c \in Calls, NEW trim \in BOOLEAN
  PROVE  LET items == BuildIssue(pools[KeyOf(c)], c.items, trim).items
         IN  /\ items \in Seq(Good(KeyOf(c))) /\ DistinctPages(items)
             /\ \A i \in DOMAIN items : items[i].trimmed => trim
<1>1. KeyOf(c) \in Keys
  BY KeyFacts DEF IInv
<1>2. c.items \in Seq(Selected)
  BY CallsAssumption DEF Selected
<1>3. Pool(KeyOf(c), pools[KeyOf(c)])
  BY <1>1 DEF PoolsOK
<1> QED
  BY <1>1, <1>2, <1>3, BuildIssueFacts

LEMMA IssuesNext ==
  ASSUME IInv, LinksInv, Grown, [Next]_vars
  PROVE  IssuesOK'
<1>0. IssuesOK /\ PoolsOK
  BY DEF LinksInv
<1>1. CASE UNCHANGED issues
  <2>1. ASSUME NEW k \in Keys PROVE issues'[k] \in Seq(Good(k)') /\ DistinctPages(issues'[k])
    BY <1>0, <1>1, GoodGrows DEF IssuesOK
  <2> QED
    BY <1>0, <1>1, <2>1 DEF IssuesOK
<1>2. ASSUME NEW a \in Agents, NEW c \in Calls, PublishBuilt(a, c)
      PROVE  IssuesOK'
  <2>1. PICK k \in Keys : k = KeyOf(c)
    BY KeyFacts DEF IInv
  <2>2. PICK items : items = BuildIssue(pools[k], c.items, k \in retries).items
    OBVIOUS
  <2>3. items \in Seq(Good(k)) /\ DistinctPages(items)
    <3>1. CASE k \in retries
      <4>1. items = BuildIssue(pools[k], c.items, TRUE).items
        BY <2>2, <3>1
      <4> QED
        BY <1>0, <2>1, <4>1, BuiltFacts
    <3>2. CASE k \notin retries
      <4>1. (k \in retries) = FALSE
        BY <3>2
      <4>2. items = BuildIssue(pools[k], c.items, FALSE).items
        BY <2>2, <4>1, Zenon
      <4> QED
        BY <1>0, <2>1, <4>2, BuiltFacts
    <3> QED
      BY <3>1, <3>2
  <2>4. issues' = [issues EXCEPT ![k] = items]
    BY <1>2, <2>1, <2>2 DEF PublishBuilt
  <2>5. ASSUME NEW j \in Keys
        PROVE  issues'[j] \in Seq(Good(j)') /\ DistinctPages(issues'[j])
    <3>1. issues'[j] \in Seq(Good(j)) /\ DistinctPages(issues'[j])
      BY <1>0, <2>3, <2>4 DEF IssuesOK
    <3> QED
      BY <3>1, GoodGrows
  <2>6. DOMAIN issues' = Keys
    BY <1>0, <2>4 DEF IssuesOK
  <2> QED
    BY <2>5, <2>6 DEF IssuesOK
<1> QED
  BY <1>1, <1>2, Touches

(* A call goes on with what it carries, or with something as good.           *)
LEMMA CallGoesOn ==
  ASSUME RunsOK, CallsOK, Grown, NEW b \in Agents, run'[b] = run[b]
  PROVE  Carries(run[b])'
<1>1. run[b].at = "mailing" => run[b].key \in Keys
  BY RunFacts DEF Flight
<1>2. Carries(run[b])
  BY DEF CallsOK
<1> QED
  BY <1>1, <1>2, GoodGrows DEF Carries

LEMMA CallTurns ==
  ASSUME RunsOK, CallsOK, Grown, NEW a \in Agents, NEW r, run' = [run EXCEPT ![a] = r],
         Carries(r)'
  PROVE  CallsOK'
<1>1. DOMAIN run = Agents
  BY DEF RunsOK, RunsTyped
<1>2. run'[a] = r /\ \A b \in Agents : b # a => run'[b] = run[b]
  BY <1>1
<1>3. ASSUME NEW b \in Agents PROVE Carries(run[b])'
  BY <1>2, <1>3, CallGoesOn DEF Carries
<1> QED
  BY <1>3 DEF CallsOK

LEMMA CallRests ==
  ASSUME RunsOK, CallsOK, Grown, NEW a \in Agents, Rest(a)
  PROVE  CallsOK'
<1>1. Carries(Idle)'
  BY DEF Carries, Idle
<1> QED
  BY <1>1, CallTurns DEF Rest

(* The script's repair and its count of what is left.                        *)
LEMMA ScriptCarries ==
  ASSUME IInv, LinksInv, Grown, NEW a \in Agents, ScriptChecks(a)
  PROVE  CallsOK'
<1>0. /\ RunsOK /\ CallsOK /\ PoolsOK /\ IssuesOK /\ run[a].at = "script"
  BY DEF IInv, LinksInv, ScriptChecks
<1>1. PICK k \in Keys : k = run[a].key
  BY <1>0, RunFacts DEF Flight
<1>2. PICK r \in Repaired(k) : r = RepairAndCheck(issues[k], pools[k])
  BY <1>0, RepairFacts DEF IssuesOK, PoolsOK
<1>3. CASE Rest(a)
  BY <1>0, <1>3, CallRests
<1>4. CASE ~Rest(a)
  <2>1. /\ ~(r.dropped > 0 \/ Len(r.kept) < MinItems[k[1]])
        /\ run' = [run EXCEPT ![a].at = "mailing", ![a].items = r.kept,
                     ![a].left = IF run[a].mode = "dry" THEN {} ELSE Subscribers]
    BY <1>1, <1>2, <1>4 DEF ScriptChecks
  <2>2. PICK q : q = [run[a] EXCEPT !.at = "mailing", !.items = r.kept,
                        !.left = IF run[a].mode = "dry" THEN {} ELSE Subscribers]
    OBVIOUS
  <2>3. run' = [run EXCEPT ![a] = q]
    <3>1. PICK S : run \in [Agents -> RunOf(S)]
      BY <1>0 DEF RunsOK, RunsTyped
    <3> QED
      BY <2>1, <2>2, <3>1
  <2>4. q.at = "mailing" /\ q.items = r.kept /\ q.key = k
    BY <1>0, <1>1, <2>2, RunFacts DEF RunOf
  <2>5. r.kept \in Seq(Good(k)) /\ r.kept \in Seq(Good(k)')
    BY <1>2, GoodGrows DEF Repaired
  <2>6. Len(r.kept) >= MinItems[k[1]]
    <3>1. k[1] \in Publications
      BY DEF Keys
    <3>2. MinItems[k[1]] \in Nat
      BY <3>1, IssuesAssumption
    <3>3. Len(r.kept) \in Nat
      BY <2>5
    <3> QED
      BY <2>1, <3>2, <3>3
  <2>7. Carries(q)'
    BY <2>4, <2>5, <2>6 DEF Carries
  <2> QED
    BY <1>0, <2>3, <2>7, CallTurns
<1> QED
  BY <1>3, <1>4

LEMMA CallsNext ==
  ASSUME IInv, LinksInv, Grown, [Next]_vars
  PROVE  CallsOK'
<1>0. RunsOK /\ CallsOK
  BY DEF IInv, LinksInv
<1>1. CASE UNCHANGED run
  BY <1>0, <1>1, CallGoesOn DEF CallsOK
<1>2. ASSUME NEW a \in Agents, NEW p \in Publications, HarvestSearch(a, p)
      PROVE  CallsOK'
  <2>1. PICK hits \in Seq(Links) :
          run' = [run EXCEPT ![a] = [Idle EXCEPT !.at = "fetching", !.key = <<p, today>>,
                    !.items = Shortlist(hits, RecentlyPublished(p), today)]]
    BY <1>2, IssuesAssumption DEF HarvestSearch
  <2>2. PICK list \in Shortlisted : list = Shortlist(hits, RecentlyPublished(p), today)
    BY ShortlistFacts
  <2>3. PICK r : r = [Idle EXCEPT !.at = "fetching", !.key = <<p, today>>, !.items = list]
    OBVIOUS
  <2>4. run' = [run EXCEPT ![a] = r]
    BY <2>1, <2>2, <2>3
  <2>5. Carries(r)'
    BY <2>3 DEF Carries, Idle, Shortlisted, DistinctPages
  <2> QED
    BY <1>0, <2>4, <2>5, CallTurns
<1>3. ASSUME NEW a \in Agents,
             HarvestPool(a) \/ ScriptMailFails(a) \/ ScriptRecords(a) \/ ScriptTimesOut(a)
      PROVE  CallsOK'
  <2>1. Rest(a)
    BY <1>3 DEF HarvestPool, ScriptMailFails, ScriptRecords, ScriptTimesOut
  <2> QED
    BY <1>0, <2>1, CallRests
<1>4. ASSUME NEW a \in Agents, NEW c \in Calls,
             PublishTooFew(a, c) \/ PublishRejected(a, c)
      PROVE  CallsOK'
  BY <1>1, <1>4 DEF PublishTooFew, PublishRejected
<1>5. ASSUME NEW a \in Agents, NEW c \in Calls, PublishBuilt(a, c)
      PROVE  CallsOK'
  <2>1. PICK r : r = [Idle EXCEPT !.at = "script", !.key = KeyOf(c), !.mode = c.mode]
    OBVIOUS
  <2>2. run' = [run EXCEPT ![a] = r]
    BY <1>5, <2>1 DEF PublishBuilt
  <2>3. Carries(r)'
    BY <2>1 DEF Carries, Idle
  <2> QED
    BY <1>0, <2>2, <2>3, CallTurns
<1>6. ASSUME NEW a \in Agents, ScriptMails(a)
      PROVE  CallsOK'
  <2>1. PICK s : run' = [run EXCEPT ![a].left = @ \ {s}]
    BY <1>6 DEF ScriptMails
  <2>2. PICK left : left = run[a].left \ {s}
    OBVIOUS
  <2>3. PICK r : r = [run[a] EXCEPT !.left = left]
    OBVIOUS
  <2>4. run' = [run EXCEPT ![a] = r]
    <3>1. PICK S : run \in [Agents -> RunOf(S)]
      BY <1>0 DEF RunsOK, RunsTyped
    <3> QED
      BY <2>1, <2>2, <2>3, <3>1
  <2>5. r.at = run[a].at /\ r.items = run[a].items /\ r.key = run[a].key
    BY <1>0, <2>3, RunFacts DEF RunOf
  <2>6. Carries(r)'
    <3>1. run[a].at = "mailing" /\ run[a].key \in Keys
      BY <1>0, <1>6, RunFacts DEF ScriptMails, Flight
    <3>2. Carries(run[a])
      BY <1>0 DEF CallsOK
    <3> QED
      BY <2>5, <3>1, <3>2, GoodGrows DEF Carries
  <2> QED
    BY <1>0, <2>4, <2>6, CallTurns
<1>7. CASE PosterStep \/ NextDay \/ LinkDies \/ UNCHANGED vars
  BY <1>1, <1>7 DEF PosterStep, PostLoad, PostToLinkedIn, PostFails, SavePosted,
                    FinishComment, PosterDies, NextDay, LinkDies, vars
<1>8. CASE ServerDies
  <2>1. \A b \in Agents : run'[b].at = "idle"
    BY <1>8 DEF ServerDies, Idle
  <2> QED
    BY <2>1 DEF CallsOK, Carries
<1> QED
  BY <1>2, <1>3, <1>4, <1>5, <1>6, <1>7, <1>8, ScriptCarries DEF Next, AgentStep

(* What has left the system: mail, and comments on posts.                    *)
MailsOK == \A m \in mails : /\ m.key \in Keys /\ m.items \in Seq(Good(m.key))
                            /\ Len(m.items) >= MinItems[m.key[1]]
CommentsOK == \A c \in comments : c.key \in Keys /\ c.url \in harvested[c.key]
LoadedOK == poster.at # "idle" => poster.items \in Seq(Good(poster.key))

LEMMA MailsNext ==
  ASSUME IInv, LinksInv, Grown, [Next]_vars
  PROVE  MailsOK'
<1>0. RunsOK /\ CallsOK /\ MailsOK
  BY DEF IInv, LinksInv, OutsideOK, MailsOK
<1>1. ASSUME NEW m \in mails
      PROVE  /\ m.key \in Keys /\ m.items \in Seq(Good(m.key)')
             /\ Len(m.items) >= MinItems[m.key[1]]
  BY <1>0, GoodGrows DEF MailsOK
<1>2. CASE UNCHANGED mails
  BY <1>1, <1>2 DEF MailsOK
<1>3. ASSUME NEW a \in Agents, ScriptMails(a)
      PROVE  MailsOK'
  <2>1. /\ run[a].at = "mailing" /\ run[a].key \in Keys /\ Carries(run[a])
    BY <1>0, <1>3, RunFacts DEF ScriptMails, Flight, CallsOK
  <2>2. PICK k, items : k = run[a].key /\ items = run[a].items
    OBVIOUS
  <2>3. /\ items \in Seq(Good(k)) /\ items \in Seq(Good(k)')
        /\ Len(items) >= MinItems[k[1]]
    BY <2>1, <2>2, GoodGrows DEF Carries
  <2>4. PICK s : mails' = mails \cup {[key |-> k, items |-> items, to |-> s]}
    BY <1>3, <2>2 DEF ScriptMails
  <2>5. PICK n : n = [key |-> k, items |-> items, to |-> s]
    OBVIOUS
  <2>6. mails' = mails \cup {n} /\ n.key = k /\ n.items = items
    BY <2>4, <2>5
  <2> QED
    BY <1>1, <2>1, <2>2, <2>3, <2>6 DEF MailsOK
<1> QED
  BY <1>2, <1>3, Touches

LEMMA CommentsNext ==
  ASSUME IInv, LinksInv, Grown, [Next]_vars
  PROVE  CommentsOK'
<1>0. PosterOK /\ LoadedOK /\ CommentsOK
  BY DEF IInv, LinksInv, OutsideOK, CommentsOK, LoadedOK
<1>1. \A c \in comments : c.key \in Keys /\ c.url \in harvested'[c.key]
  BY <1>0 DEF CommentsOK, Grown
<1>2. CASE UNCHANGED comments
  BY <1>1, <1>2 DEF CommentsOK
<1>3. CASE FinishComment /\ ~UNCHANGED comments
  <2>1. PICK k, s, items : k = poster.key /\ s = Least(poster.todo) /\ items = poster.items
    OBVIOUS
  <2>2. /\ poster.at = "commenting" /\ poster.todo # {} /\ s <= Len(items)
        /\ comments' = comments \cup {[key |-> k, slot |-> s, url |-> items[s].url]}
    BY <1>3, <2>1 DEF FinishComment
  <2>3. k \in Keys /\ items \in Seq(Good(k)) /\ poster.todo \subseteq Slots
    BY <1>0, <2>1, <2>2 DEF PosterOK, LoadedOK, PosterOf
  <2>4. s \in Slots
    <3>1. poster.todo \subseteq Nat
      BY <2>3, IssuesAssumption DEF Slots
    <3> QED
      BY <2>1, <2>2, <2>3, <3>1, LeastIn
  <2>5. items[s] \in Good(k)
    <3>1. s \in 1..Len(items)
      BY <2>2, <2>3, <2>4, IssuesAssumption DEF Slots
    <3> QED
      BY <2>3, <3>1
  <2>6. PICK n : n = [key |-> k, slot |-> s, url |-> items[s].url]
    OBVIOUS
  <2>7. /\ comments' = comments \cup {n} /\ n.key = k
        /\ n.url \in harvested'[k]
    BY <2>2, <2>3, <2>5, <2>6 DEF Good, Grown
  <2> QED
    BY <1>1, <2>3, <2>7 DEF CommentsOK
<1> QED
  BY <1>2, <1>3, Touches

LEMMA LoadedNext ==
  ASSUME IInv, LinksInv, Grown, [Next]_vars
  PROVE  LoadedOK'
<1>0. PosterOK /\ LoadedOK /\ IssuesOK /\ FilesTyped
  BY DEF IInv, LinksInv, OutsideOK, LoadedOK
<1>k. ASSUME poster'.at # "idle" => /\ poster.at # "idle" /\ poster'.items = poster.items
                                    /\ poster'.key = poster.key
      PROVE  LoadedOK'
  <2>1. poster.at # "idle" => poster.key \in Keys
    BY <1>0 DEF PosterOK
  <2> QED
    BY <1>0, <1>k, <2>1, GoodGrows DEF LoadedOK
<1>p. PICK S : poster \in PosterOf(S)
  BY <1>0 DEF PosterOK
<1>1. CASE UNCHANGED poster
  BY <1>1, <1>k
<1>2. ASSUME NEW p \in Publications, NEW s \in Slots, PostLoad(p, s)
      PROVE  LoadedOK'
  <2>1. PICK k \in Keys : k = <<p, today>>
    BY <1>0 DEF FilesTyped, Keys
  <2>2. poster'.items = issues[k] /\ poster'.key = k
    BY <1>2, <2>1 DEF PostLoad
  <2>3. issues[k] \in Seq(Good(k)')
    BY <1>0, GoodGrows DEF IssuesOK
  <2> QED
    BY <2>2, <2>3 DEF LoadedOK
<1>3. CASE PostToLinkedIn \/ SavePosted
  BY <1>3, <1>k, <1>p DEF PostToLinkedIn, SavePosted, PosterOf
<1>4. CASE PostFails \/ PosterDies
  BY <1>4, <1>k DEF PostFails, PosterDies, NoSlot
<1>5. CASE FinishComment
  <2>1. \/ poster' = NoSlot
        \/ \E s : poster' = [poster EXCEPT !.todo = @ \ {s}]
    BY <1>5 DEF FinishComment
  <2> QED
    BY <1>5, <1>k, <1>p, <2>1 DEF NoSlot, PosterOf, FinishComment
<1>6. ASSUME NEW a \in Agents, AgentStep(a) PROVE UNCHANGED poster
  BY <1>6 DEF AgentStep, HarvestSearch, HarvestPool, PublishTooFew, PublishRejected,
     PublishBuilt, ScriptChecks, ScriptMails, ScriptMailFails, ScriptRecords,
     ScriptTimesOut, slots
<1>7. CASE NextDay \/ LinkDies \/ ServerDies \/ UNCHANGED vars
  BY <1>1, <1>7 DEF NextDay, LinkDies, ServerDies, vars, slots
<1> QED
  BY <1>1, <1>2, <1>3, <1>4, <1>5, <1>6, <1>7 DEF Next, PosterStep

LEMMA LinksInit == Init => LinksInv
<1> SUFFICES ASSUME Init PROVE LinksInv
  OBVIOUS
<1>1. PoolsOK
  BY DEF Init, PoolsOK, Pool, DistinctPages
<1>2. IssuesOK
  BY DEF Init, IssuesOK, DistinctPages
<1>3. CallsOK /\ OutsideOK
  BY DEF Init, CallsOK, Carries, OutsideOK, Idle, NoSlot
<1> QED
  BY <1>1, <1>2, <1>3 DEF LinksInv

LEMMA LinksNext ==
  IInv /\ LinksInv /\ [Next]_vars => LinksInv'
<1> SUFFICES ASSUME IInv, LinksInv, [Next]_vars PROVE LinksInv'
  OBVIOUS
<1>1. PoolsOK' /\ Grown
  BY PoolsNext
<1>2. IssuesOK' /\ CallsOK' /\ MailsOK' /\ CommentsOK' /\ LoadedOK'
  BY <1>1, IssuesNext, CallsNext, MailsNext, CommentsNext, LoadedNext
<1>3. OutsideOK'
  BY <1>2 DEF OutsideOK, MailsOK, CommentsOK, LoadedOK
<1> QED
  BY <1>1, <1>2, <1>3 DEF LinksInv

LEMMA LinksFollow == LinksInv => LinksComeFromPools
<1> SUFFICES ASSUME LinksInv PROVE LinksComeFromPools
  OBVIOUS
<1>1. ASSUME NEW k \in Keys
      PROVE  /\ \A it \in ToSet(issues[k]) :
                  it.url \in harvested[k] /\ Grounded(it.text, it.url)
             /\ \A i, j \in DOMAIN issues[k] :
                  Page[issues[k][i].url].key = Page[issues[k][j].url].key => i = j
  <2>1. issues[k] \in Seq(Good(k)) /\ DistinctPages(issues[k])
    BY DEF LinksInv, IssuesOK
  <2>2. ToSet(issues[k]) \subseteq Good(k)
    BY <2>1 DEF ToSet
  <2> QED
    BY <2>1, <2>2 DEF Good, DistinctPages
<1>2. ASSUME NEW m \in mails
      PROVE  /\ Len(m.items) >= MinItems[m.key[1]]
             /\ \A it \in ToSet(m.items) : /\ it.url \in harvested[m.key]
                                           /\ Grounded(it.text, it.url)
  <2>1. m.items \in Seq(Good(m.key)) /\ Len(m.items) >= MinItems[m.key[1]]
    BY DEF LinksInv, OutsideOK
  <2>2. ToSet(m.items) \subseteq Good(m.key)
    BY <2>1 DEF ToSet
  <2> QED
    BY <2>1, <2>2 DEF Good
<1>3. \A c \in comments : c.url \in harvested[c.key]
  BY DEF LinksInv, OutsideOK
<1> QED
  BY <1>1, <1>2, <1>3 DEF LinksComeFromPools

(* A warned issue stays warned, and only a warning arms the trimming.        *)
LEMMA TrimInit == Init => TrimInv
BY DEF Init, TrimInv, TrimOnlyAfterWarning, ToSet

LEMMA TrimNext ==
  IInv /\ LinksInv /\ TrimInv /\ [Next]_vars => TrimInv'
<1> SUFFICES ASSUME IInv, LinksInv, TrimInv, [Next]_vars PROVE TrimInv'
  OBVIOUS
<1>1. retries' \subseteq warned' /\ warned \subseteq warned'
  <2>1. CASE UNCHANGED <<retries, warned>>
    BY <2>1 DEF TrimInv
  <2>2. CASE ServerDies
    BY <2>2 DEF TrimInv, ServerDies, seen
  <2>3. ASSUME NEW a \in Agents, NEW c \in Calls, PublishRejected(a, c)
        PROVE  retries' \subseteq warned' /\ warned \subseteq warned'
    BY <2>3 DEF TrimInv, PublishRejected, Arms
  <2> QED
    BY <2>1, <2>2, <2>3, Touches
<1>2. CASE UNCHANGED issues
  BY <1>1, <1>2 DEF TrimInv, TrimOnlyAfterWarning
<1>3. ASSUME NEW a \in Agents, NEW c \in Calls, PublishBuilt(a, c)
      PROVE  TrimInv'
  <2>1. PICK k \in Keys : k = KeyOf(c)
    BY KeyFacts DEF IInv
  <2>3. PICK items : items = BuildIssue(pools[k], c.items, k \in retries).items
    OBVIOUS
  <2>4. ASSUME k \notin retries
        PROVE  \A i \in DOMAIN items : ~items[i].trimmed
    <3>1. (k \in retries) = FALSE
      BY <2>4
    <3>2. items = BuildIssue(pools[k], c.items, FALSE).items
      BY <2>3, <3>1, Zenon
    <3> QED
      BY <2>1, <3>2, BuiltFacts DEF LinksInv
  <2>5. issues' = [issues EXCEPT ![k] = items]
    BY <1>3, <2>1, <2>3 DEF PublishBuilt
  <2>6. \A j \in Keys : issues'[j] = IF j = k THEN items ELSE issues[j]
    BY <2>5 DEF LinksInv, IssuesOK
  <2>7. (\E it \in ToSet(items) : it.trimmed) => k \in retries
    BY <2>4 DEF ToSet
  <2>8. TrimOnlyAfterWarning'
    BY <1>1, <2>6, <2>7 DEF TrimInv, TrimOnlyAfterWarning
  <2> QED
    BY <1>1, <2>8 DEF TrimInv
<1> QED
  BY <1>2, <1>3, Touches

(* Posts follow the mail and no slot on record is posted again: the tools,   *)
(* the scripts, cron and the files implement the promise of the publishing   *)
(* profile, over failed sends, killed scripts, rewritten records and crashes *)
(* between a post and its record (issue.cpp, publish_issue.py, post_tweet.py). *)
THEOREM PromiseHolds == Spec => PromiseKept
  BY InvariantInit, PromiseInit, StepFacts, PTL DEF Spec, PromiseKept, Promise!Spec

(* A run record that says sent is true of every reader of the issue: the     *)
(* fact load_sent_issue relies on (publish_issue.py).                        *)
THEOREM RecordsAreTrue == Spec => []SentIsMailed
<1>1. IInv => SentIsMailed
  BY DEF IInv
<1> QED
  BY <1>1, InvariantInit, StepFacts, PTL DEF Spec

(* The header of issue.h, "the wrong link is unreachable": whatever models,  *)
(* pools written over, dead links, killed scripts and restarts do, every     *)
(* item of an issue file, a mail or a comment links to a page harvested for  *)
(* that publication and day that carries the item's text.                    *)
THEOREM LinksHold == Spec => []LinksComeFromPools
  BY InvariantInit, StepFacts, LinksInit, LinksNext, LinksFollow, PTL DEF Spec

(* The one chance to shorten one's own prose (issue.h): build_issue trims    *)
(* only what it has complained about, for selections of any length.          *)
THEOREM TrimHolds == Spec => []TrimOnlyAfterWarning
<1>1. TrimInv => TrimOnlyAfterWarning
  BY DEF TrimInv
<1> QED
  BY <1>1, InvariantInit, StepFacts, LinksInit, LinksNext, TrimInit, TrimNext, PTL DEF Spec
=============================================================================
