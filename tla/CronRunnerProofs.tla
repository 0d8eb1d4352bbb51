--------------------------- MODULE CronRunnerProofs ---------------------------
(***************************************************************************)
(* Theorems of CronRunner, for every number of job ids, threads, schedules *)
(* and incidents: the types, that a flag has a run behind it, that jobs    *)
(* left to the poll loop run alone, and that an occurrence fires once.     *)
(***************************************************************************)
EXTENDS CronRunner, FiniteSetTheorems, WellFoundedInduction, TLAPS

(***************************************************************************)
(* Facts about the operators the actions use.                              *)
(***************************************************************************)

(* A non-empty set of natural numbers has a least element.                   *)
LEMMA LeastOf ==
  ASSUME NEW S, S \subseteq Nat, S # {}
  PROVE  \E n \in S : \A m \in S : n <= m
<1>1. IsWellFoundedOn(OpToRel(<, Nat), Nat)
  BY NatLessThanWellFounded, Zenon
<1>2. PICK n \in S : \A m \in S : ~(<<m, n>> \in OpToRel(<, Nat))
  BY <1>1, WFMin, Zenon
<1>3. \A m \in S : ~(m < n)
  BY <1>2, Zenon DEF OpToRel
<1> QED
  BY <1>3

(* The id of a new row is a positive number.                                 *)
LEMMA NewIdIsPositive == NewId \in Nat /\ NewId >= 1
<1> DEFINE Bounds == {n \in 0..MaxId : \A i \in Ids : Exists(i) => i <= n}
<1>1. MaxId \in Nat
  BY BoundsAssumption
<1>2. MaxId \in Bounds /\ Bounds \subseteq Nat
  BY <1>1 DEF Ids
<1>3. PICK m \in Bounds : \A n \in Bounds : m <= n
  <2> HIDE DEF Bounds
  <2> QED
    BY <1>2, LeastOf
<1>4. m = 0 \/ Exists(m)
  <2>1. SUFFICES ASSUME m # 0, ~Exists(m)
                 PROVE  m - 1 \in Bounds
    BY <1>1, <1>3
  <2>2. \A i \in Ids : Exists(i) => i <= m /\ i # m
    BY <2>1, <1>3
  <2> QED
    BY <1>1, <2>1, <2>2 DEF Ids
<1> DEFINE Last == CHOOSE x \in 0..MaxId : /\ x = 0 \/ Exists(x)
                                           /\ \A i \in Ids : Exists(i) => i <= x
<1>5. Last \in 0..MaxId
  BY <1>4
<1>6. NewId = 1 + Last
  BY DEF NewId
<1> QED
  BY <1>1, <1>5, <1>6

(* The next occurrence of a schedule is always in the future.                *)
LEMMA NextOccurrenceIsLater ==
  ASSUME now \in 0..MaxTime, NEW s \in Schedules
  PROVE  NextOccurrence(s) \in Nat /\ NextOccurrence(s) > now
  BY BoundsAssumption, SchedulesAssumption DEF NextOccurrence

(***************************************************************************)
(* The inductive invariant.  An id nobody called run_job_now for and no    *)
(* run outlived (Left) is served by the poll loop alone; the conjuncts say *)
(* what one tick, and the run it starts, know of such an id.               *)
(***************************************************************************)
Left == Ids \ (by_hand \cup recycled)

(* A job has one id for life: rows, polled rows and runs agree on it.        *)
HomeOf(home) ==
  /\ \A i \in Ids : Exists(i) => jobs[i].born <= created /\ home[jobs[i].born] = i
  /\ \A job \in poll : job.row.born <= created /\ home[job.row.born] = job.id
  /\ \A s \in Slots : ~Free(s) =>
       runs[s].row.born <= created /\ home[runs[s].row.born] = runs[s].id
OneHome == \E home \in [1..MaxJobs -> Nat] : HomeOf(home)

(* What was fired belongs to a job there has been and was due.               *)
FiredWasDue ==
  /\ \A job \in poll : job.row.next_run_at <= now
  /\ \A f \in fired : f \in (1..MaxJobs) \X Nat /\ f[1] <= created /\ f[2] <= now

(* Only run_job_now loads a row first and marks it later.                    *)
HandIsKnown ==
  \A s \in Slots : ~Free(s) =>
    /\ runs[s].by = "hand" => runs[s].id \in by_hand
    /\ runs[s].phase = "loaded" => runs[s].by = "hand"

(* A run of such an id is its only one and owns its row.                     *)
OneRunPerJob ==
  \A s, r \in Slots : ~Free(s) /\ ~Free(r) /\ runs[s].id = runs[r].id /\ runs[s].id \in Left
                      => s = r
RunOwnsRow ==
  \A s \in Slots : ~Free(s) /\ runs[s].id \in Left /\ Exists(runs[s].id) =>
    runs[s].row.born = jobs[runs[s].id].born /\ jobs[runs[s].id].running

(* A polled row is idle until the poll loop gets to it, and polled once.     *)
PolledIsIdle ==
  /\ \A job, other \in poll : job.id = other.id => job = other
  /\ \A job \in poll : job.id \in Left =>
       /\ \A s \in Slots : ~Free(s) => runs[s].id # job.id
       /\ Exists(job.id) => jobs[job.id].born = job.row.born /\ ~jobs[job.id].running

(* Everything fired for a job is before the time t.                          *)
Before(born, t) == \A f \in fired : f[1] = born => f[2] < t

(* Past occurrences are behind every time the poll loop may fire next.       *)
NextIsFresh ==
  /\ \A i \in Left : Exists(i) /\ (\A s \in InFlight(i) : runs[s].phase = "recorded")
       => Before(jobs[i].born, jobs[i].next_run_at)
  /\ \A job \in poll : job.id \in Left => Before(job.row.born, job.row.next_run_at)
  /\ \A s \in Slots : ~Free(s) /\ runs[s].id \in Left /\ runs[s].phase = "ended"
       => Before(runs[s].row.born, runs[s].next)

(* What the poll loop relies on for the ids left to it.                      *)
PollInv == OneRunPerJob /\ RunOwnsRow /\ PolledIsIdle /\ NextIsFresh

IInv == TypeOK /\ FlagHasRun /\ OneHome /\ FiredWasDue /\ HandIsKnown /\ PollInv

(***************************************************************************)
(* Types                                                                   *)
(***************************************************************************)

(* What a row and a run in flight are made of.                               *)
LEMMA RowFacts ==
  ASSUME TypeOK, NEW i \in Ids, Exists(i)
  PROVE  /\ jobs[i] \in Row
         /\ jobs[i].born \in 1..MaxJobs /\ jobs[i].next_run_at \in Nat
         /\ jobs[i].schedule \in Schedules
  BY DEF TypeOK, Exists, Row

LEMMA RunFacts ==
  ASSUME TypeOK, NEW s \in Slots, ~Free(s)
  PROVE  /\ runs[s] \in Run /\ runs[s].id \in Ids /\ runs[s].row \in Row
         /\ runs[s].row.born \in 1..MaxJobs /\ runs[s].row.schedule \in Schedules
         /\ runs[s].phase \in Phases /\ runs[s].next \in Nat
         /\ runs[s].by \in {"poll", "hand"}
  BY DEF TypeOK, Free, Run, Row

(* Marking a row keeps the table one.                                        *)
LEMMA SetRunningType ==
  ASSUME TypeOK, NEW i \in Ids, NEW flag \in BOOLEAN
  PROVE  SetRunning(i, flag) \in [Ids -> Row \cup {NoJob}]
<1>1. Exists(i) => [jobs[i] EXCEPT !.running = flag] \in Row
  BY RowFacts DEF Row
<1> QED
  BY <1>1 DEF SetRunning, Update, TypeOK

(* A run that has ended is a run, with its next time after now.              *)
LEMMA EndedFacts ==
  ASSUME TypeOK, NEW run \in Run
  PROVE  /\ Ended(run) \in Run
         /\ Ended(run).next > now /\ Ended(run).phase = "ended"
         /\ Ended(run).id = run.id /\ Ended(run).row = run.row /\ Ended(run).by = run.by
<1>1. run.row.schedule \in Schedules
  BY DEF Run, Row
<1>2. NextOccurrence(run.row.schedule) \in Nat /\ NextOccurrence(run.row.schedule) > now
  BY <1>1, NextOccurrenceIsLater DEF TypeOK
<1> DEFINE n == NextOccurrence(run.row.schedule)
<1> HIDE DEF n
<1>3. Ended(run) = [run EXCEPT !.phase = "ended", !.perms = "granted", !.next = n]
  BY DEF Ended, n
<1>4. Ended(run) \in Run /\ Ended(run).next = n /\ Ended(run).phase = "ended"
  BY <1>2, <1>3 DEF Run, Phases, Accounts, n
<1>5. Ended(run).id = run.id /\ Ended(run).row = run.row /\ Ended(run).by = run.by
  BY <1>3 DEF Run
<1> QED
  BY <1>2, <1>4, <1>5 DEF n

LEMMA TypeInit == Init => TypeOK
  BY BoundsAssumption DEF Init, TypeOK, Accounts, Free

LEMMA TypeNext == TypeOK /\ [Next]_vars => TypeOK'
<1> SUFFICES ASSUME TypeOK, [Next]_vars PROVE TypeOK'
  OBVIOUS
<1> USE BoundsAssumption
<1>1. ASSUME NEW kind \in Kinds, NEW s \in Schedules, ScheduleJob(kind, s)
      PROVE  TypeOK'
  <2>1. NewId \in Ids /\ created' \in 1..MaxJobs /\ NextAfter[s][now] \in Nat
    BY <1>1, NewIdIsPositive, SchedulesAssumption DEF ScheduleJob, Ids, TypeOK
  <2>2. [born |-> created + 1, kind |-> kind, schedule |-> s, running |-> FALSE,
         next_run_at |-> NextAfter[s][now]] \in Row
    BY <1>1, <2>1 DEF Row, ScheduleJob
  <2>3. jobs' \in [Ids -> Row \cup {NoJob}]
    BY <1>1, <2>1, <2>2 DEF ScheduleJob, TypeOK
  <2>4. recycled' \subseteq Ids
    BY <1>1, <2>1 DEF ScheduleJob, TypeOK
  <2> QED
    BY <1>1, <2>1, <2>3, <2>4 DEF ScheduleJob, TypeOK, Free
<1>2. ASSUME NEW i \in Ids, CancelJob(i)
      PROVE  TypeOK'
  BY <1>2 DEF CancelJob, TypeOK, Free, history
<1>3. ASSUME NEW i \in Ids, NEW s \in Schedules, RescheduleJob(i, s)
      PROVE  TypeOK'
  <2>1. NextAfter[s][now] \in Nat
    BY SchedulesAssumption DEF TypeOK
  <2>2. jobs' \in [Ids -> Row \cup {NoJob}]
    BY <1>3, <2>1, RowFacts DEF RescheduleJob, Update, TypeOK, Row
  <2> QED
    BY <1>3, <2>2 DEF RescheduleJob, TypeOK, Free, history
<1>4. ASSUME NEW i \in Ids, LoadByHand(i)
      PROVE  TypeOK'
  <2>1. [id |-> i, row |-> jobs[i], by |-> "hand", phase |-> "loaded",
         perms |-> account, next |-> 0] \in Run
    BY <1>4, RowFacts DEF LoadByHand, Run, Phases, TypeOK
  <2>2. runs' \in [Slots -> Run \cup {NoRun}]
    BY <1>4, <2>1 DEF LoadByHand, Spawn, TypeOK
  <2> QED
    BY <1>4, <2>2 DEF LoadByHand, TypeOK, Free
<1>5. CASE Tick
  BY <1>5, RowFacts DEF Tick, DueRows, Due, TypeOK, Free, history
<1>6. ASSUME NEW job \in poll, Fire(job)
      PROVE  TypeOK'
  <2>1. [id |-> job.id, row |-> job.row, by |-> "poll", phase |-> "marked",
         perms |-> account, next |-> 0] \in Run
    BY DEF Run, Phases, TypeOK
  <2>2. runs' \in [Slots -> Run \cup {NoRun}]
    BY <1>6, <2>1 DEF Fire, Spawn, TypeOK
  <2>3. jobs' \in [Ids -> Row \cup {NoJob}]
    BY <1>6, SetRunningType DEF Fire, TypeOK
  <2> QED
    BY <1>6, <2>2, <2>3 DEF Fire, TypeOK, Free
<1>7. CASE AbortTick
  BY <1>7 DEF AbortTick, TypeOK, Free, history
<1>8. ASSUME NEW s \in Slots, MarkByHand(s)
      PROVE  TypeOK'
  <2>1. runs' \in [Slots -> Run \cup {NoRun}]
    BY <1>8, RunFacts DEF MarkByHand, Advance, TypeOK, Free, Run, Phases
  <2>2. jobs' \in [Ids -> Row \cup {NoJob}]
    BY <1>8, SetRunningType, RunFacts DEF MarkByHand, Free
  <2> QED
    BY <1>8, <2>1, <2>2 DEF MarkByHand, TypeOK, Free, history
<1>9. ASSUME NEW s \in Slots, Begin(s)
      PROVE  TypeOK'
  <2> DEFINE run == [runs[s] EXCEPT !.perms = Perms(runs[s])]
  <2>1. run \in Run
    BY <1>9, RunFacts DEF Begin, Perms, Run, TypeOK, Free
  <2>2. Ended(run) \in Run /\ [run EXCEPT !.phase = "executing"] \in Run
    BY <2>1, EndedFacts DEF Run, Phases
  <2>3. runs' \in [Slots -> Run \cup {NoRun}]
    BY <1>9, <2>2 DEF Begin, Advance, TypeOK
  <2> QED
    BY <1>9, <2>3 DEF Begin, TypeOK, Free, history
<1>10. ASSUME NEW s \in Slots, End(s)
       PROVE  TypeOK'
  <2>1. runs' \in [Slots -> Run \cup {NoRun}]
    BY <1>10, RunFacts, EndedFacts DEF End, Advance, TypeOK, Free
  <2> QED
    BY <1>10, <2>1 DEF End, TypeOK, Free, history
<1>11. ASSUME NEW s \in Slots, Record(s)
       PROVE  TypeOK'
  <2>1. runs' \in [Slots -> Run \cup {NoRun}]
    BY <1>11, RunFacts DEF Record, Advance, TypeOK, Free, Run, Phases
  <2>2. jobs' \in [Ids -> Row \cup {NoJob}]
    BY <1>11, RowFacts, RunFacts DEF Record, Update, TypeOK, Row, Free
  <2> QED
    BY <1>11, <2>1, <2>2 DEF Record, TypeOK, Free, history
<1>12. ASSUME NEW s \in Slots, Clear(s)
       PROVE  TypeOK'
  <2>1. jobs' \in [Ids -> Row \cup {NoJob}]
    BY <1>12, SetRunningType, RunFacts DEF Clear, Free
  <2> QED
    BY <1>12, <2>1 DEF Clear, Advance, TypeOK, Free, history
<1>13. ASSUME NEW s \in Slots, RecordThrows(s)
       PROVE  TypeOK'
  <2>1. CASE runs[s].by = "poll"
    BY <1>13, <2>1 DEF RecordThrows, Die, TypeOK, Free
  <2>2. CASE runs[s].by = "hand"
    <3>1. runs[s].id \in Ids
      BY <1>13, RunFacts DEF RecordThrows, Free
    <3> QED
      BY <1>13, <2>2, <3>1 DEF RecordThrows, Advance, TypeOK, Free
  <2> QED
    BY <1>13, <2>1, <2>2 DEF RecordThrows
<1>14. CASE Crash
  BY <1>14 DEF Crash, Die, TypeOK, Free
<1>15. CASE Restart
  <2>1. jobs' \in [Ids -> Row \cup {NoJob}]
    BY <1>15, RowFacts DEF Restart, TypeOK, Row
  <2> QED
    BY <1>15, <2>1 DEF Restart, TypeOK, Free, history
<1>16. CASE Pass
  BY <1>16 DEF Pass, TypeOK, Free, history
<1>17. ASSUME NEW state \in Accounts, ChangeAccount(state)
       PROVE  TypeOK'
  BY <1>17 DEF ChangeAccount, TypeOK, Free, history
<1>18. CASE UNCHANGED vars
  BY <1>18 DEF vars, history, TypeOK, Free
<1> QED
  BY <1>1, <1>2, <1>3, <1>4, <1>5, <1>6, <1>7, <1>8, <1>9, <1>10, <1>11, <1>12, <1>13,
     <1>14, <1>15, <1>16, <1>17, <1>18 DEF Next, RunStep, FireNext

(***************************************************************************)
(* What the actions do to the runs and to the table                        *)
(***************************************************************************)

(* A new run takes a free slot and leaves the others alone.                  *)
LEMMA SpawnFacts ==
  ASSUME TypeOK, NEW run \in Run, Spawn(run)
  PROVE  \E s \in Slots :
           /\ Free(s) /\ runs'[s] = run /\ ~Free(s)'
           /\ \A r \in Slots : r # s => runs'[r] = runs[r]
  BY NullsAssumption DEF Spawn, TypeOK, Free

(* UPDATE ... SET running touches one row, and of it the flag only.          *)
LEMMA SetRunningFacts ==
  ASSUME TypeOK, NEW i \in Ids, NEW flag \in BOOLEAN, jobs' = SetRunning(i, flag)
  PROVE  /\ \A j \in Ids : j # i => jobs'[j] = jobs[j]
         /\ \A j \in Ids : Exists(j)' <=> Exists(j)
         /\ \A j \in Ids : Exists(j) =>
              jobs'[j].born = jobs[j].born /\ jobs'[j].next_run_at = jobs[j].next_run_at
         /\ Exists(i) => jobs'[i].running = flag
<1>1. CASE Exists(i)
  <2>1. jobs' = [jobs EXCEPT ![i] = [jobs[i] EXCEPT !.running = flag]]
    BY <1>1 DEF SetRunning, Update
  <2>2. jobs'[i] = [jobs[i] EXCEPT !.running = flag] /\ jobs'[i] \in Row
    BY <2>1, <1>1, RowFacts DEF TypeOK, Row
  <2>3. /\ jobs'[i].born = jobs[i].born /\ jobs'[i].running = flag
        /\ jobs'[i].next_run_at = jobs[i].next_run_at
    BY <2>2, <1>1, RowFacts DEF Row
  <2> QED
    BY <2>1, <2>2, <2>3, <1>1, NullsAssumption DEF TypeOK, Exists
<1>2. CASE ~Exists(i)
  BY <1>2 DEF SetRunning, Update, Exists
<1> QED
  BY <1>1, <1>2

(* A step of a run that goes on keeps its job, its snapshot and its starter. *)
LEMMA StepFacts ==
  ASSUME TypeOK, NEW s \in Slots, MarkByHand(s) \/ Begin(s) \/ End(s) \/ Record(s)
  PROVE  /\ ~Free(s) /\ ~Free(s)'
         /\ runs'[s].id = runs[s].id /\ runs'[s].row = runs[s].row
         /\ runs'[s].by = runs[s].by
         /\ runs'[s].phase # "loaded"
         /\ runs'[s].phase = "ended" => runs'[s].next > now
         /\ runs[s].phase # "recorded"
         /\ runs'[s].phase = "recorded" <=> runs[s].phase = "ended"
         /\ \A r \in Slots : r # s => runs'[r] = runs[r]
         /\ UNCHANGED <<up, poll, now, history>>
<1>0. /\ \A r \in Slots : r # s => runs'[r] = runs[r]
      /\ UNCHANGED <<up, poll, now, history>>
      /\ ~Free(s) /\ runs[s] \in Run
  BY RunFacts DEF MarkByHand, Begin, End, Record, Advance, TypeOK, Free
<1> SUFFICES /\ runs'[s] \in Run
             /\ runs'[s].id = runs[s].id /\ runs'[s].row = runs[s].row
             /\ runs'[s].by = runs[s].by
             /\ runs'[s].phase # "loaded"
             /\ runs'[s].phase = "ended" => runs'[s].next > now
             /\ runs[s].phase # "recorded"
             /\ runs'[s].phase = "recorded" <=> runs[s].phase = "ended"
  BY <1>0, NullsAssumption DEF Free
<1>1. CASE MarkByHand(s)
  BY <1>0, <1>1 DEF MarkByHand, Advance, TypeOK, Run, Phases
<1>2. CASE Begin(s)
  <2> DEFINE run == [runs[s] EXCEPT !.perms = Perms(runs[s])]
  <2>1. /\ run \in Run /\ run.id = runs[s].id /\ run.row = runs[s].row /\ run.by = runs[s].by
    BY <1>0 DEF Perms, Run, TypeOK
  <2>2. /\ Ended(run) \in Run /\ Ended(run).phase = "ended" /\ Ended(run).id = run.id
        /\ Ended(run).row = run.row /\ Ended(run).by = run.by /\ Ended(run).next > now
    BY <2>1, EndedFacts
  <2>3. /\ [run EXCEPT !.phase = "executing"] \in Run
        /\ [run EXCEPT !.phase = "executing"].phase = "executing"
        /\ [run EXCEPT !.phase = "executing"].id = run.id
        /\ [run EXCEPT !.phase = "executing"].row = run.row
        /\ [run EXCEPT !.phase = "executing"].by = run.by
    BY <2>1 DEF Run, Phases
  <2>4. runs[s].phase = "marked"
        /\ runs'[s] \in {[run EXCEPT !.phase = "executing"], Ended(run)}
    BY <1>2 DEF Begin, Advance, TypeOK
  <2> QED
    BY <2>1, <2>2, <2>3, <2>4
<1>3. CASE End(s)
  <2>1. runs[s].phase = "executing" /\ runs'[s] = Ended(runs[s])
    BY <1>3 DEF End, Advance, TypeOK
  <2> QED
    BY <1>0, <2>1, EndedFacts
<1>4. CASE Record(s)
  BY <1>0, <1>4 DEF Record, Advance, TypeOK, Run, Phases
<1> QED
  BY <1>1, <1>2, <1>3, <1>4

(* record_cron_job_run moves the next time of one row, cancelled or not.     *)
LEMMA RecordFacts ==
  ASSUME TypeOK, NEW s \in Slots, Record(s)
  PROVE  /\ \A j \in Ids : j # runs[s].id => jobs'[j] = jobs[j]
         /\ \A j \in Ids : Exists(j)' <=> Exists(j)
         /\ \A j \in Ids : Exists(j) =>
              jobs'[j].born = jobs[j].born /\ jobs'[j].running = jobs[j].running
         /\ Exists(runs[s].id) => jobs'[runs[s].id].next_run_at = runs[s].next
<1> DEFINE i == runs[s].id
           row == [jobs[i] EXCEPT !.next_run_at = runs[s].next]
<1>0. i \in Ids /\ runs[s].next \in Nat /\ jobs' = Update(i, row)
  BY RunFacts DEF Record, Free
<1>1. CASE Exists(i)
  <2>1. jobs' = [jobs EXCEPT ![i] = row]
    BY <1>0, <1>1 DEF Update
  <2>2. /\ row \in Row /\ row.born = jobs[i].born /\ row.running = jobs[i].running
        /\ row.next_run_at = runs[s].next
    BY <1>0, <1>1, RowFacts DEF Row
  <2>3. jobs'[i] = row /\ \A j \in Ids : j # i => jobs'[j] = jobs[j]
    BY <1>0, <2>1 DEF TypeOK
  <2> HIDE DEF row, i
  <2> QED
    BY <2>2, <2>3, <1>1, <1>0, NullsAssumption DEF Exists, i
<1>2. CASE ~Exists(i)
  BY <1>0, <1>2 DEF Update, Exists
<1> QED
  BY <1>1, <1>2

(* reschedule_cron_job moves the next time of a row to the future.           *)
LEMMA RescheduleFacts ==
  ASSUME TypeOK, NEW i \in Ids, NEW sch \in Schedules, RescheduleJob(i, sch)
  PROVE  /\ \A j \in Ids : j # i => jobs'[j] = jobs[j]
         /\ \A j \in Ids : Exists(j)' <=> Exists(j)
         /\ Exists(i) /\ jobs'[i].born = jobs[i].born /\ jobs'[i].running = jobs[i].running
         /\ jobs'[i].next_run_at > now
<1> DEFINE row == [jobs[i] EXCEPT !.schedule = sch, !.next_run_at = NextAfter[sch][now]]
<1>1. NextAfter[sch][now] \in Nat /\ NextAfter[sch][now] > now
  BY SchedulesAssumption DEF RescheduleJob, TypeOK
<1>2. Exists(i) /\ jobs' = [jobs EXCEPT ![i] = row]
  BY DEF RescheduleJob, Update
<1>3. /\ row \in Row /\ row.born = jobs[i].born /\ row.running = jobs[i].running
      /\ row.next_run_at > now
  BY <1>1, <1>2, RowFacts DEF Row
<1>4. jobs'[i] = row /\ \A j \in Ids : j # i => jobs'[j] = jobs[j]
  BY <1>2 DEF TypeOK
<1> QED
  BY <1>2, <1>3, <1>4, NullsAssumption DEF Exists

(* The poll loop gives a polled row a marked run and flags the row.          *)
LEMMA FireFacts ==
  ASSUME TypeOK, NEW job \in poll, Fire(job)
  PROVE  /\ job.id \in Ids /\ job.row \in Row
         /\ jobs' = SetRunning(job.id, TRUE)
         /\ \E s \in Slots :
              /\ Free(s) /\ ~Free(s)'
              /\ runs'[s].id = job.id /\ runs'[s].row = job.row
              /\ runs'[s].by = "poll" /\ runs'[s].phase = "marked"
              /\ \A r \in Slots : r # s => runs'[r] = runs[r]
<1> DEFINE run == [id |-> job.id, row |-> job.row, by |-> "poll", phase |-> "marked",
                   perms |-> account, next |-> 0]
<1>1. run \in Run /\ job.id \in Ids /\ job.row \in Row
  BY DEF Run, Phases, TypeOK
<1>2. Spawn(run)
  BY DEF Fire
<1>3. \E s \in Slots : /\ Free(s) /\ runs'[s] = run /\ ~Free(s)'
                       /\ \A r \in Slots : r # s => runs'[r] = runs[r]
  BY <1>1, <1>2, SpawnFacts
<1>4. jobs' = SetRunning(job.id, TRUE)
  BY DEF Fire
<1>5. run.id = job.id /\ run.row = job.row /\ run.by = "poll" /\ run.phase = "marked"
  OBVIOUS
<1> HIDE DEF run
<1> QED
  BY <1>1, <1>3, <1>4, <1>5

(* run_job_now gives a row a loaded run.                                     *)
LEMMA LoadFacts ==
  ASSUME TypeOK, NEW i \in Ids, LoadByHand(i)
  PROVE  \E s \in Slots :
           /\ Free(s) /\ ~Free(s)'
           /\ runs'[s].id = i /\ runs'[s].row = jobs[i]
           /\ runs'[s].by = "hand" /\ runs'[s].phase = "loaded"
           /\ \A r \in Slots : r # s => runs'[r] = runs[r]
<1> DEFINE run == [id |-> i, row |-> jobs[i], by |-> "hand", phase |-> "loaded",
                   perms |-> account, next |-> 0]
<1>1. run \in Run
  BY RowFacts DEF LoadByHand, Run, Phases, TypeOK
<1>2. Spawn(run)
  BY DEF LoadByHand
<1>3. \E s \in Slots : /\ Free(s) /\ runs'[s] = run /\ ~Free(s)'
                       /\ \A r \in Slots : r # s => runs'[r] = runs[r]
  BY <1>1, <1>2, SpawnFacts
<1>4. run.id = i /\ run.row = jobs[i] /\ run.by = "hand" /\ run.phase = "loaded"
  OBVIOUS
<1> HIDE DEF run
<1> QED
  BY <1>3, <1>4

(* The end of a run frees its slot and clears the flag of its row.           *)
LEMMA ClearFacts ==
  ASSUME TypeOK, NEW s \in Slots, Clear(s)
  PROVE  /\ ~Free(s) /\ Free(s)' /\ runs[s].id \in Ids /\ runs[s].phase = "recorded"
         /\ jobs' = SetRunning(runs[s].id, FALSE)
         /\ \A r \in Slots : r # s => runs'[r] = runs[r]
         /\ UNCHANGED <<up, poll, now, history>>
  BY RunFacts DEF Clear, Advance, TypeOK, Free

(***************************************************************************)
(* A flag has a run behind it                                              *)
(***************************************************************************)

(* Every marked run stays a marked run of its id, and a row newly flagged    *)
(* has one.                                                                  *)
LEMMA FlagKept ==
  ASSUME TypeOK, FlagHasRun, up' => up, unrecorded \subseteq unrecorded',
         \A s \in Slots : ~Free(s) /\ runs[s].phase # "loaded" =>
           /\ ~Free(s)' /\ runs'[s].id = runs[s].id /\ runs'[s].phase # "loaded",
         \A i \in Ids : Exists(i)' /\ jobs'[i].running =>
           \/ Exists(i) /\ jobs[i].running
           \/ \E s \in Slots : ~Free(s)' /\ runs'[s].id = i /\ runs'[s].phase # "loaded"
  PROVE  FlagHasRun'
  BY DEF FlagHasRun, InFlight, Free

LEMMA FlagInit == Init => FlagHasRun
  BY DEF Init, FlagHasRun, Exists

LEMMA FlagNext == TypeOK /\ FlagHasRun /\ [Next]_vars => FlagHasRun'
<1> SUFFICES ASSUME TypeOK, FlagHasRun, [Next]_vars PROVE FlagHasRun'
  OBVIOUS
<1>1. ASSUME NEW kind \in Kinds, NEW sch \in Schedules, ScheduleJob(kind, sch)
      PROVE  FlagHasRun'
  BY <1>1, FlagKept DEF ScheduleJob, TypeOK, Exists, Free
<1>2. ASSUME NEW i \in Ids, CancelJob(i)
      PROVE  FlagHasRun'
  BY <1>2, FlagKept DEF CancelJob, TypeOK, Exists, Free, history
<1>3. ASSUME NEW i \in Ids, NEW sch \in Schedules, RescheduleJob(i, sch)
      PROVE  FlagHasRun'
  <2>1. \A j \in Ids : Exists(j)' /\ jobs'[j].running => Exists(j) /\ jobs[j].running
    BY <1>3, RescheduleFacts
  <2> QED
    BY <1>3, <2>1, FlagKept DEF RescheduleJob, Free, history
<1>4. ASSUME NEW i \in Ids, LoadByHand(i)
      PROVE  FlagHasRun'
  BY <1>4, LoadFacts, FlagKept DEF LoadByHand, Exists, Free
<1>5. CASE Tick \/ AbortTick \/ Pass \/ UNCHANGED vars
  BY <1>5, FlagKept DEF Tick, AbortTick, Pass, vars, Exists, Free, history
<1>6. ASSUME NEW job \in poll, Fire(job)
      PROVE  FlagHasRun'
  <2>1. PICK s \in Slots :
          /\ Free(s) /\ ~Free(s)' /\ runs'[s].id = job.id /\ runs'[s].phase = "marked"
          /\ \A r \in Slots : r # s => runs'[r] = runs[r]
    BY <1>6, FireFacts
  <2>2. \A j \in Ids : j # job.id /\ Exists(j)' => Exists(j) /\ jobs'[j] = jobs[j]
    BY <1>6, FireFacts, SetRunningFacts
  <2>3. \A r \in Slots : ~Free(r) => ~Free(r)' /\ runs'[r] = runs[r]
    BY <2>1 DEF Free
  <2> QED
    BY <1>6, <2>1, <2>2, <2>3, FlagKept DEF Fire
<1>7. ASSUME NEW s \in Slots, MarkByHand(s)
      PROVE  FlagHasRun'
  <2>1. \A j \in Ids : j # runs[s].id /\ Exists(j)' => Exists(j) /\ jobs'[j] = jobs[j]
    BY <1>7, StepFacts, RunFacts, SetRunningFacts DEF MarkByHand
  <2> QED
    BY <1>7, <2>1, StepFacts, FlagKept DEF Free, history
<1>8. ASSUME NEW s \in Slots, Begin(s) \/ End(s)
      PROVE  FlagHasRun'
  <2>1. jobs' = jobs
    BY <1>8 DEF Begin, End
  <2> QED
    BY <1>8, <2>1, StepFacts, FlagKept DEF Exists, Free, history
<1>9. ASSUME NEW s \in Slots, Record(s)
      PROVE  FlagHasRun'
  <2>1. \A j \in Ids : Exists(j)' /\ jobs'[j].running => Exists(j) /\ jobs[j].running
    BY <1>9, RecordFacts
  <2> QED
    BY <1>9, <2>1, StepFacts, FlagKept DEF Free, history
<1>10. ASSUME NEW s \in Slots, Clear(s)
       PROVE  FlagHasRun'
  <2>1. \A j \in Ids : Exists(j)' /\ jobs'[j].running =>
          j # runs[s].id /\ Exists(j) /\ jobs[j].running
    BY <1>10, ClearFacts, SetRunningFacts
  <2>2. ASSUME NEW j \in Ids, up, Exists(j)', jobs'[j].running, j \notin unrecorded
        PROVE  \E r \in Slots : ~Free(r)' /\ runs'[r].id = j /\ runs'[r].phase # "loaded"
    <3>1. PICK r \in Slots : ~Free(r) /\ runs[r].id = j /\ runs[r].phase # "loaded"
      BY <2>1, <2>2 DEF FlagHasRun, InFlight, Free
    <3>2. r # s
      BY <2>1, <2>2, <3>1
    <3> QED
      BY <1>10, ClearFacts, <3>1, <3>2 DEF Free
  <2>3. UNCHANGED <<up, unrecorded>>
    BY <1>10 DEF Clear, history
  <2> QED
    BY <2>2, <2>3 DEF FlagHasRun, InFlight, Free
<1>11. ASSUME NEW s \in Slots, RecordThrows(s)
       PROVE  FlagHasRun'
  <2>1. CASE Die
    BY <2>1 DEF Die, FlagHasRun
  <2>2. CASE /\ Advance(s, NoRun) /\ unrecorded' = unrecorded \cup {runs[s].id}
             /\ UNCHANGED <<up, poll, fired>>
    <3>1. \A r \in Slots : r # s => runs'[r] = runs[r]
      BY <2>2 DEF Advance, TypeOK
    <3>2. jobs' = jobs
      BY <1>11 DEF RecordThrows
    <3> QED
      BY <2>2, <3>1, <3>2 DEF FlagHasRun, InFlight, Exists
  <2> QED
    BY <1>11, <2>1, <2>2 DEF RecordThrows
<1>12. CASE Crash
  BY <1>12 DEF Crash, Die, FlagHasRun
<1>13. CASE Restart
  <2>1. \A i \in Ids : ~(Exists(i)' /\ jobs'[i].running)
    BY <1>13, RowFacts DEF Restart, TypeOK, Exists, Row
  <2> QED
    BY <2>1 DEF FlagHasRun
<1>14. ASSUME NEW state \in Accounts, ChangeAccount(state)
       PROVE  FlagHasRun'
  BY <1>14, FlagKept DEF ChangeAccount, Exists, Free, history
<1> QED
  BY <1>1, <1>2, <1>3, <1>4, <1>5, <1>6, <1>7, <1>8, <1>9, <1>10, <1>11, <1>12, <1>13,
     <1>14 DEF Next, RunStep, FireNext

(***************************************************************************)
(* A job has one id for life, and what was fired was due                   *)
(***************************************************************************)

(* The homes known stay right while no job is created: every row, polled row *)
(* and run there is afterwards is one there was, or a copy of one.           *)
LEMMA HomesKept ==
  ASSUME TypeOK, OneHome, created' = created,
         \A i \in Ids : Exists(i)' => Exists(i) /\ jobs'[i].born = jobs[i].born,
         \A job \in poll' : \/ job \in poll
                            \/ job.id \in Ids /\ Exists(job.id) /\ job.row = jobs[job.id],
         \A s \in Slots : ~Free(s)' =>
           \/ ~Free(s) /\ runs'[s].id = runs[s].id /\ runs'[s].row = runs[s].row
           \/ \E job \in poll : runs'[s].id = job.id /\ runs'[s].row = job.row
           \/ \E i \in Ids : Exists(i) /\ runs'[s].id = i /\ runs'[s].row = jobs[i]
  PROVE  OneHome'
<1>1. PICK home \in [1..MaxJobs -> Nat] : HomeOf(home)
  BY DEF OneHome
<1>2. \A i \in Ids : Exists(i)' => jobs'[i].born <= created' /\ home[jobs'[i].born] = i
  BY <1>1 DEF HomeOf
<1>3. \A job \in poll' : job.row.born <= created' /\ home[job.row.born] = job.id
  BY <1>1 DEF HomeOf
<1>4. \A s \in Slots : ~Free(s)' =>
        runs'[s].row.born <= created' /\ home[runs'[s].row.born] = runs'[s].id
  BY <1>1 DEF HomeOf
<1>5. HomeOf(home)'
  BY <1>2, <1>3, <1>4 DEF HomeOf
<1> QED
  BY <1>5 DEF OneHome

LEMMA HomesInit == Init => OneHome
<1> SUFFICES ASSUME Init PROVE OneHome
  OBVIOUS
<1>1. HomeOf([b \in 1..MaxJobs |-> 0])
  BY DEF Init, HomeOf, Exists, Free
<1> QED
  BY <1>1 DEF OneHome

LEMMA HomesNext == TypeOK /\ OneHome /\ [Next]_vars => OneHome'
<1> SUFFICES ASSUME TypeOK, OneHome, [Next]_vars PROVE OneHome'
  OBVIOUS
<1>1. ASSUME NEW kind \in Kinds, NEW sch \in Schedules, ScheduleJob(kind, sch)
      PROVE  OneHome'
  <2>1. PICK home \in [1..MaxJobs -> Nat] : HomeOf(home)
    BY DEF OneHome
  <2>2. NewId \in Ids /\ created + 1 \in 1..MaxJobs /\ created' = created + 1
    BY <1>1, NewIdIsPositive, BoundsAssumption DEF ScheduleJob, Ids, TypeOK
  <2>3. PICK new \in [1..MaxJobs -> Nat] :
          /\ new[created + 1] = NewId
          /\ \A b \in 1..MaxJobs : b # created + 1 => new[b] = home[b]
    <3>1. [home EXCEPT ![created + 1] = NewId] \in [1..MaxJobs -> Nat]
      BY NewIdIsPositive
    <3> QED
      BY <2>2, <3>1
  <2>4. \A b \in 1..MaxJobs : b <= created => new[b] = home[b]
    BY <2>3 DEF TypeOK
  <2>5. \A i \in Ids : Exists(i)' =>
          \/ i = NewId /\ jobs'[i].born = created + 1
          \/ i # NewId /\ Exists(i) /\ jobs'[i] = jobs[i]
    BY <1>1, <2>2 DEF ScheduleJob, Exists, TypeOK
  <2>6. \A i \in Ids : Exists(i)' => jobs'[i].born <= created' /\ new[jobs'[i].born] = i
    BY <2>1, <2>2, <2>3, <2>4, <2>5, RowFacts DEF HomeOf, TypeOK
  <2>7. \A job \in poll' : job.row.born <= created' /\ new[job.row.born] = job.id
    <3>1. \A job \in poll : job.row.born \in 1..MaxJobs
      BY DEF TypeOK, Row
    <3> QED
      BY <1>1, <2>1, <2>2, <2>4, <3>1 DEF HomeOf, ScheduleJob, TypeOK
  <2>8. \A s \in Slots : ~Free(s)' =>
          runs'[s].row.born <= created' /\ new[runs'[s].row.born] = runs'[s].id
    BY <1>1, <2>1, <2>2, <2>4, RunFacts DEF HomeOf, ScheduleJob, TypeOK, Free
  <2>9. HomeOf(new)'
    BY <2>6, <2>7, <2>8 DEF HomeOf
  <2> QED
    BY <2>3, <2>9 DEF OneHome
<1>2. ASSUME NEW i \in Ids, CancelJob(i)
      PROVE  OneHome'
  BY <1>2, HomesKept DEF CancelJob, TypeOK, Exists, Free, history
<1>3. ASSUME NEW i \in Ids, NEW sch \in Schedules, RescheduleJob(i, sch)
      PROVE  OneHome'
  BY <1>3, RescheduleFacts, HomesKept DEF RescheduleJob, Free, history
<1>4. ASSUME NEW i \in Ids, LoadByHand(i)
      PROVE  OneHome'
  <2>1. /\ Exists(i) /\ created' = created /\ poll' = poll
        /\ \A j \in Ids : Exists(j)' => Exists(j) /\ jobs'[j] = jobs[j]
    BY <1>4 DEF LoadByHand, Exists
  <2> QED
    BY <1>4, <2>1, LoadFacts, HomesKept DEF Free
<1>5. CASE Tick
  BY <1>5, HomesKept DEF Tick, DueRows, Due, Exists, Free, history
<1>6. ASSUME NEW job \in poll, Fire(job)
      PROVE  OneHome'
  <2>1. created' = created /\ poll' \subseteq poll
    BY <1>6 DEF Fire
  <2>2. \A j \in Ids : Exists(j)' => Exists(j) /\ jobs'[j].born = jobs[j].born
    BY <1>6, FireFacts, SetRunningFacts
  <2>3. PICK s \in Slots :
          /\ Free(s) /\ runs'[s].id = job.id /\ runs'[s].row = job.row
          /\ \A r \in Slots : r # s => runs'[r] = runs[r]
    BY <1>6, FireFacts
  <2>4. \A r \in Slots : ~Free(r)' =>
          \/ ~Free(r) /\ runs'[r].id = runs[r].id /\ runs'[r].row = runs[r].row
          \/ runs'[r].id = job.id /\ runs'[r].row = job.row
    BY <2>3 DEF Free
  <2> QED
    BY <2>1, <2>2, <2>4, HomesKept
<1>7. CASE AbortTick \/ Pass \/ UNCHANGED vars
  BY <1>7, HomesKept DEF AbortTick, Pass, vars, Exists, Free, history
<1>8. ASSUME NEW s \in Slots, MarkByHand(s) \/ Begin(s) \/ End(s) \/ Record(s)
      PROVE  OneHome'
  <2>1. \A i \in Ids : Exists(i)' => Exists(i) /\ jobs'[i].born = jobs[i].born
    BY <1>8, RunFacts, RecordFacts, SetRunningFacts
       DEF MarkByHand, Begin, End, Exists, Free
  <2> QED
    BY <1>8, <2>1, StepFacts, HomesKept DEF Free, history
<1>9. ASSUME NEW s \in Slots, Clear(s)
      PROVE  OneHome'
  <2>1. \A i \in Ids : Exists(i)' => Exists(i) /\ jobs'[i].born = jobs[i].born
    BY <1>9, ClearFacts, SetRunningFacts
  <2> QED
    BY <1>9, <2>1, ClearFacts, HomesKept DEF Free, history
<1>10. ASSUME Die, UNCHANGED <<jobs, created>>
       PROVE  OneHome'
  BY <1>10, HomesKept DEF Die, Exists, Free
<1>11. ASSUME NEW s \in Slots, RecordThrows(s)
       PROVE  OneHome'
  <2>1. UNCHANGED <<jobs, created>>
    BY <1>11 DEF RecordThrows
  <2>2. CASE Advance(s, NoRun) /\ UNCHANGED poll
    BY <2>1, <2>2, HomesKept DEF Advance, TypeOK, Exists, Free
  <2> QED
    BY <1>10, <1>11, <2>1, <2>2 DEF RecordThrows
<1>12. CASE Crash
  BY <1>10, <1>12 DEF Crash
<1>13. CASE Restart
  <2>1. \A i \in Ids : Exists(i)' => Exists(i) /\ jobs'[i].born = jobs[i].born
    BY <1>13, RowFacts DEF Restart, TypeOK, Exists, Row
  <2> QED
    BY <1>13, <2>1, HomesKept DEF Restart, Free, history
<1>14. ASSUME NEW state \in Accounts, ChangeAccount(state)
       PROVE  OneHome'
  BY <1>14, HomesKept DEF ChangeAccount, Exists, Free, history
<1> QED
  BY <1>1, <1>2, <1>3, <1>4, <1>5, <1>6, <1>7, <1>8, <1>9, <1>11, <1>12, <1>13, <1>14
     DEF Next, RunStep, FireNext

LEMMA FiredInit == Init => FiredWasDue
  BY DEF Init, FiredWasDue

LEMMA FiredNext == TypeOK /\ OneHome /\ FiredWasDue /\ [Next]_vars => FiredWasDue'
<1> SUFFICES ASSUME TypeOK, OneHome, FiredWasDue, [Next]_vars PROVE FiredWasDue'
  OBVIOUS
<1>1. /\ now \in Nat /\ now' \in Nat /\ now <= now'
      /\ created \in Nat /\ created' \in Nat /\ created <= created'
  <2>1. now \in Nat /\ created \in Nat
    BY BoundsAssumption DEF TypeOK
  <2>2. now' = now \/ now' = now + 1
    BY DEF Next, RunStep, FireNext, ScheduleJob, CancelJob, RescheduleJob, LoadByHand,
         Tick, Fire, AbortTick, MarkByHand, Begin, End, Record, Clear, RecordThrows, Crash,
         Restart, Pass, ChangeAccount, history, vars
  <2>3. created' = created \/ created' = created + 1
    BY DEF Next, RunStep, FireNext, ScheduleJob, CancelJob, RescheduleJob, LoadByHand,
         Tick, Fire, AbortTick, MarkByHand, Begin, End, Record, Clear, RecordThrows, Crash,
         Restart, Pass, ChangeAccount, history, vars
  <2> QED
    BY <2>1, <2>2, <2>3
<1>2. CASE Tick
  <2>1. \A job \in poll' : job.row.next_run_at <= now
    BY <1>2 DEF Tick, DueRows, Due
  <2> QED
    BY <1>2, <2>1 DEF Tick, FiredWasDue, history
<1>3. ASSUME NEW job \in poll, Fire(job)
      PROVE  FiredWasDue'
  <2>1. job.row.born \in 1..MaxJobs /\ job.row.next_run_at \in Nat
    BY DEF TypeOK, Row
  <2>2. job.row.born <= created
    BY DEF OneHome, HomeOf
  <2> QED
    BY <1>3, <2>1, <2>2 DEF Fire, FiredWasDue
<1>4. CASE ~Tick /\ ~FireNext
  <2>1. poll' \subseteq poll /\ fired' \subseteq fired
    BY <1>4 DEF Next, RunStep, ScheduleJob, CancelJob, RescheduleJob, LoadByHand,
         AbortTick, MarkByHand, Begin, End, Record, Clear, RecordThrows, Crash, Die,
         Restart, Pass, ChangeAccount, history, vars
  <2>2. \A job \in poll : job.row.next_run_at \in Nat
    BY DEF TypeOK, Row
  <2>3. \A f \in fired : f[1] \in Nat /\ f[2] \in Nat
    BY BoundsAssumption DEF FiredWasDue
  <2> QED
    BY <1>1, <2>1, <2>2, <2>3 DEF FiredWasDue
<1> QED
  BY <1>2, <1>3, <1>4 DEF FireNext

(***************************************************************************)
(* Jobs left to the poll loop                                              *)
(***************************************************************************)
LEMMA HandInit == Init => HandIsKnown
  BY DEF Init, HandIsKnown, Free

LEMMA HandNext == TypeOK /\ HandIsKnown /\ [Next]_vars => HandIsKnown'
<1> SUFFICES ASSUME TypeOK, HandIsKnown, [Next]_vars PROVE HandIsKnown'
  OBVIOUS
<1>1. ASSUME NEW i \in Ids, LoadByHand(i)
      PROVE  HandIsKnown'
  <2>1. by_hand' = by_hand \cup {i}
    BY <1>1 DEF LoadByHand
  <2> QED
    BY <1>1, <2>1, LoadFacts DEF HandIsKnown, Free
<1>2. ASSUME NEW job \in poll, Fire(job)
      PROVE  HandIsKnown'
  <2>1. by_hand' = by_hand
    BY <1>2 DEF Fire
  <2> QED
    BY <1>2, <2>1, FireFacts DEF HandIsKnown, Free
<1>3. ASSUME NEW s \in Slots, MarkByHand(s) \/ Begin(s) \/ End(s) \/ Record(s)
      PROVE  HandIsKnown'
  BY <1>3, StepFacts DEF HandIsKnown, Free, history
<1>4. ASSUME NEW s \in Slots, Clear(s)
      PROVE  HandIsKnown'
  BY <1>4, ClearFacts DEF HandIsKnown, Free, history
<1>5. CASE UNCHANGED <<runs, by_hand>>
  BY <1>5 DEF HandIsKnown, Free
<1>6. ASSUME NEW s \in Slots, RecordThrows(s)
      PROVE  HandIsKnown'
  <2>1. by_hand' = by_hand
    BY <1>6 DEF RecordThrows
  <2>2. \A r \in Slots : ~Free(r)' => ~Free(r) /\ runs'[r] = runs[r]
    BY <1>6 DEF RecordThrows, Die, Advance, Free, TypeOK
  <2> QED
    BY <2>1, <2>2 DEF HandIsKnown
<1>7. CASE Crash
  BY <1>7 DEF Crash, Die, HandIsKnown, Free
<1> QED
  BY <1>1, <1>2, <1>3, <1>4, <1>5, <1>6, <1>7
     DEF Next, RunStep, FireNext, ScheduleJob, CancelJob, RescheduleJob, Tick, AbortTick,
         Restart, Pass, ChangeAccount, history, vars

(* Left is as good as its last change: an id never comes back to it.         *)
LEMMA LeftShrinks == [Next]_vars => Left' \subseteq Left
  BY DEF Next, RunStep, FireNext, ScheduleJob, CancelJob, RescheduleJob, LoadByHand,
         Tick, Fire, AbortTick, MarkByHand, Begin, End, Record, Clear, RecordThrows, Crash,
         Restart, Pass, ChangeAccount, history, vars, Left

(* Two ids are two jobs, wherever they are met.                              *)
LEMMA IdsAreJobs ==
  ASSUME OneHome
  PROVE  /\ \A job, other \in poll : job.row.born = other.row.born => job.id = other.id
         /\ \A job \in poll, i \in Ids :
              Exists(i) /\ jobs[i].born = job.row.born => job.id = i
         /\ \A job \in poll, s \in Slots :
              ~Free(s) /\ runs[s].row.born = job.row.born => job.id = runs[s].id
  BY DEF OneHome, HomeOf

(* A step that polls and fires nothing and creates no job keeps PollInv when *)
(* each run stays what it is or ends, a row that is idle stays idle, and the *)
(* next time of an idle row only moves to the future or where its run says.  *)
LEMMA PollInvKept ==
  ASSUME TypeOK, TypeOK', FiredWasDue, PollInv,
         Left' \subseteq Left, poll' \subseteq poll, fired' \subseteq fired,
         \A s \in Slots : ~Free(s)' /\ runs'[s].id \in Left' =>
           /\ ~Free(s) /\ runs'[s].id = runs[s].id /\ runs'[s].row = runs[s].row
           /\ runs'[s].phase = "ended" =>
                \/ runs[s].phase = "ended" /\ runs'[s].next = runs[s].next
                \/ runs'[s].next > now,
         \A i \in Left' : Exists(i)' =>
           /\ Exists(i) /\ jobs'[i].born = jobs[i].born
           /\ \/ jobs'[i].running = jobs[i].running
              \/ ~jobs'[i].running /\ \A s \in Slots : ~Free(s)' => runs'[s].id # i
           /\ (\A s \in Slots : ~Free(s)' /\ runs'[s].id = i => runs'[s].phase = "recorded")
              => \/ jobs'[i].next_run_at > now
                 \/ /\ jobs'[i].next_run_at = jobs[i].next_run_at
                    /\ \A s \in InFlight(i) : runs[s].phase = "recorded"
                 \/ \E s \in Slots : /\ ~Free(s) /\ runs[s].id = i
                                     /\ runs[s].phase = "ended"
                                     /\ jobs'[i].next_run_at = runs[s].next
  PROVE  PollInv'
<1>0. \A born, t : t \in Int /\ t > now => Before(born, t)
  <2>1. now \in Int /\ \A f \in fired : f[2] \in Int /\ f[2] <= now
    BY DEF TypeOK, FiredWasDue
  <2> QED
    BY <2>1 DEF Before
<1>1. OneRunPerJob'
  BY DEF PollInv, OneRunPerJob
<1>2. RunOwnsRow'
  BY DEF PollInv, RunOwnsRow
<1>3. PolledIsIdle'
  BY DEF PollInv, PolledIsIdle
<1>4. \A i \in Left' : Exists(i)' /\ (\A s \in InFlight(i)' : runs'[s].phase = "recorded")
        => Before(jobs[i].born, jobs'[i].next_run_at)
  <2> SUFFICES ASSUME NEW i \in Left', Exists(i)',
                      \A s \in InFlight(i)' : runs'[s].phase = "recorded"
               PROVE  Before(jobs[i].born, jobs'[i].next_run_at)
    OBVIOUS
  <2>1. Exists(i) /\ i \in Left /\ i \in Ids /\ jobs'[i].next_run_at \in Int
    BY DEF Left, TypeOK, Exists, Row
  <2>2. CASE jobs'[i].next_run_at > now
    BY <1>0, <2>1, <2>2
  <2>3. CASE /\ jobs'[i].next_run_at = jobs[i].next_run_at
             /\ \A s \in InFlight(i) : runs[s].phase = "recorded"
    BY <2>1, <2>3 DEF PollInv, NextIsFresh
  <2>4. ASSUME NEW s \in Slots, ~Free(s), runs[s].id = i, runs[s].phase = "ended",
               jobs'[i].next_run_at = runs[s].next
        PROVE  Before(jobs[i].born, jobs'[i].next_run_at)
    BY <2>1, <2>4 DEF PollInv, NextIsFresh, RunOwnsRow
  <2>5. \A s \in Slots : ~Free(s)' /\ runs'[s].id = i => runs'[s].phase = "recorded"
    BY DEF InFlight, Free
  <2> QED
    BY <2>2, <2>3, <2>4, <2>5
<1>5. \A job \in poll' : job.id \in Left' => Before(job.row.born, job.row.next_run_at)
  BY DEF PollInv, NextIsFresh
<1>6. ASSUME NEW s \in Slots, ~Free(s)', runs'[s].id \in Left', runs'[s].phase = "ended"
      PROVE  Before(runs'[s].row.born, runs'[s].next)
  <2>1. runs'[s].next \in Int
    BY <1>6 DEF TypeOK, Run, Free
  <2> QED
    BY <1>0, <1>6, <2>1 DEF PollInv, NextIsFresh
<1>7. NextIsFresh'
  BY <1>4, <1>5, <1>6 DEF NextIsFresh, Before
<1> QED
  BY <1>1, <1>2, <1>3, <1>7 DEF PollInv

LEMMA PollInvInit == Init => PollInv
  BY DEF Init, PollInv, OneRunPerJob, RunOwnsRow, PolledIsIdle, NextIsFresh, Before, Exists,
         Free

LEMMA PollInvNext ==
  TypeOK /\ OneHome /\ FiredWasDue /\ HandIsKnown /\ PollInv /\ [Next]_vars => PollInv'
<1> SUFFICES ASSUME TypeOK, OneHome, FiredWasDue, HandIsKnown, PollInv, [Next]_vars
             PROVE  PollInv'
  OBVIOUS
<1>a. TypeOK' /\ Left' \subseteq Left /\ Left \subseteq Ids
  BY TypeNext, LeftShrinks DEF Left
<1>1. ASSUME NEW kind \in Kinds, NEW sch \in Schedules, ScheduleJob(kind, sch)
      PROVE  PollInv'
  <2>1. NewId \in Ids /\ poll' = poll /\ runs' = runs /\ fired' = fired
    BY <1>1, NewIdIsPositive DEF ScheduleJob, Ids
  <2>2. /\ jobs'[NewId].born = created + 1
        /\ \A i \in Ids : i # NewId => jobs'[i] = jobs[i]
    BY <1>1, <2>1 DEF ScheduleJob, TypeOK
  <2>3. NewId \in Left' => /\ \A s \in Slots : ~Free(s) => runs[s].id # NewId
                           /\ \A job \in poll : job.id # NewId
    BY <1>1 DEF ScheduleJob, Left, InFlight, Free
  <2>4. \A t : Before(created + 1, t)
    BY DEF FiredWasDue, Before, TypeOK
  <2>5. OneRunPerJob' /\ RunOwnsRow'
    BY <1>a, <2>1, <2>2, <2>3 DEF PollInv, OneRunPerJob, RunOwnsRow, Free, Exists
  <2>6. PolledIsIdle'
    BY <1>a, <2>1, <2>2, <2>3 DEF PollInv, PolledIsIdle, Free, Exists
  <2>7. NextIsFresh'
    BY <1>a, <2>1, <2>2, <2>4 DEF PollInv, NextIsFresh, Before, InFlight, Free, Exists
  <2> QED
    BY <2>5, <2>6, <2>7 DEF PollInv
<1>2. ASSUME NEW i \in Ids, CancelJob(i)
      PROVE  PollInv'
  <2>1. \A j \in Ids : Exists(j)' => Exists(j) /\ jobs'[j] = jobs[j]
    BY <1>2 DEF CancelJob, TypeOK, Exists
  <2> QED
    BY <1>2, <1>a, <2>1, PollInvKept DEF CancelJob, Free, InFlight, history
<1>3. ASSUME NEW i \in Ids, NEW sch \in Schedules, RescheduleJob(i, sch)
      PROVE  PollInv'
  BY <1>3, <1>a, RescheduleFacts, PollInvKept
     DEF RescheduleJob, Free, InFlight, Exists, history
<1>4. ASSUME NEW i \in Ids, LoadByHand(i)
      PROVE  PollInv'
  <2>1. i \notin Left' /\ jobs' = jobs /\ poll' = poll /\ fired' = fired
    BY <1>4 DEF LoadByHand, Left
  <2> QED
    BY <1>4, <1>a, <2>1, LoadFacts, PollInvKept DEF Free, InFlight, Exists
<1>5. CASE Tick
  <2>1. /\ runs' = runs /\ jobs' = jobs /\ fired' = fired /\ Left' = Left
        /\ poll' = {[id |-> i, row |-> jobs[i]] : i \in DueRows}
    BY <1>5 DEF Tick, Left, history
  <2>2. \A job \in poll' : /\ job.id \in Ids /\ Exists(job.id) /\ job.row = jobs[job.id]
                           /\ ~jobs[job.id].running
    BY <2>1 DEF DueRows, Due
  <2>3. \A job, other \in poll' : job.id = other.id => job = other
    BY <2>1
  <2>4. \A job \in poll', s \in Slots : job.id \in Left /\ ~Free(s) => runs[s].id # job.id
    BY <2>2 DEF PollInv, RunOwnsRow
  <2>5. OneRunPerJob' /\ RunOwnsRow'
    BY <2>1 DEF PollInv, OneRunPerJob, RunOwnsRow, Free, Exists
  <2>6. PolledIsIdle'
    BY <2>1, <2>2, <2>3, <2>4 DEF PolledIsIdle, Free, Exists
  <2>7. \A job \in poll' : job.id \in Left => Before(job.row.born, job.row.next_run_at)
    BY <2>2, <2>4 DEF PollInv, NextIsFresh, InFlight, Free
  <2>8. NextIsFresh'
    BY <2>1, <2>7 DEF PollInv, NextIsFresh, Before, InFlight, Free, Exists
  <2> QED
    BY <2>5, <2>6, <2>8 DEF PollInv
<1>6. ASSUME NEW job \in poll, Fire(job)
      PROVE  PollInv'
  <2>1. PICK s \in Slots :
          /\ Free(s) /\ ~Free(s)'
          /\ runs'[s].id = job.id /\ runs'[s].row = job.row /\ runs'[s].phase = "marked"
          /\ \A r \in Slots : r # s => runs'[r] = runs[r]
    BY <1>6, FireFacts
  <2>2. /\ Left' = Left /\ poll' = poll \ {job}
        /\ fired' = fired \cup {<<job.row.born, job.row.next_run_at>>}
    BY <1>6 DEF Fire, Left
  <2>3. /\ job.id \in Ids
        /\ \A j \in Ids : j # job.id => jobs'[j] = jobs[j]
        /\ \A j \in Ids : Exists(j)' <=> Exists(j)
        /\ \A j \in Ids : Exists(j) =>
             jobs'[j].born = jobs[j].born /\ jobs'[j].next_run_at = jobs[j].next_run_at
        /\ Exists(job.id) => jobs'[job.id].running
    BY <1>6, FireFacts, SetRunningFacts
  <2>4. \A r \in Slots : ~Free(r)' => r = s \/ (~Free(r) /\ r # s /\ runs'[r] = runs[r])
    BY <2>1 DEF Free
  <2>5. job.id \in Left => \A r \in Slots : ~Free(r) => runs[r].id # job.id
    BY DEF PollInv, PolledIsIdle
  <2>6. OneRunPerJob'
    BY <2>1, <2>2, <2>4, <2>5 DEF PollInv, OneRunPerJob
  <2>7. RunOwnsRow'
    <3>1. job.id \in Left /\ Exists(job.id) => jobs[job.id].born = job.row.born
      BY DEF PollInv, PolledIsIdle
    <3>2. \A r \in Slots : ~Free(r) => runs[r].id \in Ids
      BY RunFacts
    <3> QED
      BY <2>1, <2>2, <2>3, <2>4, <2>5, <3>1, <3>2 DEF PollInv, RunOwnsRow
  <2>8. PolledIsIdle'
    <3>1. \A other \in poll' : other.id # job.id /\ other \in poll
      BY <2>2 DEF PollInv, PolledIsIdle
    <3>2. \A other \in poll : other.id \in Ids
      BY DEF TypeOK
    <3> QED
      BY <2>1, <2>2, <2>3, <2>4, <3>1, <3>2 DEF PollInv, PolledIsIdle
  <2>9. NextIsFresh'
    <3>1. \A born, t : born # job.row.born /\ Before(born, t)
                       => \A f \in fired' : f[1] = born => f[2] < t
      BY <2>2 DEF Before
    <3>2. ASSUME NEW i \in Left, Exists(i)',
                 \A r \in InFlight(i)' : runs'[r].phase = "recorded"
          PROVE  \A f \in fired' : f[1] = jobs'[i].born => f[2] < jobs'[i].next_run_at
      <4>1. i # job.id
        BY <3>2, <2>1 DEF InFlight, Free
      <4>2. Exists(i) /\ jobs'[i] = jobs[i] /\ jobs[i].born # job.row.born
        BY <3>2, <4>1, <2>3, <1>a, IdsAreJobs
      <4>3. \A r \in InFlight(i) : runs[r].phase = "recorded"
        BY <3>2, <2>1 DEF InFlight, Free
      <4> QED
        BY <3>1, <3>2, <4>2, <4>3 DEF PollInv, NextIsFresh
    <3>3. ASSUME NEW other \in poll', other.id \in Left
          PROVE  \A f \in fired' : f[1] = other.row.born => f[2] < other.row.next_run_at
      <4>1. other \in poll /\ other.id # job.id
        BY <2>2 DEF PollInv, PolledIsIdle
      <4> QED
        BY <3>1, <3>3, <4>1, IdsAreJobs DEF PollInv, NextIsFresh
    <3>4. ASSUME NEW r \in Slots, ~Free(r)', runs'[r].id \in Left, runs'[r].phase = "ended"
          PROVE  \A f \in fired' : f[1] = runs'[r].row.born => f[2] < runs'[r].next
      <4>1. ~Free(r) /\ runs'[r] = runs[r] /\ runs[r].id # job.id
        BY <3>4, <2>1, <2>4, <2>5
      <4> QED
        BY <3>1, <3>4, <4>1, IdsAreJobs DEF PollInv, NextIsFresh
    <3> QED
      BY <2>2, <3>2, <3>3, <3>4 DEF NextIsFresh, Before
  <2> QED
    BY <2>6, <2>7, <2>8, <2>9 DEF PollInv
<1>7. CASE AbortTick
  BY <1>7, <1>a, PollInvKept DEF AbortTick, Free, InFlight, Exists, history
<1>8. ASSUME NEW s \in Slots, MarkByHand(s)
      PROVE  PollInv'
  <2>1. runs[s].id \in Ids /\ runs[s].id \notin Left'
    BY <1>8, StepFacts, RunFacts DEF MarkByHand, HandIsKnown, Left, history
  <2>2. \A j \in Left' : jobs'[j] = jobs[j] /\ (Exists(j)' <=> Exists(j))
    BY <1>8, <1>a, <2>1, SetRunningFacts DEF MarkByHand
  <2> QED
    BY <1>8, <1>a, <2>1, <2>2, StepFacts, PollInvKept DEF Free, InFlight, history
<1>9. ASSUME NEW s \in Slots, Begin(s) \/ End(s)
      PROVE  PollInv'
  <2>1. jobs' = jobs
    BY <1>9 DEF Begin, End
  <2>2. runs[s].phase # "ended"
    BY <1>9 DEF Begin, End
  <2> QED
    BY <1>9, <1>a, <2>1, <2>2, StepFacts, PollInvKept DEF Free, InFlight, Exists, history
<1>10. ASSUME NEW s \in Slots, Record(s)
       PROVE  PollInv'
  <2>1. runs[s].phase = "ended" /\ ~Free(s) /\ fired' = fired /\ poll' = poll
    BY <1>10 DEF Record, Free, history
  <2>2. \A r \in Slots : ~Free(r)' =>
          ~Free(r) /\ runs'[r].id = runs[r].id /\ runs'[r].row = runs[r].row
    BY <1>10, StepFacts DEF Free
  <2>3. \A r \in Slots : ~Free(r)' /\ runs'[r].phase = "ended" => runs'[r] = runs[r]
    BY <1>10, <2>1, StepFacts
  <2>4. \A i \in Left' : Exists(i)' =>
          Exists(i) /\ jobs'[i].born = jobs[i].born /\ jobs'[i].running = jobs[i].running
    BY <1>10, <1>a, RecordFacts
  <2>5. ASSUME NEW i \in Left', Exists(i)',
               \A r \in Slots : ~Free(r)' /\ runs'[r].id = i => runs'[r].phase = "recorded"
        PROVE  \/ /\ jobs'[i].next_run_at = jobs[i].next_run_at
                  /\ \A r \in InFlight(i) : runs[r].phase = "recorded"
               \/ \E r \in Slots : /\ ~Free(r) /\ runs[r].id = i
                                   /\ runs[r].phase = "ended"
                                   /\ jobs'[i].next_run_at = runs[r].next
    <3>1. CASE i = runs[s].id
      BY <1>10, <1>a, <2>1, <2>4, <2>5, <3>1, RecordFacts
    <3>2. CASE i # runs[s].id
      BY <1>10, <1>a, <2>5, <3>2, StepFacts, RecordFacts DEF InFlight, Free
    <3> QED
      BY <3>1, <3>2
  <2> QED
    BY <1>a, <2>1, <2>2, <2>3, <2>4, <2>5, PollInvKept
<1>11. ASSUME NEW s \in Slots, Clear(s)
       PROVE  PollInv'
  <2>1. /\ ~Free(s) /\ Free(s)' /\ runs[s].phase = "recorded" /\ runs[s].id \in Ids
        /\ fired' = fired /\ poll' = poll
        /\ \A r \in Slots : r # s => runs'[r] = runs[r]
    BY <1>11, ClearFacts DEF history
  <2>2. \A r \in Slots : ~Free(r)' => r # s /\ ~Free(r) /\ runs'[r] = runs[r]
    BY <2>1 DEF Free
  <2>3. \A i \in Ids : Exists(i)' =>
          /\ Exists(i) /\ jobs'[i].born = jobs[i].born
          /\ jobs'[i].next_run_at = jobs[i].next_run_at
          /\ i # runs[s].id => jobs'[i] = jobs[i]
          /\ i = runs[s].id => ~jobs'[i].running
    BY <1>11, ClearFacts, SetRunningFacts
  <2>4. \A i \in Left' : i = runs[s].id => \A r \in Slots : ~Free(r)' => runs'[r].id # i
    BY <1>a, <2>1, <2>2 DEF PollInv, OneRunPerJob
  <2>5. \A i \in Left' :
          (\A r \in Slots : ~Free(r)' /\ runs'[r].id = i => runs'[r].phase = "recorded")
          => \A r \in InFlight(i) : runs[r].phase = "recorded"
    BY <2>1 DEF InFlight, Free
  <2> QED
    BY <1>a, <2>1, <2>2, <2>3, <2>4, <2>5, PollInvKept
<1>12. ASSUME Die, UNCHANGED jobs
       PROVE  PollInv'
  BY <1>12 DEF Die, PollInv, OneRunPerJob, RunOwnsRow, PolledIsIdle, NextIsFresh, Before, Free
<1>13. ASSUME NEW s \in Slots, RecordThrows(s)
       PROVE  PollInv'
  <2>1. jobs' = jobs
    BY <1>13 DEF RecordThrows
  <2>2. CASE runs[s].by = "hand" /\ Advance(s, NoRun) /\ UNCHANGED <<up, poll, fired>>
    <3>1. \A r \in Slots : r # s => runs'[r] = runs[r]
      BY <2>2 DEF Advance, TypeOK
    <3>2. runs'[s] = NoRun
      BY <2>2 DEF Advance, TypeOK
    <3>3. runs[s].id \notin Left'
      BY <1>13, <1>a, <2>2 DEF RecordThrows, HandIsKnown, Left, Free
    <3>4. \A r \in Slots : ~Free(r)' => r # s /\ ~Free(r) /\ runs'[r] = runs[r]
      BY <3>1, <3>2 DEF Free
    <3>5. \A i \in Left' :
            (\A r \in Slots : ~Free(r)' /\ runs'[r].id = i => runs'[r].phase = "recorded")
            => \A r \in InFlight(i) : runs[r].phase = "recorded"
      BY <3>1, <3>3 DEF InFlight, Free
    <3> QED
      BY <1>a, <2>1, <2>2, <3>4, <3>5, PollInvKept DEF Exists
  <2> QED
    BY <1>12, <1>13, <2>1, <2>2 DEF RecordThrows
<1>14. CASE Crash
  BY <1>12, <1>14 DEF Crash
<1>15. CASE Restart
  <2>1. \A s \in Slots : Free(s) /\ Free(s)'
    BY <1>15 DEF Restart, TypeOK, Free
  <2>2. \A i \in Ids : Exists(i)' =>
          /\ Exists(i) /\ jobs'[i].born = jobs[i].born
          /\ jobs'[i].next_run_at = jobs[i].next_run_at /\ ~jobs'[i].running
    BY <1>15, RowFacts DEF Restart, TypeOK, Exists, Row
  <2> QED
    BY <1>15, <1>a, <2>1, <2>2, PollInvKept DEF Restart, InFlight, Free, history
<1>16. CASE Pass \/ UNCHANGED vars
  BY <1>16, <1>a, PollInvKept DEF Pass, vars, Free, InFlight, Exists, history
<1>17. ASSUME NEW state \in Accounts, ChangeAccount(state)
       PROVE  PollInv'
  BY <1>17, <1>a, PollInvKept DEF ChangeAccount, Free, InFlight, Exists, history
<1> QED
  BY <1>1, <1>2, <1>3, <1>4, <1>5, <1>6, <1>7, <1>8, <1>9, <1>10, <1>11, <1>13, <1>14,
     <1>15, <1>16, <1>17 DEF Next, RunStep, FireNext

(***************************************************************************)
(* Theorems                                                                *)
(***************************************************************************)
LEMMA InvariantInit == Init => IInv
  BY TypeInit, FlagInit, HomesInit, FiredInit, HandInit, PollInvInit DEF IInv

LEMMA InvariantNext == IInv /\ [Next]_vars => IInv'
  BY TypeNext, FlagNext, HomesNext, FiredNext, HandNext, PollInvNext DEF IInv

(* Runs of an id left to the poll loop: at most one, and it owns the row.    *)
LEMMA RunsAlone == IInv => PollRunsAlone
<1> SUFFICES ASSUME IInv, NEW i \in Left
             PROVE  /\ Cardinality(InFlight(i)) <= 1
                    /\ \A s \in InFlight(i) : Exists(i) =>
                         runs[s].row.born = jobs[i].born /\ jobs[i].running
  BY DEF PollRunsAlone, Left
<1>1. \A s, r \in InFlight(i) : s = r
  BY DEF IInv, PollInv, OneRunPerJob, InFlight, Free
<1>2. Cardinality(InFlight(i)) <= 1
  <2>1. CASE InFlight(i) = {}
    BY <2>1, FS_EmptySet
  <2>2. CASE InFlight(i) # {}
    <3>1. PICK s \in InFlight(i) : TRUE
      BY <2>2
    <3>2. InFlight(i) = {s}
      BY <1>1, <3>1
    <3>3. Cardinality(InFlight(i)) = 1
      BY <3>2, FS_Singleton, Zenon
    <3> QED
      BY <3>3
  <2> QED
    BY <2>1, <2>2
<1> QED
  BY <1>2 DEF IInv, PollInv, RunOwnsRow, InFlight, Free

(* A run the poll loop starts for such an id is of an occurrence it has not  *)
(* fired before.                                                             *)
FiresNew ==
  \A s \in Slots :
    /\ Free(s) /\ runs'[s] # NoRun /\ runs'[s].by = "poll"
    /\ runs'[s].id \notin by_hand \cup recycled
    => <<runs'[s].row.born, runs'[s].row.next_run_at>> \notin fired

LEMMA FiresOnceStep == IInv /\ [Next]_vars => [FiresNew]_vars
<1> SUFFICES ASSUME IInv, Next PROVE FiresNew
  OBVIOUS
<1>0. TypeOK /\ TypeOK'
  BY TypeNext DEF IInv
<1> SUFFICES ASSUME NEW s \in Slots,
                    Free(s), ~Free(s)', runs'[s].by = "poll", runs'[s].id \in Left
             PROVE  <<runs'[s].row.born, runs'[s].row.next_run_at>> \notin fired
  BY <1>0 DEF FiresNew, Left, Free, TypeOK, Run
<1>1. PICK job \in poll : Fire(job)
  <2>1. ASSUME NEW i \in Ids, LoadByHand(i)
        PROVE  FALSE
    BY <2>1, <1>0, LoadFacts DEF Free
  <2>2. ASSUME NEW r \in Slots, MarkByHand(r) \/ Begin(r) \/ End(r) \/ Record(r)
        PROVE  FALSE
    BY <2>2, <1>0, StepFacts DEF Free
  <2>3. ASSUME NEW r \in Slots, Clear(r)
        PROVE  FALSE
    BY <2>3, <1>0, ClearFacts DEF Free
  <2>4. ASSUME NEW r \in Slots, RecordThrows(r)
        PROVE  FALSE
    BY <2>4, <1>0 DEF RecordThrows, Die, Advance, Free, TypeOK
  <2>5. ~Crash
    BY DEF Crash, Die, Free
  <2>6. runs' # runs
    BY DEF Free
  <2> QED
    BY <2>1, <2>2, <2>3, <2>4, <2>5, <2>6
       DEF Next, RunStep, FireNext, ScheduleJob, CancelJob, RescheduleJob, Tick, AbortTick,
           Restart, Pass, ChangeAccount
<1>2. runs'[s].id = job.id /\ runs'[s].row = job.row
  BY <1>0, <1>1, FireFacts DEF Free
<1>3. Before(job.row.born, job.row.next_run_at)
  BY <1>2 DEF IInv, PollInv, NextIsFresh
<1>4. job.row.next_run_at \in Nat
  BY <1>0 DEF TypeOK, Row
<1> QED
  BY <1>2, <1>3, <1>4 DEF Before

(***************************************************************************)
(* Theorems                                                                *)
(***************************************************************************)

(* Every column and every thread holds a value of its type, and a process    *)
(* that is down has no threads.                                              *)
THEOREM TypeCorrect == Spec => []TypeOK
<1>1. Init => IInv
  BY InvariantInit
<1>2. IInv /\ [Next]_vars => IInv'
  BY InvariantNext
<1>3. IInv => TypeOK
  BY DEF IInv
<1> QED
  BY <1>1, <1>2, <1>3, PTL DEF Spec

(* A row marked running has a run behind it, whatever overlapped, crashed or *)
(* was cancelled: due_cron_jobs never skips a job for good.                  *)
THEOREM FlagsHaveRuns == Spec => []FlagHasRun
<1>1. Init => IInv
  BY InvariantInit
<1>2. IInv /\ [Next]_vars => IInv'
  BY InvariantNext
<1>3. IInv => FlagHasRun
  BY DEF IInv
<1> QED
  BY <1>1, <1>2, <1>3, PTL DEF Spec

(* A job left to the poll loop never overlaps itself, and its run never      *)
(* writes to the row of another job.                                         *)
THEOREM JobsRunAlone == Spec => []PollRunsAlone
<1>1. Init => IInv
  BY InvariantInit
<1>2. IInv /\ [Next]_vars => IInv'
  BY InvariantNext
<1>3. IInv => PollRunsAlone
  BY RunsAlone
<1> QED
  BY <1>1, <1>2, <1>3, PTL DEF Spec

(* The poll loop fires an occurrence of such a job once in the life of the   *)
(* process.                                                                  *)
THEOREM FiresOnce == Spec => OccurrenceFiresOnce
<1>1. Init => IInv
  BY InvariantInit
<1>2. IInv /\ [Next]_vars => IInv'
  BY InvariantNext
<1>3. IInv /\ [Next]_vars => [FiresNew]_vars
  BY FiresOnceStep
<1>4. Spec => [][FiresNew]_vars
  BY <1>1, <1>2, <1>3, PTL DEF Spec
<1> QED
  BY <1>4 DEF OccurrenceFiresOnce, FiresNew
=============================================================================
