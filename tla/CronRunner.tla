------------------------------ MODULE CronRunner ------------------------------
(***************************************************************************)
(* Scheduled jobs: the cron_jobs table of memory.cpp, the poll loop and the *)
(* job threads of cron_runner.cpp, the schedule_job / cancel_job /          *)
(* run_job_now tools of cron_tool.cpp and `funes cron-schedule` of          *)
(* maint_cli.cpp, which is another process on the same database.            *)
(*                                                                         *)
(* MemoryStore locks once per statement, so each statement is an action of  *)
(* its own and everything between two of them may interleave.  What a job   *)
(* does is only whether it may run: success and failure are recorded alike, *)
(* in columns only people read (last_status, last_output, last_run_at).  A  *)
(* schedule is the function next_run_after computes from it.                *)
(***************************************************************************)
EXTENDS Integers, FiniteSets

CONSTANTS
  MaxId,          (* bound: cron_jobs ids                                  *)
  MaxRuns,        (* bound: runs in flight at once                         *)
  Schedules,
  NextAfter,      (* [Schedules -> [0..MaxTime -> Nat]]; 0: next_run_after *)
                  (* throws, nothing matches within a year                 *)
  Day,            (* the 24 hours a failed computation pushes a job out    *)
  Kinds,          (* what running a job needs: "ordinary", what a member   *)
                  (* has by default, or "privileged", what is granted      *)
  NoJob, NoRun,
  MaxTime,        (* bounds: the clock, and the jobs created               *)
  MaxJobs,
  MaxIncidents    (* bound: run_job_now and cron-schedule calls, account   *)
                  (* changes, crashes and failing statements               *)

Ids == 1..MaxId
Slots == 1..MaxRuns
Accounts == {"granted", "revoked", "deleted"}

ASSUME BoundsAssumption ==
  /\ {MaxId, MaxRuns, MaxTime, MaxJobs, MaxIncidents} \subseteq Nat
  /\ Day \in Nat \ {0}
  /\ Kinds \subseteq {"ordinary", "privileged"}
ASSUME SchedulesAssumption ==
  /\ NextAfter \in [Schedules -> [0..MaxTime -> Nat]]
  /\ \A s \in Schedules, t \in 0..MaxTime : NextAfter[s][t] = 0 \/ NextAfter[s][t] > t

VARIABLES
  jobs,         (* the table: id to row, NoJob where there is none          *)
  up,           (* the server process runs                                 *)
  poll,         (* due rows this tick has read and not yet fired            *)
  runs,         (* job threads and run_job_now calls, by slot               *)
  now,
  account,      (* the one account all jobs belong to                      *)
  (* History, read by properties and bounds only.                          *)
  created,      (* jobs created so far; a row's birth number                *)
  fired,        (* occurrences the poll loop fired since the last start     *)
  by_hand,      (* ids run_job_now was called for                          *)
  recycled,     (* ids given to a new job while a run of the old was alive  *)
  unrecorded,   (* ids whose run_job_now failed to write its end            *)
  incidents

history == <<created, fired, by_hand, recycled, unrecorded>>
vars == <<jobs, up, poll, runs, now, account, history, incidents>>

Row == [born : 1..MaxJobs, kind : Kinds, schedule : Schedules, running : BOOLEAN,
        next_run_at : Nat]
Phases == {"loaded", "marked", "executing", "ended", "recorded"}
Run == [id : Ids, row : Row, by : {"poll", "hand"}, phase : Phases,
        perms : Accounts, next : Nat]

(* "No row" and "no run" are told from every row and every run.             *)
ASSUME NullsAssumption == NoJob \notin Row /\ NoRun \notin Run

(***************************************************************************)
(* Helpers                                                                 *)
(***************************************************************************)
Exists(i) == jobs[i] # NoJob
Due(i) == Exists(i) /\ jobs[i].next_run_at <= now

(* Rows due_cron_jobs returns.  DueRowsRunning: `running = 0` left out.      *)
DueRowsRunning == {i \in Ids : Due(i)}
DueRows == {i \in Ids : Due(i) /\ ~jobs[i].running}

(* The rowid SQLite gives an INSERT into an INTEGER PRIMARY KEY table        *)
(* without AUTOINCREMENT: one more than the largest there is.                *)
NewId == 1 + (CHOOSE m \in 0..MaxId :
                /\ m = 0 \/ Exists(m)
                /\ \A i \in Ids : Exists(i) => i <= m)

(* An UPDATE by id touches whatever row has the id now.                      *)
Update(i, row) == IF Exists(i) THEN [jobs EXCEPT ![i] = row] ELSE jobs
SetRunning(i, flag) == Update(i, [jobs[i] EXCEPT !.running = flag])

InFlight(i) == {s \in Slots : runs[s] # NoRun /\ runs[s].id = i}
Free(s) == runs[s] = NoRun
Spawn(run) == \E s \in Slots :
  /\ Free(s) /\ \A r \in Slots : Free(r) => s <= r
  /\ runs' = [runs EXCEPT ![s] = run]
Advance(s, run) == runs' = [runs EXCEPT ![s] = run]

(* Permissions of the account: a deleted one parses as "{}", the defaults of *)
(* a member.                                                                 *)
Allowed(perms, kind) == perms = "granted" \/ (perms = "deleted" /\ kind = "ordinary")

(* next, in execute_and_record: from the schedule the run's snapshot holds.  *)
(* NextOccurrenceSameMinute: a match at this very minute counts as next.     *)
NextOccurrenceSameMinute(s) ==
  IF now > 0 /\ NextAfter[s][now - 1] # 0 THEN NextAfter[s][now - 1] ELSE now + Day
NextOccurrence(s) == IF NextAfter[s][now] # 0 THEN NextAfter[s][now] ELSE now + Day

Init ==
  /\ jobs = [i \in Ids |-> NoJob]
  /\ up = TRUE
  /\ poll = {}
  /\ runs = [s \in Slots |-> NoRun]
  /\ now = 0
  /\ account = "granted"
  /\ created = 0 /\ fired = {} /\ by_hand = {} /\ recycled = {} /\ unrecorded = {}
  /\ incidents = 0

Incident == incidents < MaxIncidents /\ incidents' = incidents + 1

(***************************************************************************)
(* The tools and the command line                                          *)
(***************************************************************************)
(* Only what needs a grant is checked here; the rest when the job fires.     *)
ScheduleJob(kind, s) ==
  /\ up /\ account # "deleted"
  /\ created < MaxJobs /\ NewId <= MaxId
  /\ kind = "privileged" => Allowed(account, kind)
  /\ NextAfter[s][now] # 0
  /\ jobs' = [jobs EXCEPT ![NewId] =
                [born |-> created + 1, kind |-> kind, schedule |-> s, running |-> FALSE,
                 next_run_at |-> NextAfter[s][now]]]
  /\ created' = created + 1
  /\ recycled' = IF InFlight(NewId) # {} \/ \E job \in poll : job.id = NewId
                 THEN recycled \cup {NewId} ELSE recycled
  /\ UNCHANGED <<up, poll, runs, now, account, fired, by_hand, unrecorded, incidents>>

CancelJob(i) ==
  /\ up /\ account # "deleted"
  /\ Exists(i)
  /\ jobs' = [jobs EXCEPT ![i] = NoJob]
  /\ UNCHANGED <<up, poll, runs, now, account, history, incidents>>

(* funes cron-schedule: schedule and next_run_at together, server up or not. *)
RescheduleJob(i, s) ==
  /\ Incident
  /\ Exists(i) /\ jobs[i].schedule # s
  /\ NextAfter[s][now] # 0
  /\ jobs' = Update(i, [jobs[i] EXCEPT !.schedule = s, !.next_run_at = NextAfter[s][now]])
  /\ UNCHANGED <<up, poll, runs, now, account, history>>

(* run_job_now reads the row, with the caller's permissions at hand ...      *)
LoadByHand(i) ==
  /\ up /\ account # "deleted"
  /\ Incident
  /\ Exists(i)
  /\ Spawn([id |-> i, row |-> jobs[i], by |-> "hand", phase |-> "loaded",
            perms |-> account, next |-> 0])
  /\ by_hand' = by_hand \cup {i}
  /\ UNCHANGED <<jobs, up, poll, now, account, created, fired, recycled, unrecorded>>

(* ... and marks it running, without asking whether it already is.           *)
MarkByHand(s) ==
  /\ runs[s] # NoRun /\ runs[s].phase = "loaded"
  /\ jobs' = SetRunning(runs[s].id, TRUE)
  /\ Advance(s, [runs[s] EXCEPT !.phase = "marked"])
  /\ UNCHANGED <<up, poll, now, account, history, incidents>>

(***************************************************************************)
(* The poll loop                                                           *)
(***************************************************************************)
Tick ==
  /\ up /\ poll = {}
  /\ DueRows # {}
  /\ poll' = {[id |-> i, row |-> jobs[i]] : i \in DueRows}
  /\ UNCHANGED <<jobs, up, runs, now, account, history, incidents>>

(* The next row of the tick, oldest first: marked running and given a thread. *)
Fire(job) ==
  /\ job \in poll
  /\ \A other \in poll : job.row.next_run_at <= other.row.next_run_at
  /\ poll' = poll \ {job}
  /\ jobs' = SetRunning(job.id, TRUE)
  /\ Spawn([id |-> job.id, row |-> job.row, by |-> "poll", phase |-> "marked",
            perms |-> account, next |-> 0])
  /\ fired' = fired \cup {<<job.row.born, job.row.next_run_at>>}
  /\ UNCHANGED <<up, now, account, created, by_hand, recycled, unrecorded, incidents>>

(* Marking threw (the database was busy): the rest of the tick is dropped.   *)
AbortTick ==
  /\ poll # {}
  /\ Incident
  /\ poll' = {}
  /\ UNCHANGED <<jobs, up, runs, now, account, history>>

(***************************************************************************)
(* execute_and_record                                                      *)
(***************************************************************************)
(* A scheduled run resolves its owner's permissions now; run_job_now uses    *)
(* the caller's.  A run that may not go on ends here, as an error.           *)
Perms(run) == IF run.by = "hand" THEN run.perms ELSE account

Ended(run) == [run EXCEPT !.phase = "ended", !.perms = "granted",
                          !.next = NextOccurrence(run.row.schedule)]

(* BeginOrReturn: a refused run returns at once, past the bookkeeping.       *)
BeginOrReturn(s) ==
  /\ runs[s] # NoRun /\ runs[s].phase = "marked"
  /\ LET run == [runs[s] EXCEPT !.perms = Perms(runs[s])]
     IN Advance(s, IF Allowed(run.perms, run.row.kind)
                   THEN [run EXCEPT !.phase = "executing"] ELSE NoRun)
  /\ UNCHANGED <<jobs, up, poll, now, account, history, incidents>>
Begin(s) ==
  /\ runs[s] # NoRun /\ runs[s].phase = "marked"
  /\ LET run == [runs[s] EXCEPT !.perms = Perms(runs[s])]
     IN Advance(s, IF Allowed(run.perms, run.row.kind)
                   THEN [run EXCEPT !.phase = "executing"] ELSE Ended(run))
  /\ UNCHANGED <<jobs, up, poll, now, account, history, incidents>>

End(s) ==
  /\ runs[s] # NoRun /\ runs[s].phase = "executing"
  /\ Advance(s, Ended(runs[s]))
  /\ UNCHANGED <<jobs, up, poll, now, account, history, incidents>>

Record(s) ==
  /\ runs[s] # NoRun /\ runs[s].phase = "ended"
  /\ jobs' = Update(runs[s].id, [jobs[runs[s].id] EXCEPT !.next_run_at = runs[s].next])
  /\ Advance(s, [runs[s] EXCEPT !.phase = "recorded", !.next = 0])
  /\ UNCHANGED <<up, poll, now, account, history, incidents>>

Clear(s) ==
  /\ runs[s] # NoRun /\ runs[s].phase = "recorded"
  /\ jobs' = SetRunning(runs[s].id, FALSE)
  /\ Advance(s, NoRun)
  /\ UNCHANGED <<up, poll, now, account, history, incidents>>

(***************************************************************************)
(* Failures, restarts, and the world                                       *)
(***************************************************************************)
(* The process is gone, and its threads and what they knew with it.          *)
Die == /\ up' = FALSE
       /\ poll' = {}
       /\ runs' = [s \in Slots |-> NoRun]
       /\ fired' = {}
       /\ unrecorded' = {}

Crash ==
  /\ up
  /\ Incident
  /\ Die
  /\ UNCHANGED <<jobs, now, account, created, by_hand, recycled>>

(* record_cron_job_run or the final mark throws.  Nothing catches it on a    *)
(* job's detached thread, so the process terminates; run_job_now's caller    *)
(* does, and the row stays as it is.                                         *)
RecordThrows(s) ==
  /\ runs[s] # NoRun /\ runs[s].phase \in {"ended", "recorded"}
  /\ Incident
  /\ \/ runs[s].by = "poll" /\ Die
     \/ /\ runs[s].by = "hand"
        /\ Advance(s, NoRun)
        /\ unrecorded' = unrecorded \cup {runs[s].id}
        /\ UNCHANGED <<up, poll, fired>>
  /\ UNCHANGED <<jobs, now, account, created, by_hand, recycled>>

(* start_cron_runner: clear_stale_cron_runs before the first poll.           *)
(* RestartKeepsFlags: without it.                                            *)
RestartKeepsFlags ==
  /\ ~up /\ up' = TRUE
  /\ UNCHANGED <<jobs, poll, runs, now, account, history, incidents>>
Restart ==
  /\ ~up /\ up' = TRUE
  /\ jobs' = [i \in Ids |-> IF Exists(i) THEN [jobs[i] EXCEPT !.running = FALSE] ELSE NoJob]
  /\ UNCHANGED <<poll, runs, now, account, history, incidents>>

Pass ==
  /\ now < MaxTime
  /\ now' = now + 1
  /\ UNCHANGED <<jobs, up, poll, runs, account, history, incidents>>

ChangeAccount(state) ==
  /\ account # "deleted" /\ account # state
  /\ Incident
  /\ account' = state
  /\ UNCHANGED <<jobs, up, poll, runs, now, history>>

RunStep(s) == MarkByHand(s) \/ Begin(s) \/ End(s) \/ Record(s) \/ Clear(s)
FireNext == \E job \in poll : Fire(job)

Next ==
  \/ \E kind \in Kinds, s \in Schedules : ScheduleJob(kind, s)
  \/ \E i \in Ids : CancelJob(i)
  \/ \E i \in Ids, s \in Schedules : RescheduleJob(i, s)
  \/ \E i \in Ids : LoadByHand(i)
  \/ Tick \/ FireNext \/ AbortTick
  \/ \E s \in Slots : RunStep(s) \/ RecordThrows(s)
  \/ Crash \/ Restart \/ Pass
  \/ \E state \in Accounts : ChangeAccount(state)

Spec == Init /\ [][Next]_vars

(* The poll thread sleeps a fixed time and polls again, a run's work is      *)
(* bounded by the timeouts of its tools and requests, and the service is     *)
(* restarted when it goes down.  Nothing forces time to pass, accounts to    *)
(* change or anybody to call a tool.                                         *)
FairSpec == /\ Spec
            /\ WF_vars(Tick) /\ WF_vars(FireNext) /\ WF_vars(Restart)
            /\ \A s \in Slots : WF_vars(RunStep(s))

(***************************************************************************)
(* Properties                                                              *)
(***************************************************************************)
(* The values each column and each thread may hold.                          *)
TypeOK ==
  /\ jobs \in [Ids -> Row \cup {NoJob}]
  /\ up \in BOOLEAN
  /\ \A job \in poll : job.id \in Ids /\ job.row \in Row
  /\ runs \in [Slots -> Run \cup {NoRun}]
  /\ now \in 0..MaxTime
  /\ account \in Accounts
  /\ created \in 0..MaxJobs
  /\ by_hand \subseteq Ids /\ recycled \subseteq Ids /\ unrecorded \subseteq Ids
  /\ ~up => poll = {} /\ \A s \in Slots : Free(s)

(* A flag with no run behind it would make due_cron_jobs skip the job        *)
(* forever (memory.h, clear_stale_cron_runs): while the process is up, a row *)
(* marked running has a run in flight, whatever overlapped, was cancelled or *)
(* crashed -- unless the very statement that ends a run_job_now failed.      *)
FlagHasRun ==
  up => \A i \in Ids : Exists(i) /\ jobs[i].running =>
          i \in unrecorded \/ \E s \in InFlight(i) : runs[s].phase # "loaded"

(* Left to the poll loop, a job never overlaps itself and a run only ever    *)
(* writes to its own job's row: both need run_job_now or a recycled id.      *)
PollRunsAlone ==
  \A i \in Ids \ (by_hand \cup recycled) :
    /\ Cardinality(InFlight(i)) <= 1
    /\ \A s \in InFlight(i) : Exists(i) =>
         runs[s].row.born = jobs[i].born /\ jobs[i].running

(* An occurrence is fired at most once per life of the process: a finished   *)
(* run has moved next_run_at past everything the poll loop fired before.     *)
OccurrenceFiresOnce ==
  [][\A s \in Slots :
       /\ Free(s) /\ runs'[s] # NoRun /\ runs'[s].by = "poll"
       /\ runs'[s].id \notin by_hand \cup recycled
       => <<runs'[s].row.born, runs'[s].row.next_run_at>> \notin fired]_vars

(* No due job is stuck: it is run and moved to a later time (or cancelled or *)
(* rescheduled), across crashes, dropped ticks and overlapping runs.         *)
DueIsServed == \A i \in Ids : Due(i) ~> (~Due(i) \/ i \in unrecorded)

(* cron_runner.cpp on marking synchronously: the next tick never sees a job  *)
(* as due twice, so the poll loop has one run of a job at a time.            *)
(* The code does not keep this: see "Known differences" in the README.       *)
TickSkipsRunning ==
  \A s, r \in Slots :
    /\ s # r /\ ~Free(s) /\ ~Free(r)
    /\ runs[s].by = "poll" /\ runs[r].by = "poll"
    => runs[s].row.born # runs[r].row.born

(* reschedule_cron_job (memory.h): schedule and next fire time change        *)
(* together because the runner reads the schedule only after a run, so a     *)
(* job's next_run_at is always a time of the schedule it has now.            *)
(* The code does not keep this: see "Known differences" in the README.       *)
NextRunFollowsSchedule ==
  \A i \in Ids : Exists(i) =>
    jobs[i].next_run_at \in {NextAfter[jobs[i].schedule][t] : t \in 0..MaxTime}

(* main.cpp: a job whose owner has been deleted resolves to no permissions   *)
(* at all, so nothing of it runs.                                            *)
DeletedOwnerRunsNothing ==
  \A s \in Slots : ~Free(s) /\ runs[s].phase = "executing" => runs[s].perms # "deleted"
=============================================================================
