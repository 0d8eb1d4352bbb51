---------------------------- MODULE Conversation ----------------------------
(***************************************************************************)
(* What surrounds a run: FunesAgent::run of src/core/agent.cpp, which loads *)
(* the conversation, compresses it when it is about to crowd the context   *)
(* (context_compressor.cpp), lets the loop run and appends the exchange;   *)
(* delegation to a specialist in the same session (tools/delegation.cpp);  *)
(* and the tables of src/core/memory.cpp all of it meets in: turns,        *)
(* session_summaries and tool_results.                                     *)
(*                                                                         *)
(* A slot is a server thread that holds one request.  The store's mutex is  *)
(* held per statement, so a slot keeps what it read in its record and other *)
(* slots run between its statements.  The loop itself is AgentLoop: here it *)
(* delegates, compresses, stores and reads results, and ends with a text.  *)
(*                                                                         *)
(* A turn's content is the pair <<run, role>>; a summary is the set of     *)
(* turns it covers.  How the model words one is left out.  A list of turns  *)
(* is the set of their rows, which the ids put in order.                    *)
(***************************************************************************)
EXTENDS Integers, Sequences, FiniteSets, SequencesExt

CONSTANTS
  Slots, Users, Sessions,
  CronSessions,        (* sessions named cron-...                           *)
  AgentNames,          (* names a model may ask for                         *)
  Shipped,             (* the agent table at start                          *)
  CanCompress,         (* agents with the compress_context tool             *)
  CanDelegate,         (* agents with delegate_to_agent                     *)
  MayUse,              (* Permissions: [Users -> SUBSET AgentNames]         *)
  MemoryTurns,         (* memory_turns: turns loaded per run, 10            *)
  KMinKeep,            (* kMinKeep of the automatic fold, 4                 *)
  ManualMinKeep,       (* kManualMinKeep of compress_context, 2             *)
  MaxDelegationDepth,  (* kMaxDelegationDepth, 3                            *)
  Workloads,           (* what may happen together                          *)
  None,
  (* bounds *)
  MaxRuns, MaxResults, MaxCalls

Ops == {"chat", "fold", "compress", "delegate", "results", "erase", "cron_cleanup",
        "reload", "crash", "hangup"}
Keys == Users \X Sessions
Runs == 1..MaxRuns
Roles == {"user", "assistant"}
Contents == Runs \X Roles
Rows == [id : Nat \ {0}, key : Keys, run : Runs, role : Roles]
Workload == [ops : SUBSET Ops, slots : SUBSET Slots, keys : SUBSET Keys,
             asked : SUBSET AgentNames, runs : 0..MaxRuns]

ASSUME ConversationAssumption ==
  /\ CronSessions \subseteq Sessions
  /\ Shipped \subseteq AgentNames
  /\ CanCompress \cup CanDelegate \subseteq AgentNames
  /\ MayUse \in [Users -> SUBSET AgentNames]
  /\ Workloads \subseteq Workload
  /\ {KMinKeep, ManualMinKeep} \subseteq Nat \ {0, 1}
  /\ {MemoryTurns, MaxDelegationDepth, MaxRuns, MaxResults, MaxCalls} \subseteq Nat
ASSUME NoneAssumption ==
  None \notin Keys \cup [key : Keys, run : Runs] \cup {"self", "unknown", "permission", "depth"}

VARIABLES
  turns,        (* the turns table                                          *)
  summaries,    (* session_summaries: the turns a session's summary covers  *)
  results,      (* tool_results by id                                       *)
  agents,       (* agents_: what load_agents last found                     *)
  slot,
  cleaning,     (* sessions cleanup_cron_history has collected              *)
  (* history *)
  does,         (* the workload of this behaviour                           *)
  owner,        (* whose run it was: the key of each run started            *)
  appended,     (* turns ever written                                       *)
  erased,       (* turns a user asked to forget                             *)
  crowded,      (* sessions in which two runs have overlapped               *)
  unseen,       (* turns a run left out as older than its window            *)
  replies       (* how each run ended                                       *)

tables == <<turns, summaries, results>>
history == <<does, owner, appended, erased, crowded, unseen, replies>>
vars == <<tables, agents, slot, cleaning, history>>

Stages == {"idle", "start", "recent", "budget", "fold", "write", "prune", "loop",
           "manual", "reply"}
Outcomes == {"answer", "failed", "stopped", "threw"}
(* One run on the delegation stack and the conversation in its prompt.      *)
Frame(a, rec, sum) == [agent |-> a, recent |-> rec, summary |-> sum]
NoFold == [recent |-> {}, summary |-> {}, keep |-> 0, manual |-> FALSE, text |-> {}]
Idle == [at |-> "idle", key |-> None, run |-> 0, frames |-> <<>>, fold |-> NoFold,
         cancelled |-> FALSE, relayed |-> FALSE, calls |-> 0, ends |-> "answer",
         fetched |-> {}]

Top(s) == slot[s].frames[Len(slot[s].frames)]
Outermost(s) == Len(slot[s].frames) = 1
AtLoop(s, op) == slot[s].at = "loop" /\ op \in does.ops
Calling(s, op) == AtLoop(s, op) /\ slot[s].calls < MaxCalls /\ ~slot[s].cancelled
Goes(s, at) == slot' = [slot EXCEPT ![s].at = at]
Called(s, r) == slot' = [slot EXCEPT ![s] = [r EXCEPT !.calls = @ + 1]]

Content(row) == <<row.run, row.role>>
Said(rows) == {Content(row) : row \in rows}
Greater(a, b) == IF a > b THEN a ELSE b
RowsOf(key) == {row \in turns : row.key = key}
(* ORDER BY id DESC LIMIT n, and ORDER BY id ASC LIMIT 1.                   *)
Newest(rows, n) == {row \in rows : Cardinality({later \in rows : later.id > row.id}) < n}
Earliest(rows) == {row \in rows : \A other \in rows : row.id <= other.id}

(* recent_turns.  RecentTurnsOfAnyone: by session name alone.               *)
RecentTurnsOfAnyone(key, n) == Newest({row \in turns : row.key[2] = key[2]}, n)
RecentTurns(key, n) == Newest(RowsOf(key), n)

(* prune_turns: everything of the session but its newest rows.              *)
PruneRows(key, keep) == turns \ (RowsOf(key) \ Newest(RowsOf(key), keep))

(* INTEGER PRIMARY KEY without AUTOINCREMENT: one past the largest id.       *)
TurnIds == {0} \cup {row.id : row \in turns}
NewTurnId == 1 + CHOOSE i \in TurnIds : \A j \in TurnIds : j <= i

AppendTurn(s, role) ==
  /\ turns' = turns \cup
       {[id |-> NewTurnId, key |-> slot[s].key, run |-> slot[s].run, role |-> role]}
  /\ appended' = appended \cup {<<slot[s].run, role>>}

Init ==
  /\ does \in Workloads
  /\ turns = {}
  /\ summaries = [k \in Keys |-> {}]
  /\ results = [i \in 1..MaxResults |-> None]
  /\ agents = Shipped
  /\ slot = [s \in Slots |-> Idle]
  /\ cleaning = {}
  /\ owner = [r \in Runs |-> None]
  /\ appended = {} /\ erased = {} /\ crowded = {} /\ unseen = {}
  /\ replies = [r \in Runs |-> None]

(***************************************************************************)
(* A run begins                                                            *)
(***************************************************************************)
Started == {r \in Runs : owner[r] # None}
(* An overlap includes a run that a crash left without its reply.          *)
Busy(key) == \E s \in Slots : slot[s].at # "idle" /\ slot[s].key = key

(* POST /api/chat: the agent exists and the account may use it.             *)
Chat(s, key, a) ==
  /\ "chat" \in does.ops /\ s \in does.slots /\ key \in does.keys /\ a \in does.asked
  /\ slot[s] = Idle /\ Cardinality(Started) < does.runs
  /\ a \in agents /\ a \in MayUse[key[1]]
  /\ LET run == Cardinality(Started) + 1
     IN /\ owner' = [owner EXCEPT ![run] = key]
        /\ slot' = [slot EXCEPT ![s] = [Idle EXCEPT !.at = "start", !.key = key,
                       !.run = run, !.frames = <<Frame(a, {}, {})>>]]
  /\ crowded' = IF Busy(key) THEN crowded \cup {key} ELSE crowded
  /\ UNCHANGED <<tables, agents, cleaning, does, appended, erased, unseen, replies>>

(* FunesAgent::run step 2: the summary, then the recent turns.              *)
LoadSummary(s) ==
  /\ slot[s].at = "start"
  /\ slot' = [slot EXCEPT ![s].at = "recent",
                          ![s].frames[1].summary = summaries[slot[s].key]]
  /\ UNCHANGED <<tables, agents, cleaning, history>>

LoadRecent(s) ==
  /\ slot[s].at = "recent"
  /\ slot' = [slot EXCEPT ![s].at = "budget",
                          ![s].frames[1].recent = RecentTurns(slot[s].key, MemoryTurns)]
  /\ unseen' = unseen \cup Said(RowsOf(slot[s].key) \ RecentTurns(slot[s].key, MemoryTurns))
  /\ UNCHANGED <<tables, agents, cleaning, does, owner, appended, erased, crowded, replies>>

(***************************************************************************)
(* compress_oldest_half                                                    *)
(***************************************************************************)
Keep(n, min_keep) == Greater(min_keep, n \div 2)
Foldable(recent, min_keep) == Cardinality(recent) > Keep(Cardinality(recent), min_keep)
BeginFold(s, recent, summary, min_keep, manual) ==
  [slot[s] EXCEPT !.at = "fold",
     !.fold = [recent |-> recent, summary |-> summary, manual |-> manual,
               keep |-> Keep(Cardinality(recent), min_keep), text |-> {}]]

(* What the prompts of this stack are built from, besides the message.      *)
Shown(s) == UNION {Said(slot[s].frames[i].recent) \cup slot[s].frames[i].summary
                     : i \in DOMAIN slot[s].frames}

(* The estimate against 0.7 of the context limit: either way, as the texts  *)
(* may have any length.                                                     *)
WithinBudget(s) ==
  /\ slot[s].at = "budget" /\ Goes(s, "loop")
  /\ UNCHANGED <<tables, agents, cleaning, history>>

OverBudget(s) ==
  /\ slot[s].at = "budget" /\ "fold" \in does.ops
  /\ Foldable(slot[s].frames[1].recent, KMinKeep)
  /\ slot' = [slot EXCEPT ![s] =
       BeginFold(s, slot[s].frames[1].recent, slot[s].frames[1].summary, KMinKeep, FALSE)]
  /\ UNCHANGED <<tables, agents, cleaning, history>>

Folded(f) == Said(f.recent \ Newest(f.recent, f.keep))

(* The summarizing call throws or answers with nothing: no harm done.      *)
FoldFails(s) ==
  /\ slot[s].at = "fold"
  /\ slot' = [slot EXCEPT ![s].at = "loop", ![s].fold = NoFold]
  /\ UNCHANGED <<tables, agents, cleaning, history>>

(* Otherwise its text covers the old summary and the folded turns.         *)
FoldText(f) == f.summary \cup Folded(f)
FoldAnswers(s) ==
  /\ slot[s].at = "fold"
  /\ slot' = [slot EXCEPT ![s].at = "write", ![s].fold.text = FoldText(slot[s].fold)]
  /\ UNCHANGED <<tables, agents, cleaning, history>>

(* set_summary.                                                             *)
WriteSummary(s) ==
  /\ slot[s].at = "write"
  /\ summaries' = [summaries EXCEPT ![slot[s].key] = slot[s].fold.text]
  /\ Goes(s, "prune")
  /\ UNCHANGED <<turns, results, agents, cleaning, history>>

(* FoldKeep: what prune_turns keeps.  FoldKeepLess: one row too few.        *)
FoldKeepLess(f) == f.keep - 1
FoldKeep(f) == f.keep
PruneTurns(s) ==
  LET f == slot[s].fold
      shrunk == Frame(slot[s].frames[1].agent, Newest(f.recent, f.keep), f.text)
  IN /\ slot[s].at = "prune"
     /\ turns' = PruneRows(slot[s].key, FoldKeep(f))
     /\ slot' = [slot EXCEPT ![s].at = "loop", ![s].fold = NoFold,
                   ![s].frames[1] = IF f.manual THEN @ ELSE shrunk]
     /\ UNCHANGED <<summaries, results, agents, cleaning, history>>

(* The compress_context tool: the whole session, read in two statements.    *)
CompressContext(s) ==
  /\ Calling(s, "compress") /\ Top(s).agent \in CanCompress
  /\ Called(s, [slot[s] EXCEPT !.at = "manual",
                  !.fold = [NoFold EXCEPT !.summary = summaries[slot[s].key]]])
  /\ UNCHANGED <<tables, agents, cleaning, history>>

CompressReads(s) ==
  LET recent == RecentTurns(slot[s].key, Cardinality(turns))
  IN /\ slot[s].at = "manual"
     /\ slot' = [slot EXCEPT ![s] =
          IF Foldable(recent, ManualMinKeep)
          THEN BeginFold(s, recent, slot[s].fold.summary, ManualMinKeep, TRUE)
          ELSE [@ EXCEPT !.at = "loop", !.fold = NoFold]]
     /\ UNCHANGED <<tables, agents, cleaning, history>>

(***************************************************************************)
(* The loop: delegation, stored results, and how a run ends                *)
(***************************************************************************)
(* build_roster: what the prompt offers, and what it names as denied.      *)
Roster(s) == (agents \cap MayUse[slot[s].key[1]]) \ {Top(s).agent}
Denied(s) == (agents \ MayUse[slot[s].key[1]]) \ {Top(s).agent}

(* delegate_handler's refusals, in its order.                              *)
(* RefusalOpen: the allowlist covers /api/chat only.  RefusalDeeper: the    *)
(* depth is compared after it was raised.                                   *)
RefusalDeeper(s, a) ==
  IF a = Top(s).agent THEN "self"
  ELSE IF a \notin agents THEN "unknown"
  ELSE IF a \notin MayUse[slot[s].key[1]] THEN "permission"
  ELSE IF Len(slot[s].frames) > MaxDelegationDepth + 1 THEN "depth"
  ELSE None
RefusalOpen(s, a) ==
  IF a = Top(s).agent THEN "self"
  ELSE IF a \notin agents THEN "unknown"
  ELSE IF Len(slot[s].frames) > MaxDelegationDepth THEN "depth"
  ELSE None
Refusal(s, a) ==
  IF a = Top(s).agent THEN "self"
  ELSE IF a \notin agents THEN "unknown"
  ELSE IF a \notin MayUse[slot[s].key[1]] THEN "permission"
  ELSE IF Len(slot[s].frames) > MaxDelegationDepth THEN "depth"
  ELSE None

(* sub.run(..., Persist::None): no summary and no fold, but the session's   *)
(* recent turns.                                                            *)
Delegate(s, a) ==
  /\ AtLoop(s, "delegate") /\ slot[s].calls < MaxCalls
  /\ ~slot[s].cancelled \/ Outermost(s)
  /\ Top(s).agent \in CanDelegate /\ Refusal(s, a) = None
  /\ Called(s, [slot[s] EXCEPT
       !.frames = Append(@, Frame(a, RecentTurns(slot[s].key, MemoryTurns), {}))])
  /\ UNCHANGED <<tables, agents, cleaning, history>>

(* What is left of the cancel flag when a sub-run returns: the flag is the  *)
(* thread's.  FlagAfterOwn: one flag per run.                               *)
FlagAfterOwn(s) == FALSE
FlagAfter(s) == slot[s].cancelled

(* How a loop may end: a flag seen at its head stops it, a completion that  *)
(* was under way may still bring an answer.                                 *)
Ends(s) ==
  IF ~slot[s].cancelled THEN {"answer", "failed", "threw"}
  ELSE IF ~Outermost(s) THEN {"stopped"}
  ELSE IF slot[s].relayed THEN {"stopped", "failed"}
  ELSE {"stopped", "answer", "failed"}

(* A specialist's text goes back to the run that asked: only a failure is  *)
(* marked as one, so "(stopped by user)" comes back as a good result.       *)
Return(s) ==
  /\ slot[s].at = "loop" /\ ~Outermost(s)
  /\ \E e \in Ends(s) :
       slot' = [slot EXCEPT ![s].frames = Front(@), ![s].cancelled = FlagAfter(s),
                            ![s].relayed = @ \/ e = "stopped"]
  /\ UNCHANGED <<tables, agents, cleaning, history>>

(* emit() could not write to the client.  Only the outermost run has one.   *)
Hangup(s) ==
  /\ AtLoop(s, "hangup") /\ Outermost(s) /\ ~slot[s].cancelled
  /\ slot' = [slot EXCEPT ![s].cancelled = TRUE]
  /\ UNCHANGED <<tables, agents, cleaning, history>>

(* A result over the inline limit.  tool_results.id is a rowid: one more    *)
(* than the greatest in use.                                                *)
StoreResult(s) ==
  LET used == {i \in DOMAIN results : results[i] # None}
      id == IF used = {} THEN 1 ELSE 1 + CHOOSE i \in used : \A j \in used : j <= i
  IN /\ Calling(s, "results") /\ id \in DOMAIN results
     /\ results' = [results EXCEPT ![id] = [key |-> slot[s].key, run |-> slot[s].run]]
     /\ Called(s, slot[s])
     /\ UNCHANGED <<turns, summaries, agents, cleaning, history>>

(* get_result.                                                              *)
Found(s, i) == results[i] # None /\ results[i].key = slot[s].key
ReadResult(s, i) ==
  /\ Calling(s, "results") /\ Found(s, i)
  /\ Called(s, [slot[s] EXCEPT !.fetched = @ \cup {results[i].run}])
  /\ UNCHANGED <<tables, agents, cleaning, history>>

(* run() step 5, first half; a run that threw leaves no turns.              *)
AppendUser(s) ==
  /\ slot[s].at = "loop" /\ Outermost(s)
  /\ \E e \in Ends(s) \ {"threw"} :
       /\ slot' = [slot EXCEPT ![s].at = "reply", ![s].ends = e]
       /\ AppendTurn(s, "user")
  /\ UNCHANGED <<summaries, results, agents, cleaning, does, owner, erased, crowded,
                 unseen, replies>>

AppendAssistant(s) ==
  /\ slot[s].at = "reply"
  /\ AppendTurn(s, "assistant")
  /\ replies' = [replies EXCEPT ![slot[s].run] = slot[s].ends]
  /\ slot' = [slot EXCEPT ![s] = Idle]
  /\ UNCHANGED <<summaries, results, agents, cleaning, does, owner, erased, crowded, unseen>>

Throws(s) ==
  /\ slot[s].at = "loop" /\ Outermost(s) /\ "threw" \in Ends(s)
  /\ slot' = [slot EXCEPT ![s] = Idle]
  /\ replies' = [replies EXCEPT ![slot[s].run] = "threw"]
  /\ UNCHANGED <<tables, agents, cleaning, does, owner, appended, erased, crowded, unseen>>

(***************************************************************************)
(* The rest of the server                                                  *)
(***************************************************************************)
(* list_sessions: one entry per session, with the first thing its user said. *)
ListSessions(u, include_cron) ==
  LET listed == {k \in Keys : /\ k[1] = u /\ RowsOf(k) # {}
                              /\ include_cron \/ k[2] \notin CronSessions}
      asked(k) == {row \in RowsOf(k) : row.role = "user"}
  IN {[session |-> k[2], preview |-> Earliest(asked(k))] : k \in listed}

(* delete_session: turns, summary and results in one transaction.           *)
DeleteSession(key) ==
  /\ turns' = turns \ RowsOf(key)
  /\ summaries' = [summaries EXCEPT ![key] = {}]
  /\ results' = [i \in DOMAIN results |->
       IF results[i] # None /\ results[i].key = key THEN None ELSE results[i]]
  /\ erased' = erased \cup summaries[key] \cup Said(RowsOf(key))

(* DELETE /api/sessions.                                                    *)
Erase(key) ==
  /\ "erase" \in does.ops /\ turns # {}
  /\ DeleteSession(key)
  /\ UNCHANGED <<agents, slot, cleaning, does, owner, appended, crowded, unseen, replies>>

(* `funes cron-cleanup`: collect the scheduled sessions, then drop each.    *)
CollectCron ==
  /\ "cron_cleanup" \in does.ops /\ cleaning = {}
  /\ cleaning' = {k \in Keys : k[2] \in CronSessions /\ RowsOf(k) # {}}
  /\ cleaning' # {}
  /\ UNCHANGED <<tables, agents, slot, history>>

DropCron(key) ==
  /\ key \in cleaning
  /\ cleaning' = cleaning \ {key}
  /\ DeleteSession(key)
  /\ UNCHANGED <<agents, slot, does, owner, appended, crowded, unseen, replies>>

(* POST /api/agents/reload.                                                 *)
Reload ==
  /\ "reload" \in does.ops
  /\ \E table \in SUBSET AgentNames : agents' = table
  /\ UNCHANGED <<tables, slot, cleaning, history>>

(* The process dies; the next start sweeps results past their TTL.          *)
Crash ==
  /\ "crash" \in does.ops /\ \E s \in Slots : slot[s] # Idle
  /\ slot' = [s \in Slots |-> Idle]
  /\ \E n \in 0..MaxResults :
       results' = [i \in DOMAIN results |-> IF i <= n THEN None ELSE results[i]]
  /\ cleaning' = {}
  /\ UNCHANGED <<turns, summaries, agents, history>>

Run(s) ==
  \/ \E key \in Keys, a \in AgentNames : Chat(s, key, a)
  \/ LoadSummary(s) \/ LoadRecent(s) \/ WithinBudget(s) \/ OverBudget(s)
  \/ FoldFails(s) \/ FoldAnswers(s) \/ WriteSummary(s) \/ PruneTurns(s)
  \/ CompressContext(s) \/ CompressReads(s)
  \/ \E a \in AgentNames : Delegate(s, a)
  \/ Return(s) \/ Hangup(s) \/ StoreResult(s)
  \/ \E i \in DOMAIN results : ReadResult(s, i)
  \/ AppendUser(s) \/ AppendAssistant(s) \/ Throws(s)

Next ==
  \/ \E s \in Slots : Run(s)
  \/ \E key \in Keys : Erase(key) \/ DropCron(key)
  \/ CollectCron \/ Reload \/ Crash

Spec == Init /\ [][Next]_vars

(***************************************************************************)
(* Properties                                                              *)
(***************************************************************************)
(* The tables hold rows of known accounts and runs, the slots the stages of *)
(* the code, and no chain of delegation is longer than the guard allows.    *)
TypeOK ==
  /\ turns \subseteq Rows
  /\ summaries \in [Keys -> SUBSET Contents]
  /\ results \in [1..MaxResults -> {None} \cup [key : Keys, run : Runs]]
  /\ agents \subseteq AgentNames /\ cleaning \subseteq Keys
  /\ \A s \in Slots :
       /\ slot[s].at \in Stages /\ slot[s].ends \in Outcomes
       /\ slot[s].at # "idle" => slot[s].key \in Keys /\ slot[s].run \in Runs
       /\ Len(slot[s].frames) \in 0..(MaxDelegationDepth + 1)

(* Whatever a run is shown was said in its own session by its own account:  *)
(* the turns and summary of every prompt on its delegation stack, those a   *)
(* fold is about to write, and the stored results it has read.  What an     *)
(* account's list of sessions previews was said by that account.            *)
ContextWall ==
  /\ \A s \in Slots : slot[s].at # "idle" =>
       LET folding == Said(slot[s].fold.recent) \cup slot[s].fold.summary
       IN /\ \A c \in Shown(s) \cup folding : owner[c[1]] = slot[s].key
          /\ \A r \in slot[s].fetched : owner[r] = slot[s].key
  /\ \A u \in Users : \A l \in ListSessions(u, TRUE) :
       \A row \in l.preview : owner[row.run] = <<u, l.session>>

(* Compression loses nothing of a conversation held one run at a time: a    *)
(* turn that was written and that nobody erased is still a row or is        *)
(* covered by the summary, whatever crashed between the two writes.  Turns   *)
(* that a run left out of its window are exempt: prune_turns takes them by  *)
(* count (PrunesWhatItFolded).                                              *)
TurnsKeptOrFolded ==
  \A c \in appended \ (erased \cup unseen) :
    LET key == owner[c[1]]
    IN key \notin crowded => c \in summaries[key] \cup Said(RowsOf(key))

(* An agent the prompt offers is never refused for lack of permission, one  *)
(* it names as denied is always refused, and every agent at work was        *)
(* granted: however deep it was reached, and whatever was reloaded.         *)
GrantsHold ==
  \A s \in Slots : slot[s].at = "loop" =>
    /\ \A a \in Roster(s) : Refusal(s, a) \in {None, "depth"}
    /\ \A a \in Denied(s) : Refusal(s, a) = "permission"
    /\ \A i \in DOMAIN slot[s].frames :
         slot[s].frames[i].agent \in MayUse[slot[s].key[1]]

(* "(stopped by user)" of a specialist is no answer: it reaches the caller  *)
(* as a good result, and no answer may then be made of it.                  *)
StopIsRelayed ==
  \A s \in Slots : slot[s].relayed =>
    slot[s].cancelled /\ (slot[s].at = "reply" => slot[s].ends # "answer")

(* A prune takes only rows the summary now covers ("then prunes those turns *)
(* from storage").                                                          *)
(* The code does not keep this: see "Known differences" in the README.      *)
PrunesWhatItFolded ==
  [][\A s \in Slots : slot[s].at = "prune" /\ slot'[s].at = "loop" =>
       \A row \in turns : row \in turns' \/ Content(row) \in summaries[row.key]]_vars
=============================================================================
