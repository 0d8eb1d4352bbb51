------------------------------ MODULE AgentLoop ------------------------------
(***************************************************************************)
(* One agent run: FunesAgent::run_loop of src/core/agent.cpp, with the     *)
(* budgets of tool_budget.cpp, the completion contract of                  *)
(* completion_contract.cpp, the failure texts of run_outcome.cpp and the   *)
(* tool-choice handling of llm_client.cpp.                                 *)
(*                                                                         *)
(* The language model and the tools are the environment: a completion is   *)
(* any text or any short list of calls, a tool succeeds or fails.  What    *)
(* the loop adds is which of those it lets through and when it stops, and  *)
(* that is what is modelled: one action per branch of the loop body.  A    *)
(* text is only "empty", "good" (it satisfies the answer schema) or "bad". *)
(***************************************************************************)
EXTENDS Integers, Sequences

CONSTANTS
  Tools,          (* tool names                                            *)
  ScriptKeys,     (* qualified call keys, "run_script:<script>"            *)
  NoKey,          (* a call without a qualified key, a cfg without a tool  *)
  Calls,          (* call signatures: tool name and arguments              *)
  ToolOf,         (* [Calls -> Tools]                                      *)
  ScriptKeyOf,    (* [Calls -> ScriptKeys \cup {NoKey}]                    *)
  Configs,        (* agent configurations and permissions a run starts with *)
  SameToolFloor,  (* max_same_tool is never below this: 6 in the code      *)
  MaxParallel     (* bound: calls in one completion                        *)

Keys == Tools \cup ScriptKeys
ToolChoices == {"auto", "required", "none"}

AgentConfig ==
  [max_steps        : Nat,
   require_tools    : Seq(Keys),
   tool_limits      : [Keys -> Int],    (* -1: no usable entry             *)
   answer_from_tool : Tools \cup {NoKey},
   has_schema       : BOOLEAN,
   tool_choice      : ToolChoices,
   denied           : SUBSET Keys,      (* by the caller's permissions     *)
   recovers_prose   : BOOLEAN]          (* provider openai, not anthropic  *)

ASSUME KeysAssumption ==
  /\ NoKey \notin Keys
  /\ Tools \cap ScriptKeys = {}
  /\ ToolOf \in [Calls -> Tools]
  /\ ScriptKeyOf \in [Calls -> ScriptKeys \cup {NoKey}]
ASSUME ConfigsAssumption == Configs \subseteq AgentConfig
ASSUME BoundsAssumption == SameToolFloor \in Nat \ {0} /\ MaxParallel \in Nat \ {0}

VARIABLES
  cfg,          (* cfg_, fixed for the run                                 *)
  pc,           (* loop head, waiting for the model, running calls, done   *)
  step,         (* the loop counter                                        *)
  step_limit,   (* max_steps plus one per schema nudge on a last step      *)
  tool_choice,  (* what the LLM client sends with the next request         *)
  force_tool_call,
  nudges_used,
  overflow_retried,
  queue,        (* calls of the current completion still to handle         *)
  sig_counts,
  name_counts,  (* per call key: tools and qualified script keys           *)
  satisfied,    (* keys whose most recent call succeeded                   *)
  exhausted_tools,
  cancelled,    (* *cancel_flag(), set when an event could not be sent     *)
  verdict,      (* what run_loop returned; "none" while it runs            *)
  answer,       (* the text returned with verdict "answer"                 *)
  (* History of the dispatched calls, read by properties only.             *)
  last_run,     (* outcome of the last dispatched call of each key         *)
  ran,          (* dispatched calls of each key                            *)
  ran_same      (* dispatched calls of each signature                      *)

control == <<step, step_limit, tool_choice, force_tool_call, nudges_used, overflow_retried>>
counts  == <<sig_counts, name_counts>>
history == <<last_run, ran, ran_same>>
vars == <<cfg, pc, control, queue, counts, satisfied, exhausted_tools, cancelled,
          verdict, answer, history>>

Texts == {"empty", "bad", "good"}
Failures == {"contract_failure", "schema_failure", "empty_failure", "loop_failure",
             "max_steps_failure"}
Verdicts == Failures \cup {"none", "answer", "stopped", "threw"}

(***************************************************************************)
(* Helpers                                                                 *)
(***************************************************************************)
Required == {cfg.require_tools[i] : i \in DOMAIN cfg.require_tools}
Missing(sat) == Required \ sat
NudgeBudget == IF cfg.require_tools # <<>> THEN Len(cfg.require_tools) + 2 ELSE 3
(* nudges_used++ < nudge_budget.                                            *)
NudgesLeft == nudges_used < NudgeBudget

MaxSameTool == IF cfg.max_steps > SameToolFloor THEN cfg.max_steps ELSE SameToolFloor

LastStep == step + 1 >= step_limit
Withhold == ~force_tool_call /\ LastStep

(* call_keys.                                                               *)
CallKeys(c) == {ToolOf[c]} \cup ({ScriptKeyOf[c]} \ {NoKey})

EffectiveLimit(key, default) ==
  IF cfg.tool_limits[key] >= 0 THEN cfg.tool_limits[key] ELSE default

(* A negative ceiling is no ceiling.  OverByOne: refused one call late.      *)
OverByOne(key, calls, default) ==
  EffectiveLimit(key, default) >= 0 /\ calls > EffectiveLimit(key, default) + 1
Over(key, calls, default) ==
  EffectiveLimit(key, default) >= 0 /\ calls > EffectiveLimit(key, default)

(* RepeatActionLate: a third identical call still runs.                      *)
RepeatActionLate(calls) ==
  IF calls <= 3 THEN "run" ELSE IF calls = 4 THEN "refuse" ELSE "refuse_and_withdraw"
RepeatAction(calls) ==
  IF calls <= 2 THEN "run" ELSE IF calls = 3 THEN "refuse" ELSE "refuse_and_withdraw"

(* The counters after call c.  The tool's own ceiling is checked first, and *)
(* a call it refuses never reaches the script's counter.                    *)
ToolRefused(c) == Over(ToolOf[c], name_counts[ToolOf[c]] + 1, MaxSameTool)
CountedKeys(c) == IF ToolRefused(c) THEN {ToolOf[c]} ELSE CallKeys(c)
Counted(c) ==
  [k \in Keys |-> IF k \in CountedKeys(c) THEN name_counts[k] + 1 ELSE name_counts[k]]
ScriptRefused(c) ==
  /\ ~ToolRefused(c)
  /\ ScriptKeyOf[c] # NoKey
  /\ Over(ScriptKeyOf[c], name_counts[ScriptKeyOf[c]] + 1, -1)
Refused(c) == ToolRefused(c) \/ ScriptRefused(c)
Repeat(c) == IF Refused(c) THEN "run" ELSE RepeatAction(sig_counts[c] + 1)

Permitted(c) == CallKeys(c) \cap cfg.denied = {}

(* What the model can ask for: with prose recovery any call at all, without *)
(* it only tools of the schema it was shown.                                *)
Callable(c) ==
  cfg.recovers_prose \/ ToolOf[c] \notin exhausted_tools \cup cfg.denied

(* finish(): the gate in front of a verdict.  FinishUnparsed: the contract    *)
(* is checked and the schema is not.                                         *)
FinishUnparsed(v, text, sat) ==
  /\ pc' = "done"
  /\ verdict' = IF Missing(sat) # {} THEN "contract_failure" ELSE v
  /\ answer' = text
Finish(v, text, sat) ==
  /\ pc' = "done"
  /\ verdict' = IF Missing(sat) # {} THEN "contract_failure"
                ELSE IF cfg.has_schema /\ text # "good" THEN "schema_failure"
                ELSE v
  /\ answer' = text

(* A verdict returned past finish().                                        *)
Return(v, text) == pc' = "done" /\ verdict' = v /\ answer' = text

Running == UNCHANGED <<verdict, answer>>

Init ==
  /\ cfg \in Configs
  /\ pc = "head"
  /\ step = 0
  /\ step_limit = cfg.max_steps
  /\ tool_choice = cfg.tool_choice
  /\ force_tool_call = FALSE
  /\ nudges_used = 0
  /\ overflow_retried = FALSE
  /\ queue = <<>>
  /\ sig_counts = [c \in Calls |-> 0]
  /\ name_counts = [k \in Keys |-> 0]
  /\ satisfied = {}
  /\ exhausted_tools = {}
  /\ cancelled = FALSE
  /\ verdict = "none"
  /\ answer = "empty"
  /\ last_run = [k \in Keys |-> "never"]
  /\ ran = [k \in Keys |-> 0]
  /\ ran_same = [c \in Calls |-> 0]

(***************************************************************************)
(* The loop head                                                           *)
(***************************************************************************)
(* for (...; step < step_limit; ...) is done: the run used its steps.       *)
OutOfSteps ==
  /\ pc = "head"
  /\ step >= step_limit
  /\ Finish("max_steps_failure", "bad", satisfied)
  /\ UNCHANGED <<cfg, control, queue, counts, satisfied, exhausted_tools, cancelled, history>>

(* The cancel flag is read here and nowhere else in the loop.               *)
StopCancelled ==
  /\ pc = "head"
  /\ step < step_limit
  /\ cancelled
  /\ Return("stopped", "bad")
  /\ UNCHANGED <<cfg, control, queue, counts, satisfied, exhausted_tools, cancelled, history>>

RequestCompletion ==
  /\ pc = "head"
  /\ step < step_limit
  /\ ~cancelled
  /\ pc' = "complete"
  /\ tool_choice' = IF force_tool_call THEN "required"
                    ELSE IF Withhold THEN "none"
                    ELSE tool_choice
  /\ Running
  /\ UNCHANGED <<cfg, step, step_limit, force_tool_call, nudges_used, overflow_retried,
                 queue, counts, satisfied, exhausted_tools, cancelled, history>>

(***************************************************************************)
(* The completion                                                          *)
(***************************************************************************)
(* The server refused the prompt as too long: trim harder, ask once more.   *)
(* RetryOverflowAgain: the step is redone and overflow_retried never set.    *)
RetryOverflowAgain ==
  /\ pc = "complete"
  /\ ~overflow_retried
  /\ pc' = "head"
  /\ Running
  /\ UNCHANGED <<cfg, control, queue, counts, satisfied, exhausted_tools, cancelled, history>>

RetryOverflow ==
  /\ pc = "complete"
  /\ ~overflow_retried
  /\ overflow_retried' = TRUE
  /\ pc' = "retry"
  /\ Running
  /\ UNCHANGED <<cfg, step, step_limit, tool_choice, force_tool_call, nudges_used,
                 queue, counts, satisfied, exhausted_tools, cancelled, history>>

(* Any other error, a second overflow, or a failing retry leaves run_loop.  *)
Throw ==
  /\ pc \in {"complete", "retry"}
  /\ Return("threw", "bad")
  /\ tool_choice' = cfg.tool_choice
  /\ UNCHANGED <<cfg, step, step_limit, force_tool_call, nudges_used, overflow_retried,
                 queue, counts, satisfied, exhausted_tools, cancelled, history>>

(* A completion that asks for calls; none can when tools were withheld:     *)
(* build_*_body sends no tools and recovered prose calls are discarded.     *)
CompleteWithCalls ==
  /\ pc \in {"complete", "retry"}
  /\ tool_choice # "none"
  /\ \E n \in 1..MaxParallel : \E cs \in [1..n -> {c \in Calls : Callable(c)}] : queue' = cs
  /\ pc' = "calls"
  /\ tool_choice' = IF force_tool_call \/ Withhold THEN cfg.tool_choice ELSE tool_choice
  /\ force_tool_call' = FALSE
  /\ Running
  /\ UNCHANGED <<cfg, step, step_limit, nudges_used, overflow_retried,
                 counts, satisfied, exhausted_tools, cancelled, history>>

(* Every text completion starts here: the client's tool choice is restored, *)
(* and the branch that follows decides force_tool_call.                     *)
(* CompleteWithTextUnrestored: the restore left out.                         *)
CompleteWithTextUnrestored ==
  /\ pc \in {"complete", "retry"}
  /\ tool_choice' = tool_choice
  /\ UNCHANGED <<cfg, overflow_retried, queue, counts, satisfied, exhausted_tools,
                 cancelled, history>>
CompleteWithText ==
  /\ pc \in {"complete", "retry"}
  /\ tool_choice' = IF force_tool_call \/ Withhold THEN cfg.tool_choice ELSE tool_choice
  /\ UNCHANGED <<cfg, overflow_retried, queue, counts, satisfied, exhausted_tools,
                 cancelled, history>>

(* The model stopped while it owes calls: remind it and force a call.       *)
NudgeContract ==
  /\ CompleteWithText
  /\ Missing(satisfied) # {}
  /\ NudgesLeft
  /\ nudges_used' = nudges_used + 1
  /\ force_tool_call' = TRUE
  /\ step' = step + 1
  /\ pc' = "head"
  /\ Running
  /\ UNCHANGED step_limit

FailContract ==
  /\ CompleteWithText
  /\ Missing(satisfied) # {}
  /\ ~NudgesLeft
  /\ nudges_used' = nudges_used + 1
  /\ force_tool_call' = FALSE
  /\ Return("contract_failure", "bad")
  /\ UNCHANGED <<step, step_limit>>

(* The text the contract let through, after the empty-completion retry: an  *)
(* empty completion past step 0 is asked for again without tools.           *)
Answered(text) ==
  \E first \in Texts :
    /\ CompleteWithText
    /\ Missing(satisfied) = {}
    /\ force_tool_call' = FALSE
    /\ text = first \/ (first = "empty" /\ step > 0)

Answer ==
  \E text \in Texts :
    /\ Answered(text)
    /\ IF cfg.has_schema THEN text = "good" ELSE text # "empty"
    /\ Return("answer", text)
    /\ UNCHANGED <<step, step_limit, nudges_used>>

FailEmpty ==
  /\ Answered("empty")
  /\ ~cfg.has_schema
  /\ Return("empty_failure", "empty")
  /\ UNCHANGED <<step, step_limit, nudges_used>>

(* The answer does not satisfy the schema: ask for a rewrite, on one more   *)
(* step if this was the last.                                               *)
NudgeSchema ==
  \E text \in Texts \ {"good"} :
    /\ Answered(text)
    /\ cfg.has_schema
    /\ NudgesLeft
    /\ nudges_used' = nudges_used + 1
    /\ step_limit' = IF LastStep THEN step_limit + 1 ELSE step_limit
    /\ step' = step + 1
    /\ pc' = "head"
    /\ Running

FailSchema ==
  \E text \in Texts \ {"good"} :
    /\ Answered(text)
    /\ cfg.has_schema
    /\ ~NudgesLeft
    /\ nudges_used' = nudges_used + 1
    /\ Return("schema_failure", text)
    /\ UNCHANGED <<step, step_limit>>

(***************************************************************************)
(* The calls of a completion, in order                                     *)
(***************************************************************************)
Handling(c) ==
  /\ pc = "calls"
  /\ c = Head(queue)
  /\ sig_counts' = [sig_counts EXCEPT ![c] = @ + 1]
  /\ name_counts' = Counted(c)
  /\ UNCHANGED <<cfg, step_limit, tool_choice, force_tool_call, nudges_used,
                 overflow_retried, cancelled>>

(* On to the next call, or to the next step after the last one.             *)
NextCall ==
  /\ queue' = Tail(queue)
  /\ IF Len(queue) = 1 THEN pc' = "head" /\ step' = step + 1
                       ELSE UNCHANGED <<pc, step>>
  /\ Running

(* satisfied.insert / erase, for every key of the call.  SettleOnce: a later  *)
(* failure does not undo an earlier success.                                 *)
SettleOnce(c, ok) == IF ok THEN satisfied \cup CallKeys(c) ELSE satisfied
Settle(c, ok) == IF ok THEN satisfied \cup CallKeys(c) ELSE satisfied \ CallKeys(c)

RefuseOverBudget ==
  \E c \in Calls :
    /\ Handling(c)
    /\ Refused(c)
    /\ exhausted_tools' =
         IF ToolRefused(c) THEN exhausted_tools \cup {ToolOf[c]} ELSE exhausted_tools
    /\ satisfied' = Settle(c, FALSE)
    /\ NextCall
    /\ UNCHANGED history

RefuseRepeat ==
  \E c \in Calls :
    /\ Handling(c)
    /\ Repeat(c) # "run"
    /\ exhausted_tools' = IF Repeat(c) = "refuse_and_withdraw"
                          THEN exhausted_tools \cup {ToolOf[c]} ELSE exhausted_tools
    /\ satisfied' = Settle(c, FALSE)
    /\ NextCall
    /\ UNCHANGED history

(* A call that reaches dispatch_tool.                                       *)
Accepted(c) ==
  /\ Handling(c)
  /\ ~Refused(c)
  /\ Repeat(c) = "run"

(* The near-duplicate detector, the backstop behind the ceilings.           *)
DetectLoop ==
  \E c \in Calls :
    /\ Accepted(c)
    /\ name_counts[ToolOf[c]] + 1 > MaxSameTool
    /\ Finish("loop_failure", "bad", satisfied)
    /\ UNCHANGED <<step, queue, satisfied, exhausted_tools, history>>

Dispatchable(c) == Accepted(c) /\ name_counts[ToolOf[c]] + 1 <= MaxSameTool

(* dispatch_tool's own permission check: an error, and nothing ran.         *)
RefusePermission ==
  \E c \in Calls :
    /\ Dispatchable(c)
    /\ ~Permitted(c)
    /\ satisfied' = Settle(c, FALSE)
    /\ NextCall
    /\ UNCHANGED <<exhausted_tools, history>>

Ran(c, ok) ==
  /\ Dispatchable(c)
  /\ Permitted(c)
  /\ satisfied' = Settle(c, ok)
  /\ last_run' = [k \in Keys |-> IF k \in CallKeys(c) THEN IF ok THEN "ok" ELSE "error"
                                 ELSE last_run[k]]
  /\ ran' = [k \in Keys |-> IF k \in CallKeys(c) THEN ran[k] + 1 ELSE ran[k]]
  /\ ran_same' = [ran_same EXCEPT ![c] = @ + 1]
  /\ UNCHANGED exhausted_tools

AnswersRun(c) == ToolOf[c] = cfg.answer_from_tool

CallTool ==
  \E c \in Calls, ok \in BOOLEAN :
    /\ Ran(c, ok)
    /\ ~(ok /\ AnswersRun(c))
    /\ NextCall

(* answer_from_tool: this result is the answer, if finish() lets it be.     *)
AnswerFromTool ==
  \E c \in Calls, text \in Texts :
    /\ Ran(c, TRUE)
    /\ AnswersRun(c)
    /\ Finish("answer", text, Settle(c, TRUE))
    /\ UNCHANGED <<step, queue>>

(***************************************************************************)
(* An event of this run (a delta, a tool call, a trimmed context) could not *)
(* be written: the client went away (emit in api.cpp).  Events are sent     *)
(* before the loop and all through it, so this may be found out any time.   *)
(***************************************************************************)
Cancel ==
  /\ pc # "done"
  /\ ~cancelled
  /\ cancelled' = TRUE
  /\ UNCHANGED <<cfg, pc, control, queue, counts, satisfied, exhausted_tools, verdict,
                 answer, history>>

LoopStep ==
  \/ OutOfSteps \/ StopCancelled \/ RequestCompletion
  \/ RetryOverflow \/ Throw \/ CompleteWithCalls
  \/ NudgeContract \/ FailContract \/ Answer \/ FailEmpty \/ NudgeSchema \/ FailSchema
  \/ RefuseOverBudget \/ RefuseRepeat \/ DetectLoop \/ RefusePermission
  \/ CallTool \/ AnswerFromTool

Next == LoopStep \/ Cancel

Spec == Init /\ [][Next]_vars

(* The run's thread keeps going: the model's requests and the tools have    *)
(* timeouts (llm_read_timeout, the tools' own), so each step ends.          *)
FairSpec == Spec /\ WF_vars(LoopStep)

(***************************************************************************)
(* Properties                                                              *)
(***************************************************************************)
Outcomes == {"never", "ok", "error"}

(* The values each variable of run_loop may hold.                           *)
TypeOK ==
  /\ cfg \in Configs
  /\ pc \in {"head", "complete", "retry", "calls", "done"}
  /\ step \in Nat /\ step_limit \in Nat /\ nudges_used \in Nat
  /\ tool_choice \in ToolChoices
  /\ force_tool_call \in BOOLEAN /\ overflow_retried \in BOOLEAN /\ cancelled \in BOOLEAN
  /\ queue \in Seq(Calls)
  /\ pc = "calls" => queue # <<>>
  /\ sig_counts \in [Calls -> Nat] /\ name_counts \in [Keys -> Nat]
  /\ satisfied \subseteq Keys /\ exhausted_tools \subseteq Tools
  /\ verdict \in Verdicts /\ (verdict = "none" <=> pc # "done")
  /\ answer \in Texts
  /\ last_run \in [Keys -> Outcomes]
  /\ ran \in [Keys -> Nat] /\ ran_same \in [Calls -> Nat]

(* The promise of require_tools (completion_contract.h): an answer that is   *)
(* not marked FAILED means that for every required key the last call that    *)
(* really ran succeeded, whichever exit produced the answer and however      *)
(* many failures, refusals and nudges came before.                           *)
AnswerMeetsContract ==
  verdict = "answer" => \A k \in Required : last_run[k] = "ok"

(* The promise of answer_schema: whoever reads the answer can parse it, also *)
(* when it is a tool's result relayed by answer_from_tool.                   *)
AnswerFitsSchema ==
  verdict = "answer" /\ cfg.has_schema => answer = "good"

(* tool_limits counts what runs: no key with a declared ceiling is           *)
(* dispatched more often than it allows, and no tool more often than         *)
(* max_same_tool, over any mix of parallel calls, refusals, repeats and      *)
(* script calls.                                                             *)
BudgetRespected ==
  /\ \A k \in Keys : cfg.tool_limits[k] >= 0 => ran[k] <= cfg.tool_limits[k]
  /\ \A t \in Tools : ran[t] <= MaxSameTool

(* repeat_action: the same call with the same arguments runs at most twice   *)
(* in one run.                                                               *)
RepeatsRunTwice == \A c \in Calls : ran_same[c] <= 2

(* The run is bounded: each step is paid for by max_steps or by a schema     *)
(* nudge, and nudges of both kinds share one budget.                         *)
StepsBounded ==
  /\ step <= step_limit
  /\ step_limit <= cfg.max_steps + NudgeBudget
  /\ nudges_used <= NudgeBudget + 1

(* The loop detector is a backstop: a run ends in loop_failure only if the   *)
(* agent declares a ceiling above max_same_tool (the comment on              *)
(* max_same_tool in run_loop), for otherwise the calls were refused first.   *)
LoopFailureNeedsDeclaredCeiling ==
  verdict = "loop_failure" => \E t \in Tools : cfg.tool_limits[t] > MaxSameTool

(* The last step is spent answering: a completion may ask for calls on the   *)
(* last of max_steps only when a required call is owed, and never on a step  *)
(* a schema nudge added ("this buys a rewrite, never another call").         *)
CallsOnlyWithinSteps ==
  [][pc # "calls" /\ pc' = "calls" =>
       /\ step < cfg.max_steps
       /\ step + 1 = cfg.max_steps => Missing(satisfied) # {}]_vars

(* Every run ends, whatever the model answers: no sequence of nudges,        *)
(* refusals, retries and extra steps goes round forever.                     *)
Termination == <>(pc = "done")

(* completion_contract.cpp tells the caller that the missing required calls  *)
(* "never succeeded": a contract failure means that some required key's last *)
(* run was not a success.                                                    *)
(* The code does not keep this: see "Known differences" in the README.       *)
ContractFailureMeansUnmet ==
  verdict = "contract_failure" => \E k \in Required : last_run[k] # "ok"

(* The comment on finish(): every "we're done here" exit routes through it,  *)
(* so a run that stops with a required call outstanding is a failed run no   *)
(* matter which branch noticed first.                                        *)
(* The code does not keep this: see "Known differences" in the README.       *)
StopWithContractOwedFails ==
  pc = "done" /\ verdict # "threw" /\ Missing(satisfied) # {} => verdict \in Failures

(***************************************************************************)
(* The inductive invariant behind the theorems of AgentLoopProofs           *)
(***************************************************************************)

(* What run_loop's set says happened: a satisfied key's last call ran and    *)
(* succeeded.  A refused call erases the key although nothing ran, so this   *)
(* is an inclusion and not an equality.                                      *)
SatisfiedSucceeded == \A k \in satisfied : last_run[k] = "ok"

(* No more calls ran than were counted; an accepted call was counted below   *)
(* its ceiling.                                                              *)
RunsCounted ==
  /\ \A k \in Keys : ran[k] <= name_counts[k]
  /\ \A c \in Calls : ran_same[c] <= sig_counts[c]

(* The client sends what this step asked for, and its own default between.   *)
ToolChoiceOfStep ==
  /\ pc \in {"head", "calls"} => tool_choice = cfg.tool_choice
  /\ pc \in {"complete", "retry"} =>
       tool_choice = IF force_tool_call THEN "required"
                     ELSE IF LastStep THEN "none" ELSE cfg.tool_choice

(* A call is forced only while a required call is owed.                      *)
ForcedOnlyWhenOwed ==
  /\ force_tool_call /\ pc # "done" => Missing(satisfied) # {}
  /\ pc = "calls" => ~force_tool_call

(* A running run has nudges left or just spent the last, and each extra step *)
(* was paid for by one.                                                      *)
NudgesPayForSteps ==
  pc # "done" => /\ nudges_used <= NudgeBudget
                 /\ step_limit <= cfg.max_steps + nudges_used
                 /\ pc # "head" => step < step_limit

(* A step a schema nudge added comes with the contract met, and is the last. *)
ExtraStepsAnswer ==
  pc # "done" /\ step_limit > cfg.max_steps /\ step < step_limit =>
    /\ step + 1 = step_limit
    /\ Missing(satisfied) = {}
    /\ pc # "calls"

(* Everything the safety theorems need, preserved by every step of the loop:  *)
(* the bookkeeping of budgets, tool choice, nudges and extra steps agrees     *)
(* with what ran.                                                            *)
IInv ==
  /\ TypeOK
  /\ SatisfiedSucceeded
  /\ RunsCounted
  /\ ToolChoiceOfStep
  /\ ForcedOnlyWhenOwed
  /\ NudgesPayForSteps
  /\ ExtraStepsAnswer
  /\ AnswerMeetsContract
  /\ AnswerFitsSchema
  /\ BudgetRespected
  /\ RepeatsRunTwice
  /\ StepsBounded
  /\ LoopFailureNeedsDeclaredCeiling
=============================================================================
