--------------------------- MODULE AgentLoopProofs ---------------------------
(***************************************************************************)
(* Theorems of AgentLoop, for every set of tools, scripts, calls and agent *)
(* configurations: the types, and the safety invariants of MCAgentLoop's   *)
(* run, from one inductive invariant IInv.                                 *)
(***************************************************************************)
EXTENDS AgentLoop, SequenceTheorems, TLAPS

(***************************************************************************)
(* Facts about the constants and the sequences the actions use.            *)
(***************************************************************************)

(* What a configuration is made of, and the numbers derived from it.        *)
LEMMA ConfigFacts ==
  ASSUME cfg \in Configs
  PROVE  /\ cfg.max_steps \in Nat
         /\ cfg.tool_limits \in [Keys -> Int]
         /\ cfg.tool_choice \in ToolChoices
         /\ NudgeBudget \in Nat
         /\ MaxSameTool \in Nat /\ cfg.max_steps <= MaxSameTool
<1>1. cfg \in AgentConfig
  BY ConfigsAssumption
<1>2. cfg.require_tools \in Seq(Keys) /\ cfg.max_steps \in Nat
  BY <1>1 DEF AgentConfig
<1>3. Len(cfg.require_tools) \in Nat
  BY <1>2, LenProperties
<1> QED
  BY <1>1, <1>2, <1>3, BoundsAssumption DEF AgentConfig, NudgeBudget, MaxSameTool

(* The keys of a call are keys, its tool among them.                        *)
LEMMA CallKeysFacts ==
  ASSUME NEW c \in Calls
  PROVE  CallKeys(c) \subseteq Keys /\ ToolOf[c] \in Tools /\ ToolOf[c] \in CallKeys(c)
  BY KeysAssumption DEF CallKeys, Keys

(* A completion's calls are a non-empty sequence of calls.                  *)
LEMMA CompletionIsSeq ==
  ASSUME NEW n \in 1..MaxParallel, NEW S \in SUBSET Calls, NEW cs \in [1..n -> S]
  PROVE  cs \in Seq(Calls) /\ cs # <<>>
<1>1. n \in Nat /\ n >= 1
  BY BoundsAssumption
<1>2. cs \in [1..n -> Calls]
  OBVIOUS
<1>3. cs \in Seq(Calls)
  BY <1>1, <1>2, SeqDef
<1>4. Len(cs) = n
  BY <1>1, <1>2
<1> QED
  BY <1>1, <1>3, <1>4, EmptySeq

(* Taking the next call keeps the queue a sequence, empty after the last.    *)
LEMMA NextCallFacts ==
  ASSUME queue \in Seq(Calls), queue # <<>>
  PROVE  /\ Head(queue) \in Calls
         /\ Tail(queue) \in Seq(Calls)
         /\ Len(queue) # 1 => Tail(queue) # <<>>
<1>1. Len(queue) \in Nat /\ Len(queue) # 0
  BY EmptySeq, LenProperties
<1>2. Len(Tail(queue)) = Len(queue) - 1
  BY HeadTailProperties
<1>3. Tail(queue) = <<>> => Len(Tail(queue)) = 0
  BY EmptySeq
<1> QED
  BY <1>1, <1>2, <1>3, HeadTailProperties

(***************************************************************************)
(* Types                                                                   *)
(***************************************************************************)
LEMMA TypeInit == Init => TypeOK
<1> SUFFICES ASSUME Init PROVE TypeOK
  OBVIOUS
<1>1. cfg.max_steps \in Nat /\ cfg.tool_choice \in ToolChoices
  BY ConfigFacts DEF Init
<1>2. <<>> \in Seq(Calls)
  BY EmptySeq
<1> QED
  BY <1>1, <1>2 DEF Init, TypeOK, Texts, Outcomes, Verdicts

(* The part of a step every call of a completion shares.                    *)
LEMMA TypeHandling ==
  ASSUME TypeOK, NEW c \in Calls, Handling(c)
  PROVE  /\ sig_counts' \in [Calls -> Nat]
         /\ name_counts' \in [Keys -> Nat]
         /\ pc = "calls" /\ queue \in Seq(Calls) /\ queue # <<>>
         /\ UNCHANGED <<cfg, step_limit, tool_choice, force_tool_call, nudges_used,
                        overflow_retried, cancelled>>
  BY DEF TypeOK, Handling, Counted

(* A call that is settled and lets the loop go on, run or not.               *)
LEMMA TypeSettled ==
  ASSUME TypeOK, NEW c \in Calls, NEW ok \in BOOLEAN, Handling(c), NextCall,
         satisfied' = Settle(c, ok), exhausted_tools' \subseteq Tools,
         last_run' \in [Keys -> Outcomes], ran' \in [Keys -> Nat],
         ran_same' \in [Calls -> Nat]
  PROVE  TypeOK'
<1>0. /\ pc = "calls" /\ queue \in Seq(Calls) /\ queue # <<>>
      /\ step \in Nat /\ verdict = "none"
  BY TypeHandling DEF TypeOK
<1>1. satisfied' \subseteq Keys
  BY CallKeysFacts DEF TypeOK, Settle
<1>2. queue' \in Seq(Calls) /\ (pc' = "calls" => queue' # <<>>)
  BY <1>0, NextCallFacts DEF NextCall
<1>3. pc' \in {"head", "calls"} /\ step' \in Nat
  BY <1>0 DEF NextCall
<1>4. verdict' = "none" /\ answer' = answer
  BY <1>0 DEF NextCall, Running
<1> QED
  BY <1>1, <1>2, <1>3, <1>4, TypeHandling DEF TypeOK, Verdicts

(* A dispatched call leaves the history well-typed.                          *)
LEMMA TypeRan ==
  ASSUME TypeOK, NEW c \in Calls, NEW ok \in BOOLEAN, Ran(c, ok)
  PROVE  /\ last_run' \in [Keys -> Outcomes]
         /\ ran' \in [Keys -> Nat]
         /\ ran_same' \in [Calls -> Nat]
         /\ exhausted_tools' = exhausted_tools
         /\ satisfied' = Settle(c, ok)
         /\ Handling(c)
  BY DEF TypeOK, Ran, Outcomes, Dispatchable, Accepted

(* A text completion, whatever branch judges the text.                       *)
LEMMA TypeText ==
  ASSUME TypeOK, CompleteWithText, force_tool_call' \in BOOLEAN,
         step' \in Nat, step_limit' \in Nat, nudges_used' \in Nat,
         \/ pc' = "head" /\ Running
         \/ pc' = "done" /\ verdict' \in Verdicts \ {"none"} /\ answer' \in Texts
  PROVE  TypeOK'
<1>1. tool_choice' \in ToolChoices
  BY ConfigFacts DEF TypeOK, CompleteWithText
<1>2. pc # "done" /\ verdict = "none"
  BY DEF TypeOK, CompleteWithText
<1>3. /\ verdict' \in Verdicts /\ (verdict' = "none" <=> pc' # "done")
      /\ answer' \in Texts /\ pc' \in {"head", "done"}
  BY <1>2 DEF Running, TypeOK, Verdicts
<1> QED
  BY <1>1, <1>3 DEF TypeOK, CompleteWithText, counts, history

LEMMA TypeNext == TypeOK /\ [Next]_vars => TypeOK'
<1> SUFFICES ASSUME TypeOK, [Next]_vars PROVE TypeOK'
  OBVIOUS
<1>0. cfg.max_steps \in Nat /\ cfg.tool_choice \in ToolChoices
  BY ConfigFacts DEF TypeOK
<1>1. CASE OutOfSteps
  BY <1>1 DEF TypeOK, OutOfSteps, Finish, control, counts, history, Verdicts, Failures, Texts
<1>2. CASE StopCancelled
  BY <1>2 DEF TypeOK, StopCancelled, Return, control, counts, history, Verdicts, Failures, Texts
<1>3. CASE RequestCompletion
  BY <1>3 DEF TypeOK, RequestCompletion, Running, counts, history, ToolChoices
<1>4. CASE RetryOverflow
  BY <1>4 DEF TypeOK, RetryOverflow, Running, counts, history
<1>5. CASE Throw
  BY <1>0, <1>5 DEF TypeOK, Throw, Return, counts, history, Verdicts, Failures, Texts
<1>6. CASE CompleteWithCalls
  <2>1. PICK n \in 1..MaxParallel : \E cs \in [1..n -> {c \in Calls : Callable(c)}] : queue' = cs
    BY <1>6 DEF CompleteWithCalls
  <2>2. queue' \in Seq(Calls) /\ queue' # <<>>
    BY <2>1, CompletionIsSeq
  <2> QED
    BY <1>0, <1>6, <2>2 DEF TypeOK, CompleteWithCalls, Running, counts, history
<1>7. CASE NudgeContract
  BY <1>7, TypeText DEF TypeOK, NudgeContract
<1>8. CASE FailContract
  <2>1. CompleteWithText
    BY <1>8 DEF FailContract
  <2>2. force_tool_call' \in BOOLEAN
    BY <1>8 DEF FailContract
  <2>3. nudges_used' \in Nat /\ step' \in Nat /\ step_limit' \in Nat
    BY <1>8 DEF FailContract, TypeOK
  <2> QED
    BY <1>8, <2>1, <2>2, <2>3, TypeText DEF FailContract, Return, Verdicts, Failures, Texts
<1>9. CASE Answer
  <2>1. CompleteWithText /\ force_tool_call' \in BOOLEAN
    BY <1>9 DEF Answer, Answered
  <2> QED
    BY <1>9, <2>1, TypeText DEF TypeOK, Answer, Return, Verdicts
<1>10. CASE FailEmpty
  <2>1. CompleteWithText /\ force_tool_call' \in BOOLEAN
    BY <1>10 DEF FailEmpty, Answered
  <2> QED
    BY <1>10, <2>1, TypeText DEF TypeOK, FailEmpty, Return, Verdicts, Failures, Texts
<1>11. CASE NudgeSchema
  <2>1. CompleteWithText /\ force_tool_call' \in BOOLEAN
    BY <1>11 DEF NudgeSchema, Answered
  <2>2. step' \in Nat /\ step_limit' \in Nat /\ nudges_used' \in Nat
    BY <1>11 DEF NudgeSchema, TypeOK
  <2> QED
    BY <1>11, <2>1, <2>2, TypeText DEF NudgeSchema
<1>12. CASE FailSchema
  <2>1. PICK text \in Texts :
          /\ Answered(text) /\ nudges_used' = nudges_used + 1
          /\ Return("schema_failure", text) /\ UNCHANGED <<step, step_limit>>
    BY <1>12 DEF FailSchema
  <2>2. CompleteWithText /\ force_tool_call' \in BOOLEAN
    BY <2>1 DEF Answered
  <2> QED
    BY <2>1, <2>2, TypeText DEF TypeOK, Return, Verdicts, Failures
<1>13. CASE RefuseOverBudget
  <2>1. PICK c \in Calls : /\ Handling(c)
                           /\ \/ exhausted_tools' = exhausted_tools
                              \/ exhausted_tools' = exhausted_tools \cup {ToolOf[c]}
                           /\ satisfied' = Settle(c, FALSE)
                           /\ NextCall /\ UNCHANGED history
    BY <1>13 DEF RefuseOverBudget
  <2>2. ToolOf[c] \in Tools /\ exhausted_tools \subseteq Tools
    BY CallKeysFacts DEF TypeOK
  <2>3. exhausted_tools' \subseteq Tools
    BY <2>1, <2>2
  <2> QED
    BY <2>1, <2>3, TypeSettled DEF history, TypeOK
<1>14. CASE RefuseRepeat
  <2>1. PICK c \in Calls : /\ Handling(c)
                           /\ \/ exhausted_tools' = exhausted_tools
                              \/ exhausted_tools' = exhausted_tools \cup {ToolOf[c]}
                           /\ satisfied' = Settle(c, FALSE)
                           /\ NextCall /\ UNCHANGED history
    BY <1>14 DEF RefuseRepeat
  <2>2. ToolOf[c] \in Tools /\ exhausted_tools \subseteq Tools
    BY CallKeysFacts DEF TypeOK
  <2>3. exhausted_tools' \subseteq Tools
    BY <2>1, <2>2
  <2> QED
    BY <2>1, <2>3, TypeSettled DEF history, TypeOK
<1>15. CASE DetectLoop
  <2>1. PICK c \in Calls : /\ Handling(c)
                           /\ Finish("loop_failure", "bad", satisfied)
                           /\ UNCHANGED <<step, queue, satisfied, exhausted_tools, history>>
    BY <1>15 DEF DetectLoop, Accepted
  <2> QED
    BY <2>1, TypeHandling DEF TypeOK, Finish, history, Verdicts, Failures, Texts
<1>16. CASE RefusePermission
  <2>1. PICK c \in Calls : /\ Handling(c)
                           /\ satisfied' = Settle(c, FALSE)
                           /\ NextCall /\ UNCHANGED <<exhausted_tools, history>>
    BY <1>16 DEF RefusePermission, Dispatchable, Accepted
  <2> QED
    BY <2>1, TypeSettled DEF history, TypeOK
<1>17. CASE CallTool
  <2>1. PICK c \in Calls, ok \in BOOLEAN : Ran(c, ok) /\ NextCall
    BY <1>17 DEF CallTool
  <2> QED
    BY <2>1, TypeRan, TypeSettled DEF TypeOK
<1>18. CASE AnswerFromTool
  <2>1. PICK c \in Calls, text \in Texts :
          /\ Ran(c, TRUE)
          /\ Finish("answer", text, Settle(c, TRUE))
          /\ UNCHANGED <<step, queue>>
    BY <1>18 DEF AnswerFromTool
  <2>2. satisfied' \subseteq Keys
    <3>1. satisfied' = Settle(c, TRUE)
      BY <2>1, TypeRan
    <3>2. CallKeys(c) \subseteq Keys
      BY CallKeysFacts
    <3>3. satisfied \subseteq Keys
      BY DEF TypeOK
    <3> QED
      BY <3>1, <3>2, <3>3 DEF Settle
  <2>3. /\ last_run' \in [Keys -> Outcomes] /\ ran' \in [Keys -> Nat]
        /\ ran_same' \in [Calls -> Nat]
        /\ exhausted_tools' = exhausted_tools /\ Handling(c)
    BY <2>1, TypeRan
  <2>4. pc' = "done" /\ verdict' \in Verdicts \ {"none"} /\ answer' \in Texts
    BY <2>1 DEF Finish, Verdicts, Failures
  <2> QED
    BY <2>1, <2>2, <2>3, <2>4, TypeHandling DEF TypeOK
<1>19. CASE Cancel
  BY <1>19 DEF TypeOK, Cancel, control, counts, history
<1>20. CASE UNCHANGED vars
  BY <1>20 DEF TypeOK, vars, control, counts, history
<1> QED
  BY <1>1, <1>2, <1>3, <1>4, <1>5, <1>6, <1>7, <1>8, <1>9, <1>10, <1>11, <1>12, <1>13,
     <1>14, <1>15, <1>16, <1>17, <1>18, <1>19, <1>20 DEF Next, LoopStep

(* Every variable of run_loop keeps its type, whatever the agent, the model  *)
(* and the tools do.                                                         *)
THEOREM TypeCorrect == Spec => []TypeOK
  BY TypeInit, TypeNext, PTL DEF Spec

(***************************************************************************)
(* What a step does to the counters and the history                        *)
(***************************************************************************)

(* No step changes the configuration, nor what is derived from it.           *)
LEMMA ConfigFixed ==
  ASSUME [Next]_vars
  PROVE  /\ cfg' = cfg /\ MaxSameTool' = MaxSameTool
         /\ NudgeBudget' = NudgeBudget /\ Required' = Required
<1>1. cfg' = cfg
  BY DEF Next, LoopStep, vars, OutOfSteps, StopCancelled, RequestCompletion, RetryOverflow,
         Throw, CompleteWithCalls, NudgeContract, FailContract, Answer, FailEmpty, NudgeSchema,
         FailSchema, Answered, CompleteWithText, RefuseOverBudget, RefuseRepeat, DetectLoop,
         RefusePermission, CallTool, AnswerFromTool, Ran, Dispatchable, Accepted, Handling, Cancel
<1> QED
  BY <1>1 DEF MaxSameTool, NudgeBudget, Required

(* A step leaves them alone, counts a call that does not run, or runs one.  *)
LEMMA HistoryStep ==
  ASSUME TypeOK, [Next]_vars
  PROVE  \/ UNCHANGED <<satisfied, sig_counts, name_counts, last_run, ran, ran_same>>
         \/ \E c \in Calls :
              Handling(c) /\ satisfied' \subseteq satisfied /\ UNCHANGED <<last_run, ran, ran_same>>
         \/ \E c \in Calls, ok \in BOOLEAN : Ran(c, ok)
<1>1. CASE OutOfSteps \/ StopCancelled
  BY <1>1 DEF OutOfSteps, StopCancelled, counts, history
<1>2. CASE RequestCompletion \/ RetryOverflow \/ Throw
  BY <1>2 DEF RequestCompletion, RetryOverflow, Throw, counts, history
<1>3. CASE CompleteWithCalls
  BY <1>3 DEF CompleteWithCalls, counts, history
<1>4. CASE NudgeContract \/ FailContract \/ Answer \/ FailEmpty \/ NudgeSchema \/ FailSchema
  <2>1. CompleteWithText
    BY <1>4 DEF NudgeContract, FailContract, Answer, FailEmpty, NudgeSchema, FailSchema, Answered
  <2> QED
    BY <2>1 DEF CompleteWithText, counts, history
<1>5. CASE RefuseOverBudget
  BY <1>5 DEF RefuseOverBudget, Settle, history
<1>6. CASE RefuseRepeat
  BY <1>6 DEF RefuseRepeat, Settle, history
<1>7. CASE DetectLoop
  BY <1>7 DEF DetectLoop, Accepted, history
<1>8. CASE RefusePermission
  BY <1>8 DEF RefusePermission, Dispatchable, Accepted, Settle, history
<1>9. CASE CallTool
  BY <1>9 DEF CallTool
<1>10. CASE AnswerFromTool
  BY <1>10 DEF AnswerFromTool
<1>11. CASE Cancel \/ UNCHANGED vars
  BY <1>11 DEF Cancel, vars, counts, history
<1> QED
  BY <1>1, <1>2, <1>3, <1>4, <1>5, <1>6, <1>7, <1>8, <1>9, <1>10, <1>11 DEF Next, LoopStep

(* A dispatched call passed every ceiling and ran at most once before.       *)
LEMMA RanWithinLimits ==
  ASSUME TypeOK, NEW c \in Calls, NEW ok \in BOOLEAN, Ran(c, ok)
  PROVE  /\ sig_counts[c] + 1 <= 2
         /\ name_counts[ToolOf[c]] + 1 <= MaxSameTool
         /\ \A k \in CallKeys(c) : cfg.tool_limits[k] >= 0 =>
                                     name_counts[k] + 1 <= cfg.tool_limits[k]
         /\ CountedKeys(c) = CallKeys(c)
<1>1. /\ ~ToolRefused(c) /\ ~ScriptRefused(c)
      /\ name_counts[ToolOf[c]] + 1 <= MaxSameTool
      /\ RepeatAction(sig_counts[c] + 1) = "run"
  BY DEF Ran, Dispatchable, Accepted, Refused, Repeat
<1>2. sig_counts[c] + 1 <= 2
  BY <1>1 DEF RepeatAction, TypeOK
<1>3. /\ ToolOf[c] \in Keys
      /\ \A k \in CallKeys(c) : k # ToolOf[c] => k = ScriptKeyOf[c] /\ k # NoKey
      /\ CallKeys(c) \subseteq Keys
  BY CallKeysFacts, KeysAssumption DEF CallKeys, Keys
<1>4. cfg.tool_limits \in [Keys -> Int] /\ name_counts \in [Keys -> Nat]
  BY ConfigFacts DEF TypeOK
<1>5. cfg.tool_limits[ToolOf[c]] >= 0 => name_counts[ToolOf[c]] + 1 <= cfg.tool_limits[ToolOf[c]]
  BY <1>1, <1>3, <1>4 DEF ToolRefused, Over, EffectiveLimit
<1>6. ASSUME NEW k \in CallKeys(c), k # ToolOf[c], cfg.tool_limits[k] >= 0
      PROVE  name_counts[k] + 1 <= cfg.tool_limits[k]
  BY <1>1, <1>3, <1>4, <1>6 DEF ScriptRefused, Over, EffectiveLimit
<1> QED
  BY <1>1, <1>2, <1>5, <1>6 DEF CountedKeys

(* The call accounting is preserved: satisfied keys, counters, ceilings.     *)
LEMMA AccountingNext ==
  ASSUME TypeOK, SatisfiedSucceeded, RunsCounted, BudgetRespected, RepeatsRunTwice, [Next]_vars
  PROVE  SatisfiedSucceeded' /\ RunsCounted' /\ BudgetRespected' /\ RepeatsRunTwice'
<1>0. cfg' = cfg /\ MaxSameTool' = MaxSameTool
  BY ConfigFixed
<1>1. CASE UNCHANGED <<satisfied, sig_counts, name_counts, last_run, ran, ran_same>>
  BY <1>0, <1>1 DEF SatisfiedSucceeded, RunsCounted, BudgetRespected, RepeatsRunTwice
<1>2. ASSUME NEW c \in Calls, Handling(c), satisfied' \subseteq satisfied,
             UNCHANGED <<last_run, ran, ran_same>>
      PROVE  SatisfiedSucceeded' /\ RunsCounted' /\ BudgetRespected' /\ RepeatsRunTwice'
  <2>1. SatisfiedSucceeded' /\ BudgetRespected' /\ RepeatsRunTwice'
    BY <1>0, <1>2 DEF SatisfiedSucceeded, BudgetRespected, RepeatsRunTwice
  <2>2. /\ \A k \in Keys : name_counts[k] <= name_counts'[k]
        /\ \A d \in Calls : sig_counts[d] <= sig_counts'[d]
    BY <1>2 DEF Handling, Counted, TypeOK
  <2>3. RunsCounted'
    <3>1. /\ {name_counts, name_counts', ran} \subseteq [Keys -> Nat]
          /\ {sig_counts, sig_counts', ran_same} \subseteq [Calls -> Nat]
      BY TypeNext DEF TypeOK
    <3> QED
      BY <1>2, <2>2, <3>1 DEF RunsCounted
  <2> QED
    BY <2>1, <2>3
<1>3. ASSUME NEW c \in Calls, NEW ok \in BOOLEAN, Ran(c, ok)
      PROVE  SatisfiedSucceeded' /\ RunsCounted' /\ BudgetRespected' /\ RepeatsRunTwice'
  <2>1. Handling(c)
    BY <1>3, TypeRan
  <2>2. SatisfiedSucceeded'
    BY <1>3, TypeNext DEF SatisfiedSucceeded, Ran, Settle, TypeOK
  <2>3. /\ \A k \in Keys : /\ k \in CallKeys(c) => /\ ran'[k] = ran[k] + 1
                                                   /\ name_counts'[k] = name_counts[k] + 1
                           /\ k \notin CallKeys(c) => /\ ran'[k] = ran[k]
                                                      /\ name_counts'[k] = name_counts[k]
    BY <1>3, <2>1, RanWithinLimits DEF Ran, Handling, Counted, TypeOK
  <2>4. \A d \in Calls : IF d = c THEN ran_same'[d] = ran_same[d] + 1
                                       /\ sig_counts'[d] = sig_counts[d] + 1
                                  ELSE ran_same'[d] = ran_same[d] /\ sig_counts'[d] = sig_counts[d]
    BY <1>3, <2>1 DEF Ran, Handling, TypeOK
  <2>5. /\ ran \in [Keys -> Nat] /\ name_counts \in [Keys -> Nat]
        /\ ran_same \in [Calls -> Nat] /\ sig_counts \in [Calls -> Nat]
        /\ cfg.tool_limits \in [Keys -> Int] /\ MaxSameTool \in Nat
    BY ConfigFacts DEF TypeOK
  <2>6. /\ sig_counts[c] + 1 <= 2
        /\ name_counts[ToolOf[c]] + 1 <= MaxSameTool
        /\ \A k \in CallKeys(c) : cfg.tool_limits[k] >= 0 =>
                                    name_counts[k] + 1 <= cfg.tool_limits[k]
    BY <1>3, RanWithinLimits
  <2>7. /\ \A k \in Keys : ran[k] <= name_counts[k]
        /\ \A d \in Calls : ran_same[d] <= sig_counts[d]
    BY DEF RunsCounted
  <2>8. RunsCounted'
    <3>1. \A k \in Keys : ran'[k] <= name_counts'[k]
      BY <2>3, <2>5, <2>7
    <3>2. \A d \in Calls : ran_same'[d] <= sig_counts'[d]
      BY <2>4, <2>5, <2>7
    <3> QED
      BY <3>1, <3>2 DEF RunsCounted
  <2>9. RepeatsRunTwice'
    <3>1. \A d \in Calls : ran_same'[d] <= 2
      BY <2>4, <2>5, <2>6, <2>7 DEF RepeatsRunTwice
    <3> QED
      BY <3>1 DEF RepeatsRunTwice
  <2>10. ASSUME NEW k \in Keys, cfg.tool_limits[k] >= 0
         PROVE  ran'[k] <= cfg.tool_limits[k]
    <3>1. ran[k] <= cfg.tool_limits[k]
      BY <2>10 DEF BudgetRespected
    <3>2. CASE k \in CallKeys(c)
      BY <2>3, <2>5, <2>6, <2>7, <2>10, <3>2
    <3>3. CASE k \notin CallKeys(c)
      BY <2>3, <3>1, <3>3
    <3> QED
      BY <3>2, <3>3
  <2>11. ASSUME NEW t \in Tools
         PROVE  ran'[t] <= MaxSameTool
    <3>1. t \in Keys /\ ran[t] <= MaxSameTool
      BY DEF Keys, BudgetRespected
    <3>2. CASE t \in CallKeys(c)
      <4>1. t = ToolOf[c]
        BY <3>2, KeysAssumption DEF CallKeys
      <4> QED
        BY <2>3, <2>5, <2>6, <2>7, <3>1, <3>2, <4>1
    <3>3. CASE t \notin CallKeys(c)
      BY <2>3, <3>1, <3>3
    <3> QED
      BY <3>2, <3>3
  <2>12. BudgetRespected'
    BY <1>0, <2>10, <2>11 DEF BudgetRespected
  <2> QED
    BY <2>2, <2>8, <2>9, <2>12
<1> QED
  BY <1>1, <1>2, <1>3, HistoryStep

(***************************************************************************)
(* Steps, nudges and the tool choice                                       *)
(***************************************************************************)
Control == /\ ToolChoiceOfStep /\ ForcedOnlyWhenOwed /\ NudgesPayForSteps
           /\ ExtraStepsAnswer /\ StepsBounded

(* A call of a completion is handled with the contract still owed or the     *)
(* step an ordinary one, so going on never needs an extra step.              *)
LEMMA ControlSettled ==
  ASSUME TypeOK, Control, [Next]_vars, NEW c \in Calls, Handling(c), NextCall
  PROVE  Control'
<1>0. /\ step \in Nat /\ step_limit \in Nat /\ nudges_used \in Nat
      /\ cfg.max_steps \in Nat /\ NudgeBudget \in Nat
  BY ConfigFacts DEF TypeOK
<1>1. /\ pc = "calls" /\ cfg' = cfg /\ NudgeBudget' = NudgeBudget
      /\ tool_choice' = tool_choice /\ step_limit' = step_limit /\ nudges_used' = nudges_used
  BY ConfigFixed DEF Handling
<1>2. force_tool_call' = FALSE
  BY <1>1 DEF Handling, Control, ForcedOnlyWhenOwed, TypeOK
<1>3. \/ pc' = "head" /\ step' = step + 1
      \/ pc' = "calls" /\ step' = step
  BY <1>1 DEF NextCall
<1>4. /\ step < step_limit /\ step_limit <= cfg.max_steps
      /\ nudges_used <= NudgeBudget
  BY <1>0, <1>1 DEF Control, NudgesPayForSteps, ExtraStepsAnswer
<1>5. ToolChoiceOfStep'
  BY <1>1, <1>3 DEF Control, ToolChoiceOfStep
<1>6. ForcedOnlyWhenOwed'
  BY <1>2 DEF ForcedOnlyWhenOwed
<1>7. NudgesPayForSteps'
  BY <1>0, <1>1, <1>3, <1>4 DEF NudgesPayForSteps
<1>8. ExtraStepsAnswer'
  BY <1>0, <1>1, <1>4 DEF ExtraStepsAnswer
<1>9. StepsBounded'
  BY <1>0, <1>1, <1>3, <1>4 DEF StepsBounded
<1> QED
  BY <1>5, <1>6, <1>7, <1>8, <1>9 DEF Control

(* A run that ends keeps its steps; only a failed nudge counts once more.    *)
LEMMA ControlEnded ==
  ASSUME TypeOK, Control, [Next]_vars, pc # "done", pc' = "done",
         step' = step, step_limit' = step_limit,
         nudges_used' = nudges_used \/ nudges_used' = nudges_used + 1
  PROVE  Control'
<1>0. /\ step \in Nat /\ step_limit \in Nat /\ nudges_used \in Nat
      /\ cfg.max_steps \in Nat /\ NudgeBudget \in Nat
  BY ConfigFacts DEF TypeOK
<1>1. cfg' = cfg /\ NudgeBudget' = NudgeBudget
  BY ConfigFixed
<1>2. nudges_used <= NudgeBudget
  BY DEF Control, NudgesPayForSteps
<1>3. StepsBounded'
  BY <1>0, <1>1, <1>2 DEF Control, StepsBounded
<1> QED
  BY <1>3 DEF Control, ToolChoiceOfStep, ForcedOnlyWhenOwed, NudgesPayForSteps, ExtraStepsAnswer

(* A completion can ask for calls only on a step max_steps paid for, and on   *)
(* the last of those only when a required call is owed.                      *)
LEMMA CallsPaidFor ==
  ASSUME TypeOK, Control, CompleteWithCalls
  PROVE  /\ step < step_limit /\ step_limit <= cfg.max_steps
         /\ step + 1 = cfg.max_steps => Missing(satisfied) # {}
<1>0. step \in Nat /\ step_limit \in Nat /\ cfg.max_steps \in Nat
  BY ConfigFacts DEF TypeOK
<1>1. pc \in {"complete", "retry"} /\ tool_choice # "none"
  BY DEF CompleteWithCalls
<1>2. step < step_limit
  BY <1>1 DEF Control, NudgesPayForSteps
<1>3. LastStep => force_tool_call
  BY <1>1 DEF Control, ToolChoiceOfStep
<1>4. LastStep => Missing(satisfied) # {}
  BY <1>1, <1>3 DEF Control, ForcedOnlyWhenOwed
<1>5. step_limit <= cfg.max_steps
  <2>1. CASE step_limit > cfg.max_steps
    <3>1. step + 1 = step_limit /\ Missing(satisfied) = {}
      BY <1>1, <1>2, <2>1 DEF Control, ExtraStepsAnswer
    <3> QED
      BY <1>0, <1>4, <3>1 DEF LastStep
  <2> QED
    BY <1>0, <2>1
<1> QED
  BY <1>0, <1>2, <1>4, <1>5 DEF LastStep

(* The bookkeeping of steps, nudges and tool choice is preserved.            *)
LEMMA ControlNext == TypeOK /\ Control /\ [Next]_vars => Control'
<1> SUFFICES ASSUME TypeOK, Control, [Next]_vars PROVE Control'
  OBVIOUS
<1>0. /\ step \in Nat /\ step_limit \in Nat /\ nudges_used \in Nat
      /\ cfg.max_steps \in Nat /\ NudgeBudget \in Nat /\ force_tool_call \in BOOLEAN
  BY ConfigFacts DEF TypeOK
<1>c. cfg' = cfg /\ NudgeBudget' = NudgeBudget /\ Required' = Required
  BY ConfigFixed
<1>1. CASE OutOfSteps
  BY <1>1, ControlEnded DEF OutOfSteps, Finish, control
<1>2. CASE StopCancelled
  BY <1>2, ControlEnded DEF StopCancelled, Return, control
<1>3. CASE RequestCompletion
  <2>1. /\ pc = "head" /\ pc' = "complete" /\ step < step_limit
        /\ step' = step /\ step_limit' = step_limit /\ nudges_used' = nudges_used
        /\ force_tool_call' = force_tool_call /\ satisfied' = satisfied
    BY <1>3 DEF RequestCompletion
  <2>2. tool_choice' = IF force_tool_call THEN "required"
                       ELSE IF LastStep THEN "none" ELSE cfg.tool_choice
    BY <1>3, <2>1 DEF RequestCompletion, Withhold, Control, ToolChoiceOfStep
  <2>3. LastStep' = LastStep /\ Missing(satisfied)' = Missing(satisfied)
    BY <1>c, <2>1 DEF LastStep, Missing
  <2>4. ToolChoiceOfStep'
    BY <1>c, <2>1, <2>2, <2>3 DEF ToolChoiceOfStep
  <2>5. ForcedOnlyWhenOwed'
    BY <2>1, <2>3 DEF Control, ForcedOnlyWhenOwed
  <2>6. NudgesPayForSteps' /\ StepsBounded'
    BY <1>c, <2>1 DEF Control, NudgesPayForSteps, StepsBounded
  <2>7. ExtraStepsAnswer'
    BY <1>c, <2>1, <2>3 DEF Control, ExtraStepsAnswer
  <2> QED
    BY <2>4, <2>5, <2>6, <2>7 DEF Control
<1>4. CASE RetryOverflow
  <2>1. /\ pc = "complete" /\ pc' = "retry"
        /\ UNCHANGED <<step, step_limit, nudges_used, force_tool_call, satisfied, tool_choice>>
    BY <1>4 DEF RetryOverflow
  <2>2. LastStep' = LastStep /\ Missing(satisfied)' = Missing(satisfied)
    BY <1>c, <2>1 DEF LastStep, Missing
  <2> QED
    BY <1>c, <2>1, <2>2 DEF Control, ToolChoiceOfStep, ForcedOnlyWhenOwed, NudgesPayForSteps,
                            StepsBounded, ExtraStepsAnswer
<1>5. CASE Throw
  BY <1>5, ControlEnded DEF Throw, Return
<1>6. CASE CompleteWithCalls
  <2>1. /\ pc \in {"complete", "retry"} /\ pc' = "calls" /\ force_tool_call' = FALSE
        /\ UNCHANGED <<step, step_limit, nudges_used>>
    BY <1>6 DEF CompleteWithCalls
  <2>2. tool_choice' = cfg.tool_choice
    BY <1>0, <1>6, <2>1 DEF CompleteWithCalls, Withhold, Control, ToolChoiceOfStep
  <2>3. step < step_limit /\ step_limit <= cfg.max_steps
    BY <1>6, CallsPaidFor
  <2>4. ToolChoiceOfStep' /\ ForcedOnlyWhenOwed'
    BY <1>c, <2>1, <2>2 DEF ToolChoiceOfStep, ForcedOnlyWhenOwed
  <2>5. NudgesPayForSteps' /\ StepsBounded'
    BY <1>c, <2>1 DEF Control, NudgesPayForSteps, StepsBounded
  <2>6. ExtraStepsAnswer'
    BY <1>0, <1>c, <2>1, <2>3 DEF ExtraStepsAnswer
  <2> QED
    BY <2>4, <2>5, <2>6 DEF Control
<1>7. CASE NudgeContract
  <2>1. CompleteWithText /\ Missing(satisfied) # {} /\ nudges_used < NudgeBudget
    BY <1>7 DEF NudgeContract, NudgesLeft
  <2>2. /\ pc' = "head" /\ step' = step + 1 /\ step_limit' = step_limit
        /\ nudges_used' = nudges_used + 1 /\ satisfied' = satisfied
        /\ pc \in {"complete", "retry"}
    BY <1>7, <2>1 DEF NudgeContract, CompleteWithText
  <2>3. Missing(satisfied)' # {}
    BY <1>c, <2>1, <2>2 DEF Missing
  <2>4. /\ step < step_limit /\ step_limit <= cfg.max_steps + nudges_used
        /\ step_limit <= cfg.max_steps
    BY <1>0, <2>1, <2>2 DEF Control, NudgesPayForSteps, ExtraStepsAnswer
  <2>5. ToolChoiceOfStep'
    <3>1. tool_choice' = cfg.tool_choice
      BY <1>0, <2>1, <2>2 DEF CompleteWithText, Withhold, Control, ToolChoiceOfStep
    <3> QED
      BY <1>c, <2>2, <3>1 DEF ToolChoiceOfStep
  <2>6. ForcedOnlyWhenOwed'
    BY <2>2, <2>3 DEF ForcedOnlyWhenOwed
  <2>7. NudgesPayForSteps' /\ StepsBounded'
    BY <1>0, <1>c, <2>1, <2>2, <2>4 DEF NudgesPayForSteps, StepsBounded
  <2>8. ExtraStepsAnswer'
    BY <1>0, <1>c, <2>2, <2>4 DEF ExtraStepsAnswer
  <2> QED
    BY <2>5, <2>6, <2>7, <2>8 DEF Control
<1>8. CASE FailContract
  <2>1. pc # "done"
    BY <1>8 DEF FailContract, CompleteWithText
  <2> QED
    BY <1>8, <2>1, ControlEnded DEF FailContract, Return
<1>9. CASE Answer \/ FailEmpty
  <2>1. pc # "done"
    BY <1>9 DEF Answer, FailEmpty, Answered, CompleteWithText
  <2> QED
    BY <1>9, <2>1, ControlEnded DEF Answer, FailEmpty, Return
<1>10. CASE NudgeSchema
  <2>1. /\ CompleteWithText /\ Missing(satisfied) = {} /\ force_tool_call' = FALSE
        /\ nudges_used < NudgeBudget
    BY <1>10 DEF NudgeSchema, Answered, NudgesLeft
  <2>2. /\ pc' = "head" /\ step' = step + 1 /\ nudges_used' = nudges_used + 1
        /\ step_limit' = IF LastStep THEN step_limit + 1 ELSE step_limit
        /\ satisfied' = satisfied /\ pc \in {"complete", "retry"}
    BY <1>10, <2>1 DEF NudgeSchema, CompleteWithText
  <2>3. Missing(satisfied)' = {}
    BY <1>c, <2>1, <2>2 DEF Missing
  <2>4. step < step_limit /\ step_limit <= cfg.max_steps + nudges_used
    BY <2>2 DEF Control, NudgesPayForSteps
  <2>5. ~LastStep => step_limit <= cfg.max_steps /\ step + 1 < step_limit
    BY <1>0, <2>2, <2>4 DEF Control, ExtraStepsAnswer, LastStep
  <2>6. LastStep => step_limit = step + 1
    BY <1>0, <2>4 DEF LastStep
  <2>7. ToolChoiceOfStep'
    <3>1. tool_choice' = cfg.tool_choice
      BY <1>0, <2>1, <2>2 DEF CompleteWithText, Withhold, Control, ToolChoiceOfStep
    <3> QED
      BY <1>c, <2>2, <3>1 DEF ToolChoiceOfStep
  <2>8. ForcedOnlyWhenOwed'
    BY <2>1 DEF ForcedOnlyWhenOwed
  <2>9. NudgesPayForSteps' /\ StepsBounded'
    <3>1. step_limit' <= cfg.max_steps + (nudges_used + 1) /\ step' <= step_limit'
      BY <1>0, <2>2, <2>4
    <3> QED
      BY <1>0, <1>c, <2>1, <2>2, <3>1 DEF NudgesPayForSteps, StepsBounded
  <2>10. ExtraStepsAnswer'
    BY <1>0, <1>c, <2>2, <2>3, <2>5, <2>6 DEF ExtraStepsAnswer
  <2> QED
    BY <2>7, <2>8, <2>9, <2>10 DEF Control
<1>11. CASE FailSchema
  <2>1. pc # "done"
    BY <1>11 DEF FailSchema, Answered, CompleteWithText
  <2> QED
    BY <1>11, <2>1, ControlEnded DEF FailSchema, Return
<1>12. CASE RefuseOverBudget \/ RefuseRepeat \/ RefusePermission \/ CallTool
  <2>1. PICK c \in Calls : Handling(c) /\ NextCall
    BY <1>12 DEF RefuseOverBudget, RefuseRepeat, RefusePermission, CallTool, Ran, Dispatchable,
                 Accepted
  <2> QED
    BY <2>1, ControlSettled
<1>13. CASE DetectLoop \/ AnswerFromTool
  <2>1. /\ pc = "calls" /\ pc' = "done"
        /\ UNCHANGED <<step, step_limit, nudges_used>>
    BY <1>13 DEF DetectLoop, AnswerFromTool, Ran, Dispatchable, Accepted, Handling, Finish
  <2> QED
    BY <2>1, ControlEnded
<1>14. CASE Cancel \/ UNCHANGED vars
  <2>1. UNCHANGED <<cfg, pc, step, step_limit, tool_choice, force_tool_call, nudges_used, satisfied>>
    BY <1>14 DEF Cancel, vars, control
  <2>2. LastStep' = LastStep /\ Missing(satisfied)' = Missing(satisfied)
    BY <1>c, <2>1 DEF LastStep, Missing
  <2> QED
    BY <1>c, <2>1, <2>2 DEF Control, ToolChoiceOfStep, ForcedOnlyWhenOwed, NudgesPayForSteps,
                            StepsBounded, ExtraStepsAnswer
<1> QED
  BY <1>1, <1>2, <1>3, <1>4, <1>5, <1>6, <1>7, <1>8, <1>9, <1>10, <1>11, <1>12, <1>13, <1>14
     DEF Next, LoopStep

(***************************************************************************)
(* Verdicts                                                                *)
(***************************************************************************)
Promises == AnswerMeetsContract /\ AnswerFitsSchema /\ LoopFailureNeedsDeclaredCeiling

(* The step that ends a run, by verdict.                                     *)
LEMMA VerdictStep ==
  ASSUME TypeOK, Next, pc' = "done", pc # "done"
  PROVE  /\ verdict' = "answer" =>
              Required \subseteq satisfied' /\ (cfg.has_schema => answer' = "good")
         /\ verdict' = "loop_failure" => \E t \in Tools : cfg.tool_limits[t] > MaxSameTool
<1>1. CASE OutOfSteps
  BY <1>1 DEF OutOfSteps, Finish
<1>2. CASE StopCancelled \/ Throw
  BY <1>2 DEF StopCancelled, Throw, Return
<1>3. CASE RequestCompletion \/ RetryOverflow \/ CompleteWithCalls \/ NudgeContract
           \/ NudgeSchema \/ Cancel
  BY <1>3 DEF RequestCompletion, RetryOverflow, CompleteWithCalls, NudgeContract, NudgeSchema,
              Cancel
<1>4. CASE FailContract \/ FailEmpty \/ FailSchema
  BY <1>4 DEF FailContract, FailEmpty, FailSchema, Return
<1>5. CASE Answer
  <2>1. PICK text \in Texts :
          /\ Answered(text) /\ Return("answer", text)
          /\ IF cfg.has_schema THEN text = "good" ELSE text # "empty"
    BY <1>5 DEF Answer
  <2>2. Missing(satisfied) = {} /\ satisfied' = satisfied
    BY <2>1 DEF Answered, CompleteWithText
  <2> QED
    BY <2>1, <2>2 DEF Return, Missing
<1>6. CASE RefuseOverBudget \/ RefuseRepeat \/ RefusePermission \/ CallTool
  <2>1. NextCall /\ pc = "calls"
    BY <1>6 DEF RefuseOverBudget, RefuseRepeat, RefusePermission, CallTool, Ran, Dispatchable,
                Accepted, Handling
  <2> QED
    BY <2>1 DEF NextCall
<1>7. CASE DetectLoop
  <2>1. PICK c \in Calls : /\ Accepted(c) /\ name_counts[ToolOf[c]] + 1 > MaxSameTool
                           /\ Finish("loop_failure", "bad", satisfied)
    BY <1>7 DEF DetectLoop
  <2>2. verdict' # "answer"
    BY <2>1 DEF Finish
  <2>3. /\ ToolOf[c] \in Tools /\ ToolOf[c] \in Keys
        /\ cfg.tool_limits \in [Keys -> Int] /\ name_counts \in [Keys -> Nat]
        /\ MaxSameTool \in Nat
    BY CallKeysFacts, ConfigFacts DEF TypeOK, Keys
  <2>4. ~ToolRefused(c)
    BY <2>1 DEF Accepted, Refused
  <2>5. cfg.tool_limits[ToolOf[c]] > MaxSameTool
    BY <2>1, <2>3, <2>4 DEF ToolRefused, Over, EffectiveLimit
  <2> QED
    BY <2>2, <2>3, <2>5
<1>8. CASE AnswerFromTool
  <2>1. PICK c \in Calls, text \in Texts :
          Ran(c, TRUE) /\ Finish("answer", text, Settle(c, TRUE))
    BY <1>8 DEF AnswerFromTool
  <2>2. satisfied' = Settle(c, TRUE)
    BY <2>1, TypeRan
  <2>3. verdict' # "loop_failure"
    BY <2>1 DEF Finish
  <2>4. verdict' = "answer" => Missing(Settle(c, TRUE)) = {}
    BY <2>1 DEF Finish
  <2>5. verdict' = "answer" => (cfg.has_schema => answer' = "good")
    BY <2>1 DEF Finish
  <2> QED
    BY <2>2, <2>3, <2>4, <2>5 DEF Missing
<1> QED
  BY <1>1, <1>2, <1>3, <1>4, <1>5, <1>6, <1>7, <1>8 DEF Next, LoopStep

(* A finished run does not move.                                             *)
LEMMA DoneIsFinal ==
  ASSUME [Next]_vars, pc = "done"
  PROVE  UNCHANGED vars
  BY DEF Next, LoopStep, OutOfSteps, StopCancelled, RequestCompletion, RetryOverflow, Throw,
         CompleteWithCalls, NudgeContract, FailContract, Answer, FailEmpty, NudgeSchema,
         FailSchema, Answered, CompleteWithText, RefuseOverBudget, RefuseRepeat, DetectLoop,
         RefusePermission, CallTool, AnswerFromTool, Ran, Dispatchable, Accepted, Handling, Cancel

(* The promises an answer makes are kept by every step.                      *)
LEMMA PromisesNext ==
  ASSUME TypeOK, TypeOK', SatisfiedSucceeded', Promises, [Next]_vars
  PROVE  Promises'
<1>0. cfg' = cfg /\ MaxSameTool' = MaxSameTool /\ Required' = Required
  BY ConfigFixed
<1>1. CASE pc = "done"
  BY <1>0, <1>1, DoneIsFinal
     DEF Promises, AnswerMeetsContract, AnswerFitsSchema, LoopFailureNeedsDeclaredCeiling, vars, history
<1>2. CASE pc' # "done"
  BY <1>2 DEF TypeOK, Promises, AnswerMeetsContract, AnswerFitsSchema,
              LoopFailureNeedsDeclaredCeiling
<1>3. CASE pc # "done" /\ pc' = "done"
  <2>1. Next
    BY <1>3 DEF vars
  <2>2. /\ verdict' = "answer" =>
             Required \subseteq satisfied' /\ (cfg.has_schema => answer' = "good")
        /\ verdict' = "loop_failure" => \E t \in Tools : cfg.tool_limits[t] > MaxSameTool
    BY <1>3, <2>1, VerdictStep
  <2> QED
    BY <1>0, <2>2 DEF Promises, AnswerMeetsContract, AnswerFitsSchema,
                      LoopFailureNeedsDeclaredCeiling, SatisfiedSucceeded
<1> QED
  BY <1>1, <1>2, <1>3

(***************************************************************************)
(* The inductive invariant and what follows from it                        *)
(***************************************************************************)
LEMMA InvariantInit == Init => IInv
<1> SUFFICES ASSUME Init PROVE IInv
  OBVIOUS
<1>0. /\ TypeOK /\ cfg.max_steps \in Nat /\ NudgeBudget \in Nat /\ MaxSameTool \in Nat
      /\ cfg.tool_limits \in [Keys -> Int]
  BY TypeInit, ConfigFacts DEF Init
<1>1. SatisfiedSucceeded /\ RunsCounted /\ RepeatsRunTwice
  BY DEF Init, SatisfiedSucceeded, RunsCounted, RepeatsRunTwice
<1>2. BudgetRespected
  BY <1>0 DEF Init, BudgetRespected, Keys
<1>3. ToolChoiceOfStep /\ ForcedOnlyWhenOwed
  BY DEF Init, ToolChoiceOfStep, ForcedOnlyWhenOwed
<1>4. NudgesPayForSteps /\ ExtraStepsAnswer /\ StepsBounded
  BY <1>0 DEF Init, NudgesPayForSteps, ExtraStepsAnswer, StepsBounded
<1>5. AnswerMeetsContract /\ AnswerFitsSchema /\ LoopFailureNeedsDeclaredCeiling
  BY DEF Init, AnswerMeetsContract, AnswerFitsSchema, LoopFailureNeedsDeclaredCeiling
<1> QED
  BY <1>0, <1>1, <1>2, <1>3, <1>4, <1>5 DEF IInv

LEMMA InvariantNext == IInv /\ [Next]_vars => IInv'
<1> SUFFICES ASSUME IInv, [Next]_vars PROVE IInv'
  OBVIOUS
<1>1. TypeOK /\ TypeOK'
  BY TypeNext DEF IInv
<1>2. SatisfiedSucceeded' /\ RunsCounted' /\ BudgetRespected' /\ RepeatsRunTwice'
  BY <1>1, AccountingNext DEF IInv
<1>3. Control'
  BY <1>1, ControlNext DEF IInv, Control
<1>4. Promises'
  BY <1>1, <1>2, PromisesNext DEF IInv, Promises
<1> QED
  BY <1>1, <1>2, <1>3, <1>4 DEF IInv, Control, Promises

(* The bookkeeping of a run agrees with what it really did, in every state:  *)
(* the invariant the theorems below rest on.                                 *)
THEOREM InvariantHolds == Spec => []IInv
  BY InvariantInit, InvariantNext, PTL DEF Spec

(* An unmarked answer means every required call's last run succeeded.        *)
THEOREM ContractHolds == Spec => []AnswerMeetsContract
<1>1. IInv => AnswerMeetsContract
  BY DEF IInv
<1> QED
  BY <1>1, InvariantHolds, PTL

(* An unmarked answer satisfies the declared schema.                         *)
THEOREM SchemaHolds == Spec => []AnswerFitsSchema
<1>1. IInv => AnswerFitsSchema
  BY DEF IInv
<1> QED
  BY <1>1, InvariantHolds, PTL

(* No tool or script runs more often than its ceiling.                       *)
THEOREM CeilingsHold == Spec => []BudgetRespected
<1>1. IInv => BudgetRespected
  BY DEF IInv
<1> QED
  BY <1>1, InvariantHolds, PTL

(* An identical call runs at most twice.                                     *)
THEOREM RepeatsHold == Spec => []RepeatsRunTwice
<1>1. IInv => RepeatsRunTwice
  BY DEF IInv
<1> QED
  BY <1>1, InvariantHolds, PTL

(* A run takes at most max_steps plus its nudge budget of steps.             *)
THEOREM StepsHold == Spec => []StepsBounded
<1>1. IInv => StepsBounded
  BY DEF IInv
<1> QED
  BY <1>1, InvariantHolds, PTL

(* loop_failure is out of reach unless the agent raised a tool's ceiling     *)
(* above the loop detector's own.                                            *)
THEOREM LoopFailureHolds == Spec => []LoopFailureNeedsDeclaredCeiling
<1>1. IInv => LoopFailureNeedsDeclaredCeiling
  BY DEF IInv
<1> QED
  BY <1>1, InvariantHolds, PTL

(* The last step and the steps schema nudges add are spent answering.        *)
THEOREM LastStepAnswers == Spec => CallsOnlyWithinSteps
<1> DEFINE Paid == pc # "calls" /\ pc' = "calls" =>
                     /\ step < cfg.max_steps
                     /\ step + 1 = cfg.max_steps => Missing(satisfied) # {}
<1>1. ASSUME IInv, [Next]_vars PROVE [Paid]_vars
  <2>1. SUFFICES ASSUME pc # "calls", pc' = "calls"
                 PROVE  /\ step < cfg.max_steps
                        /\ step + 1 = cfg.max_steps => Missing(satisfied) # {}
    OBVIOUS
  <2>2. CompleteWithCalls
    BY <1>1, <2>1 DEF Next, LoopStep, vars, OutOfSteps, Finish, StopCancelled, Return,
       RequestCompletion, RetryOverflow, Throw, NudgeContract, FailContract, Answer, FailEmpty,
       NudgeSchema, FailSchema, RefuseOverBudget, RefuseRepeat, DetectLoop, RefusePermission,
       CallTool, AnswerFromTool, Ran, Dispatchable, Accepted, Handling, Cancel
  <2>3. step \in Nat /\ step_limit \in Nat /\ cfg.max_steps \in Nat
    BY <1>1, ConfigFacts DEF IInv, TypeOK
  <2> QED
    BY <1>1, <2>2, <2>3, CallsPaidFor DEF IInv, Control
<1> QED
  BY <1>1, InvariantHolds, PTL DEF Spec, CallsOnlyWithinSteps
=============================================================================
