---------------------------- MODULE ContextBudget ----------------------------
(***************************************************************************)
(* How a run keeps its history inside the model's window: trim_to_fit of   *)
(* src/core/context_budget.cpp, which run_loop calls before every          *)
(* completion.  Sizes are in tokens; of a text only its size is kept.       *)
(***************************************************************************)
EXTENDS Integers, Sequences, FiniteSets, SequencesExt

CONSTANTS
  NameOf,          (* call id to the tool's name                           *)
  ImageTokens,     (* what an image is estimated at                        *)
  KeepHead,        (* size of a shortened text                             *)
  MinShrinkable    (* size from which there is something to take           *)

ASSUME BudgetAssumption ==
  /\ {ImageTokens, KeepHead, MinShrinkable} \subseteq Nat
  /\ KeepHead < MinShrinkable

Total(sizes) == FoldLeft(LAMBDA sum, n : sum + n, 0, sizes)
Cost(msg) == msg.size + Total(msg.args) + ImageTokens * Len(msg.images)
Estimate(h) == Total([i \in DOMAIN h |-> Cost(h[i])])

(* The latest assistant message and what follows it are the step in         *)
(* progress.                                                               *)
ProtectedTail(h) ==
  LET said == {i \in DOMAIN h : h[i].role = "assistant"}
  IN CHOOSE t \in said \cup {Len(h) + 1} :
       IF said = {} THEN TRUE ELSE t \in said /\ \A i \in said : i <= t

NewestOfNone(h) == {}
(* The newest result and the newest call of each tool.                      *)
NewestPerTool(h) ==
  LET results(n) == {i \in DOMAIN h : h[i].role = "tool" /\ NameOf[h[i].id] = n}
      calls(n) == {i \in DOMAIN h : \E c \in ToSet(h[i].calls) : NameOf[c] = n}
      newest(S) == {i \in S : \A k \in S : k <= i}
      names == {NameOf[c] : c \in DOMAIN NameOf}
  IN UNION {newest(results(n)) \cup newest(calls(n)) : n \in names}

Passes == <<"images", "results", "calls", "newest results", "newest calls", "texts">>

(* One change of message i in a pass; no change where there is nothing to   *)
(* take.                                                                   *)
CutImages(h, i) ==
  IF h[i].role \in {"system", "user"} THEN h ELSE [h EXCEPT ![i].images = <<>>]
CutText(h, i, role) ==
  IF h[i].role # role \/ h[i].size < MinShrinkable THEN h
  ELSE [h EXCEPT ![i].size = KeepHead]
CutCalls(h, i) ==
  LET args == h[i].args
  IN [h EXCEPT ![i].args = [k \in DOMAIN args |-> IF args[k] < MinShrinkable THEN args[k]
                                                  ELSE KeepHead]]

Cut(h, pass, i) ==
  LET newest == i \in NewestPerTool(h)
  IN CASE pass = "images" -> CutImages(h, i)
       [] pass = "results" -> IF newest THEN h ELSE CutText(h, i, "tool")
       [] pass = "calls" -> IF newest THEN h ELSE CutCalls(h, i)
       [] pass = "newest results" -> CutText(h, i, "tool")
       [] pass = "newest calls" -> CutCalls(h, i)
       [] pass = "texts" -> CutText(h, i, "assistant")

(* trim_to_fit: pass after pass, the oldest message first, until it fits.    *)
TrimToFit(h, budget) ==
  LET old == ProtectedTail(h) - 1
      cuts == [p \in 1..(Len(Passes) * old) |->
                 <<Passes[1 + (p - 1) \div old], 1 + ((p - 1) % old)>>]
  IN FoldLeft(LAMBDA g, c : IF Estimate(g) <= budget THEN g ELSE Cut(g, c[1], c[2]),
              h, cuts)
=============================================================================
