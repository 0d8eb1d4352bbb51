----------------------------- MODULE MCAgentLoop -----------------------------
(* AgentLoop on a small toolbox: a tool called with two arguments, a tool    *)
(* with a side effect, and run_script with one script.                       *)
EXTENDS AgentLoop

MCTools == {"search", "publish", "run_script"}
MCScriptKeys == {"run_script:a"}
MCCalls == {"search1", "search2", "publish1", "script_a"}
MCToolOf == [c \in MCCalls |->
  CASE c \in {"search1", "search2"} -> "search"
    [] c = "publish1" -> "publish"
    [] OTHER -> "run_script"]
MCScriptKeyOf == [c \in MCCalls |-> IF c = "script_a" THEN "run_script:a" ELSE NoKey]

Unlimited == [k \in MCTools \cup MCScriptKeys |-> -1]
Plain == [max_steps |-> 3, require_tools |-> <<>>, tool_limits |-> Unlimited,
          answer_from_tool |-> NoKey, has_schema |-> FALSE, tool_choice |-> "auto", denied |-> {},
          recovers_prose |-> TRUE]

(* An issue writer: must publish, may search as often as it likes.           *)
Publisher == [Plain EXCEPT !.require_tools = <<"publish">>,
                           !.tool_limits = [Unlimited EXCEPT !["search"] = 9]]
(* The publication's own result is the answer, in the declared shape.        *)
Relay == [Plain EXCEPT !.require_tools = <<"publish">>, !.answer_from_tool = "publish",
                       !.has_schema = TRUE, !.max_steps = 2]
(* A panelist: text in a schema, no contract; Anthropic-style native calls.  *)
Panelist == [Plain EXCEPT !.has_schema = TRUE, !.recovers_prose = FALSE, !.max_steps = 2]
(* A researcher: free text, and a search ceiling above the default or none.  *)
Researcher == [Plain EXCEPT !.tool_limits = [Unlimited EXCEPT !["search"] = 9],
                            !.denied = {"publish"}]
Uncapped == [Researcher EXCEPT !.tool_limits = Unlimited]
(* A script runner: one run of the script, its success required; the caller   *)
(* may not publish.                                                          *)
Runner == [Plain EXCEPT !.require_tools = <<"run_script:a">>,
                        !.tool_limits = [Unlimited EXCEPT !["run_script:a"] = 1,
                                                          !["search"] = 1],
                        !.tool_choice = "required", !.denied = {"publish"}]
(* More steps than nudges, so a model that never calls spends the budget.    *)
Stubborn == [Plain EXCEPT !.require_tools = <<"publish">>, !.max_steps = 5,
                          !.denied = {"search", "run_script"}, !.recovers_prose = FALSE]

MCConfigs == {Publisher, Relay, Panelist, Researcher, Uncapped, Runner, Stubborn}
=============================================================================
