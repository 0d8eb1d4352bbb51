---------------------------- MODULE MCLLMClient ----------------------------
(* LLMClient with up to two calls in a reply and two tool results in a run.  *)
EXTENDS LLMClient, TLC

CONSTANTS c1, c2, c3, search, fetch, t1, t2, json_call, xml_call, a1, a2, b1, img1, img2

Msg(role, id, calls, images, size, args) ==
  [role |-> role, id |-> id, calls |-> calls, images |-> images, size |-> size, args |-> args]
System == Msg("system", None, <<>>, <<>>, 5, <<>>)
Fresh == <<System, Msg("user", None, <<>>, <<img1>>, 5, <<>>)>>
AfterCalls ==
  Fresh \o <<Msg("assistant", None, <<c2, c1>>, <<>>, 4, <<4, 1>>),
             Msg("tool", c2, <<>>, <<img1>>, 6, <<>>),
             Msg("tool", c1, <<>>, <<img2>>, 6, <<>>)>>
AfterTwoSteps ==
  AfterCalls \o <<Msg("assistant", None, <<c3>>, <<>>, 4, <<4>>),
                  Msg("tool", c3, <<>>, <<>>, 6, <<>>),
                  Msg("user", None, <<>>, <<>>, 1, <<>>)>>
MCNameOf == (c1 :> search) @@ (c2 :> fetch) @@ (c3 :> search)
(* From all that AfterTwoSteps holds down to less than it can be cut to.     *)
MCBudgets == {60, 50, 46, 44, 40, 37, 34}

Chat(provider, qwen, stream, choice, history, budget) ==
  [kind |-> "chat", provider |-> provider, qwen |-> qwen, stream |-> stream,
   choice |-> choice, tools |-> TRUE, history |-> history, budget |-> budget]
Other(kind) == [Chat("openai", FALSE, FALSE, "auto", <<>>, 0) EXCEPT !.kind = kind, !.tools = FALSE]
MCJobs ==
  {Chat(p[1], p[2], stream, choice, h[1], h[2]) :
     p \in {<<"openai", FALSE>>, <<"openai", TRUE>>, <<"anthropic", FALSE>>},
     stream \in BOOLEAN, choice \in {"auto", "none"},
     h \in {<<Fresh, 60>>, <<AfterCalls, 20>>}}
  \cup {Chat(p[1], p[2], FALSE, "auto", AfterTwoSteps, budget) :
     p \in {<<"openai", FALSE>>, <<"openai", TRUE>>, <<"anthropic", FALSE>>},
     budget \in MCBudgets}
  \cup {Other("embed"), Other("models")}

Call(id, name, args) == [id |-> id, name |-> name, args |-> args]
MCReplies ==
  {[text |-> <<t1, t2>>, calls |-> <<>>],
   [text |-> <<json_call>>, calls |-> <<>>],
   [text |-> <<xml_call>>, calls |-> <<>>],
   [text |-> <<t1>>, calls |-> <<Call(c1, search, <<a1, a2>>), Call(c2, fetch, <<b1>>)>>],
   [text |-> <<>>, calls |-> <<Call(c1, search, <<a1, a2>>), Call(None, search, <<a2, b1>>)>>],
   [text |-> <<>>, calls |-> <<Call(c2, fetch, <<>>)>>]}
MCJsonTexts == {<<a1, a2>>, <<b1>>}
MCProse ==
  [s \in {<<json_call>>, <<xml_call>>} |->
    [form  |-> IF s = <<json_call>> THEN "json" ELSE "xml",
     calls |-> <<Call(None, search, <<b1>>), Call(IF s = <<json_call>> THEN c3 ELSE None, fetch, <<>>)>>]]
=============================================================================
