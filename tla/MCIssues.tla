------------------------------ MODULE MCIssues ------------------------------
(* Issues with two publications in one workspace.                           *)
EXTENDS Issues

MCPage ==
  [bill    |-> [key |-> "bill", site |-> "a", title |-> {1, 2}, day |-> 1,
                sentences |-> {{"law", "vote"}}],
   bill_am |-> [key |-> "bill", site |-> "a", title |-> {1, 2}, day |-> 1,
                sentences |-> {{"law", "vote"}}],
   vote    |-> [key |-> "vote", site |-> "b", title |-> {1, 3}, day |-> 1,
                sentences |-> {{"law", "vote"}, {"tax"}}],
   chip    |-> [key |-> "chip", site |-> "b", title |-> {4, 5}, day |-> 0,
                sentences |-> {{"chip", "fab"}}],
   stub    |-> [key |-> "stub", site |-> "c", title |-> {6}, day |-> 0, sentences |-> {}]]
MCDraft ==
  [law   |-> [words |-> {"law", "vote"}, length |-> "short"],
   chips |-> [words |-> {"chip", "fab"}, length |-> "short"],
   essay |-> [words |-> {"chip", "fab", "law"}, length |-> "long", shorter |-> "chips"],
   paste |-> [words |-> {"law", "vote"}, length |-> "far"],
   gossip |-> [words |-> {"star"}, length |-> "short"]]
MCSearches ==
  [en |-> {<<"bill", "bill_am", "vote", "stub", "chip">>},
   es |-> {<<"vote", "chip">>}]
Pick(id, text) == [id |-> id, text |-> text, emoji |-> TRUE]
Call(p, day, mode, items) == [publication |-> p, date |-> day, mode |-> mode, items |-> items]
MCMinItems == [en |-> 2, es |-> 1]
MCCalls ==
  {Call("en", 0, "send", <<Pick(1, "law"), Pick(3, "chips")>>),
   Call(None, 0, "send", <<Pick(1, "law"), Pick(1, "chips")>>),
   Call("en", 0, "send", <<Pick(2, "law"), Pick(3, "essay")>>),
   Call("en", 1, "dry", <<Pick(3, "law"), Pick(2, "chips"), Pick(1, "gossip")>>),
   Call(None, 0, "render", <<Pick(1, "paste")>>),
   Call(None, 0, "send", <<Pick(2, "chips")>>)}
=============================================================================
