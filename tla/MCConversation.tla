---------------------------- MODULE MCConversation ----------------------------
(* Conversation in six workloads: what happens together, in which sessions.  *)
EXTENDS Conversation

MCMayUse == [u \in Users |-> IF u = "u1" THEN {"funes", "editor", "doctor"}
                              ELSE {"funes", "doctor"}]
Work(ops, slots, keys, asked, n) ==
  [ops |-> ops, slots |-> slots, keys |-> keys, asked |-> asked, runs |-> n]
Mine == {<<"u1", "web">>}
Both == {<<"u1", "web">>, <<"u2", "web">>}
(* One request at a time, a crash now and then.                              *)
Alone      == Work({"chat", "fold", "compress", "crash"}, {"s1"}, Mine, {"editor"}, 4)
Folding    == Work({"chat", "fold", "compress", "crash"}, Slots, Mine, {"editor"}, 3)
Erasing    == Work({"chat", "fold", "erase"}, Slots, Mine, {"editor"}, 3)
Delegating == Work({"chat", "delegate", "compress", "reload", "hangup"}, {"s1"}, Both, {"funes"}, 3)
Storing    == Work({"chat", "results", "erase", "crash"}, Slots, Both, {"funes"}, 2)
Cleaning   == Work({"chat", "cron_cleanup"}, Slots,
                   {<<"u1", "cron-1">>, <<"u2", "cron-1">>, <<"u1", "web">>}, {"funes"}, 2)
MCAlone == {Alone}
MCWorkloads == {Alone, Folding, Erasing, Delegating, Storing, Cleaning}
=============================================================================
