----------------------------- MODULE MCWorkspace -----------------------------
(* Workspace with the administrator and one member on two request threads.    *)
EXTENDS Workspace, TLC

Path(names) == [abs |-> FALSE, names |-> names]
MCLegacy == <<<<"a">>, <<"d", "a">>>>
MCGiven ==
  {Path(<<"a">>), Path(<<"d">>), Path(<<"d", "a">>), Path(<<"d", "..", "a">>),
   Path(<<"..", "2", "a">>), [abs |-> TRUE, names |-> <<"1", "d">>]}
MCBatches == {[folder |-> "d", names |-> <<"a", "b">>], [folder |-> "a", names |-> <<"b">>]}
Work(ops, legacy, starts, at_once, fail) ==
  [ops |-> ops, legacy |-> legacy, restarts |-> starts, at_once |-> at_once,
   moves_may_fail |-> fail]
Moving   == Work({"write", "read"}, {1, 2}, 1, 1, FALSE)
Stuck    == Work({"write", "read"}, {1, 2}, 0, 1, TRUE)
Racing   == Work({"write", "read"}, {2}, 0, 2, FALSE)
Loading  == Work({"upload", "batch", "read"}, {}, 0, 2, FALSE)
Clearing == Work({"write", "batch", "delete"}, {2}, 0, 2, FALSE)
MCWorkloads == {Moving, Stuck, Racing, Loading, Clearing}

(* What the theorems of Workspace ask of the migration holds of these.        *)
ASSUME Migration == Workloads = MCWorkloads => MovesOnce

(* Some moves fail, and the server starts once more.                          *)
Retrying == {Work({"write", "read"}, {1, 2}, 1, 1, TRUE)}
SlotsAlike == Permutations(Slots)
=============================================================================
