---------------------------- MODULE IssuePromise ----------------------------
(***************************************************************************)
(* What the publishing pipeline promises about a public profile, whatever  *)
(* agents, scripts and crashes do: nothing of an issue is posted before    *)
(* every subscriber has had that issue's mail, and a slot is never posted  *)
(* again once its post is on record (the header of                         *)
(* publishing/post_tweet.py).  Issues implements it.                       *)
(***************************************************************************)
EXTENDS Naturals

CONSTANTS Keys,   (* issues: a publication and a day                       *)
          Slots   (* positions of an issue                                 *)

VARIABLES mailed,   (* issues every subscriber has had                     *)
          public,   (* how often each slot of each issue was posted        *)
          recorded  (* slots whose post is on record                       *)

promised == <<mailed, public, recorded>>

Init == /\ mailed = {}
        /\ public = [k \in Keys |-> [s \in Slots |-> 0]]
        /\ recorded = {}

Mail(k) == /\ mailed' = mailed \cup {k}
           /\ UNCHANGED <<public, recorded>>

Post(k, s) ==
  /\ k \in mailed
  /\ <<k, s>> \notin recorded
  /\ public' = [public EXCEPT ![k][s] = @ + 1]
  /\ UNCHANGED <<mailed, recorded>>

Record(k, s) ==
  /\ public[k][s] > 0
  /\ recorded' = recorded \cup {<<k, s>>}
  /\ UNCHANGED <<mailed, public>>

Next == \E k \in Keys :
          \/ Mail(k)
          \/ \E s \in Slots : Post(k, s) \/ Record(k, s)

Spec == Init /\ [][Next]_promised
=============================================================================
