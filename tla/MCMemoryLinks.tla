---------------------------- MODULE MCMemoryLinks ----------------------------
(* MemoryLinks with three texts in a chain: tea is like mate, mate is like    *)
(* yerba, tea is not like yerba but shares a word with it, and yerba, which   *)
(* was taught, contains the word tea.  One account has two agents.           *)
EXTENDS MemoryLinks

By(u, a, t) == [user |-> u, agent |-> a, text |-> t]
MCInputs == {By("ana", "funes", t) : t \in Texts}
              \cup {By("ana", "editor", "tea"), By("bo", "funes", "mate")}
MCSimilarity ==
  LET s(t, r) == IF t = r THEN 10
                 ELSE IF {t, r} = {"tea", "mate"} THEN 8
                 ELSE IF {t, r} = {"mate", "yerba"} THEN 7 ELSE 2
  IN [t \in Texts |-> [r \in Texts |-> s(t, r)]]
MCContaining == [t \in Texts |-> IF t = "tea" THEN {"tea", "yerba"} ELSE {t}]
MCSharesTerm == [t \in Texts |-> IF t = "mate" THEN {"mate"} ELSE {"tea", "yerba"}]
For(u, a, q, k) == [user |-> u, agent |-> a, query |-> q, k |-> k]
MCRecalls == {For("ana", Anyone, "tea", 2), For("ana", "funes", "yerba", 3),
              For("bo", Anyone, "mate", 2)}

(* What SpineHolds asks of the cosines holds of these.                        *)
ASSUME Cosines == CosinesPositive
==============================================================================
