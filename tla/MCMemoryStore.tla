---------------------------- MODULE MCMemoryStore ----------------------------
(* MemoryStore with a wording for each fact and one for every set of them; an *)
(* embedding of any is near the others'.  No account and no fact is special.  *)
EXTENDS MemoryStore, TLC

MCTexts == SUBSET Facts \ {{}}
MCFactsOf == [t \in MCTexts |-> t]
MCAlike == [t \in MCTexts |-> MCTexts]
MCSymmetry == Permutations(Users) \cup Permutations(Facts)
=============================================================================
