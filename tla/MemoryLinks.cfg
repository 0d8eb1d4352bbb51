SPECIFICATION FairSpec
CONSTANTS
  MaxId = 3
  Users = {"ana", "bo"}
  Agents = {"funes", "editor"}
  Texts = {"tea", "mate", "yerba"}
  Inputs <- MCInputs
  Similarity <- MCSimilarity
  MinSimilarity = 6
  MaxSimilarity = 9
  Neighbours = 2
  MaxAnchors = 2
  Containing <- MCContaining
  SharesTerm <- MCSharesTerm
  Taught = {"yerba"}
  Recalls <- MCRecalls
  Anyone = Anyone
  NoRow = NoRow
  NoUser = NoUser
  MaxRemembered = 3
  MaxFaults = 1
  MaxRestarts = 1
CHECK_DEADLOCK FALSE
INVARIANTS
  LinksJoinOneAccount
  NoQuestionTwice
  RecallKeepsSpine

  
