------------------------------ MODULE MCAccounts ------------------------------
(* Accounts with two clients in six casts: who may do what at the same time.  *)
EXTENDS Accounts, TLC

MCClients == {"c1", "c2"}
Cast(a, b, w) == [c \in MCClients \cup {"world"} |->
  CASE c = "c1" -> a [] c = "c2" -> b [] OTHER -> w]
C1 == Cast({"bootstrap"}, {"bootstrap", "browse"}, {"restart"})
C2 == Cast({"login"}, {"useradd", "userdel"}, {})
C3 == Cast({"bootstrap", "login"}, {"login"}, {"tick"})
C4 == Cast({"useradd", "userdel"}, {"useradd", "userdel"}, {})
C5 == Cast({"useradd", "jid_map", "jid_unmap", "whatsapp"}, {"useradd", "userdel"}, {})
C6 == Cast({"bootstrap", "login", "browse"}, {"passwd", "locale"}, {})
MCCasts == {C1, C2, C3, C4, C5, C6}

PasswordsAlike == Permutations(Passwords)

MCNames == {"ana", "ben"}
MCAddresses == {"home", "office"}
MCAddressOf == [c \in MCClients |-> IF c = "c1" THEN "home" ELSE "office"]
MCKeyRank == [k \in MCNames \cup MCAddresses |->
  CASE k = "home" -> 1 [] k = "office" -> 2 [] k = "ana" -> 3 [] OTHER -> 4]

(* What UsernameWallHolds asks of the throttle holds of this one.             *)
ASSUME Wall == WallStandsOn
=============================================================================
