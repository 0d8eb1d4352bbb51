------------------------------- MODULE Accounts -------------------------------
(***************************************************************************)
(* Accounts and the credentials that stand for them: UserStore of          *)
(* src/core/users.cpp, the sign-in routes and the login throttle of        *)
(* src/server/api.cpp, and the account commands of src/server/user_cli.cpp. *)
(*                                                                         *)
(* A client is a request thread or a `funes` command line process.  The    *)
(* store's mutex is held per statement, so what a client read is kept in    *)
(* its record and used by a later action: between them a password is       *)
(* hashed, an administrator types, or another client runs.                 *)
(*                                                                         *)
(* users.id is a rowid without AUTOINCREMENT: the id of a deleted account  *)
(* can be given to the next one.  `gen` numbers the accounts in the order  *)
(* of their creation and never comes back; it is history.                  *)
(***************************************************************************)
EXTENDS Integers, FiniteSets

CONSTANTS
  Names, Passwords, Addresses, Jids, Locales,
  Clients,
  AddressOf,     (* req.remote_addr: where each client calls from          *)
  World,         (* the clock and whatever kills the server                *)
  Casts,         (* who may do what, [Clients \cup {World} -> SUBSET Tasks] *)
  None,
  KeyRank,       (* the order of std::map over throttle keys: addr: before user: *)
  FreeFailures,  (* kFreeFailures                                          *)
  MaxDelay,      (* kMaxDelaySecs                                          *)
  MaxKeys,       (* bound of the throttle's table: 10000                   *)
  TokenLife,     (* SESSION_TTL_DAYS, in ticks                             *)
  (* bounds *)
  MaxId, MaxBirths, MaxTokens, MaxClock, MaxRestarts

Ids == 1..MaxId
Keys == Addresses \cup Names
Tasks == {"bootstrap", "login", "browse", "useradd", "userdel", "passwd", "locale",
          "jid_map", "jid_unmap", "whatsapp", "tick", "restart"}

ASSUME AccountsAssumption ==
  /\ Addresses \cap Names = {}
  /\ KeyRank \in [Keys -> Nat]
  /\ \A j, k \in Keys : KeyRank[j] = KeyRank[k] => j = k
  /\ \A a \in Addresses, n \in Names : KeyRank[a] < KeyRank[n]
  /\ World \notin Clients /\ Casts \subseteq [Clients \cup {World} -> SUBSET Tasks]
  /\ "en" \in Locales /\ AddressOf \in [Clients -> Addresses]
  /\ FreeFailures \in Nat \ {0} /\ MaxDelay \in Nat \ {0} /\ MaxKeys \in Nat \ {0}
  /\ TokenLife \in Nat \ {0}
  /\ {MaxId, MaxBirths, MaxTokens, MaxClock, MaxRestarts} \subseteq Nat

VARIABLES
  users,      (* the users table, by id                                    *)
  tokens,     (* auth_tokens, by the order of issue                        *)
  jids,       (* jid_users                                                 *)
  by_key,     (* LoginThrottle::by_key; failures = 0 for a key not in it   *)
  client,     (* what each client has read and is about to do              *)
  clock,
  restarts,
  (* history *)
  does,       (* the cast of this behaviour                                *)
  births,     (* accounts created so far                                   *)
  issued,     (* tokens created so far                                     *)
  guesses,    (* refused passwords per username since it last signed in    *)
  misshown    (* a status reply named another language than the account's  *)

store == <<users, tokens, jids>>
vars == <<store, by_key, client, clock, restarts, does, births, issued, guesses, misshown>>

Account == [name : Names, pass : Passwords, admin : BOOLEAN, locale : Locales,
            gen : 1..MaxBirths]
Raced == 0   (* the credential of a client in whose flight an account was deleted *)
Credential == [id : Ids, expires : Nat, of : 0..MaxBirths]
(* "No row" is told from every row.                                         *)
ASSUME NoneAssumption == None \notin Account /\ None \notin Credential

Stages == {"idle", "boot", "guess", "proved", "refuse", "session", "authed", "add",
           "del", "delete", "passwd", "map"}

Idle == [at |-> "idle", name |-> None, pass |-> None, id |-> 0,
         admin |-> FALSE, of |-> Raced, raced |-> FALSE]
NoEntry == [failures |-> 0, locked_until |-> 0]

Lesser(a, b) == IF a < b THEN a ELSE b

Live == {i \in Ids : users[i] # None}
Named(n) == {i \in Live : users[i].name = n}
NewId == CHOOSE i \in 1..(MaxId + 1) :
           /\ \A j \in Live : j < i
           /\ i = 1 \/ i - 1 \in Live
AdminExists == \E i \in Live : users[i].admin

Init ==
  /\ does \in Casts
  /\ users = [i \in Ids |-> None]
  /\ tokens = [t \in 1..MaxTokens |-> None]
  /\ jids = [j \in Jids |-> None]
  /\ by_key = [k \in Keys |-> NoEntry]
  /\ client = [c \in Clients |-> Idle]
  /\ clock = 0 /\ restarts = 0 /\ births = 0 /\ issued = 0
  /\ guesses = [n \in Names |-> 0]
  /\ misshown = FALSE

Starts(c, task) == client[c] = Idle /\ task \in does[c]
Becomes(c, r) == client' = [client EXCEPT ![c] = r]
Finishes(c) == Becomes(c, Idle)
Quiet == UNCHANGED <<by_key, clock, restarts, does, guesses>>

(***************************************************************************)
(* Creating an account                                                     *)
(***************************************************************************)
(* The id create_user returns: 0 when the name is taken.                   *)
(* InsertedIdUpsert: an insert that hands back the row already there.      *)
InsertedIdUpsert(n) == IF Named(n) # {} THEN CHOOSE i \in Named(n) : TRUE ELSE NewId
InsertedId(n) == IF Named(n) # {} THEN 0 ELSE NewId

(* INSERT OR IGNORE.                                                        *)
Insert(n, p, admin) ==
  IF Named(n) # {} THEN UNCHANGED <<users, births>>
  ELSE /\ births < MaxBirths /\ NewId \in Ids
       /\ births' = births + 1
       /\ users' = [users EXCEPT ![NewId] = [name |-> n, pass |-> p, admin |-> admin,
                                             locale |-> "en", gen |-> births + 1]]

(* POST /api/auth/bootstrap: users_.count() is 0 ...                       *)
BootstrapCheck(c) ==
  /\ Starts(c, "bootstrap")
  /\ Live = {}
  /\ \E n \in Names, p \in Passwords :
       Becomes(c, [Idle EXCEPT !.at = "boot", !.name = n, !.pass = p])
  /\ UNCHANGED <<store, births, issued, misshown>> /\ Quiet

(* ... and create_user comes later, after a body is parsed and a password  *)
(* hashed.                                                                 *)
BootstrapCreate(c) ==
  /\ client[c].at = "boot"
  /\ LET n == client[c].name IN
       /\ Insert(n, client[c].pass, TRUE)
       /\ IF InsertedId(n) = 0 THEN Finishes(c)
          ELSE Becomes(c, [client[c] EXCEPT !.at = "session", !.id = InsertedId(n),
                                            !.of = births + 1])
  /\ UNCHANGED <<tokens, jids, issued, misshown>> /\ Quiet

(* create_token, for a bootstrap and for a login.  The foreign key refuses *)
(* an id that is gone.                                                     *)
StartSession(c) ==
  /\ client[c].at = "session"
  /\ IF client[c].id \in Live
     THEN /\ issued < MaxTokens
          /\ issued' = issued + 1
          /\ tokens' = [tokens EXCEPT ![issued + 1] =
               [id |-> client[c].id, expires |-> clock + TokenLife,
                of |-> IF client[c].raced THEN Raced ELSE client[c].of]]
     ELSE UNCHANGED <<issued, tokens>>
  /\ Finishes(c)
  /\ UNCHANGED <<users, jids, births, misshown>> /\ Quiet

(***************************************************************************)
(* Signing in                                                              *)
(***************************************************************************)
Blocked(k) == by_key[k].locked_until > clock
Delay(failures) == Lesser(MaxDelay, 2 ^ Lesser(failures - FreeFailures, 8))

Present(table) == {k \in Keys : table[k].failures > 0}
(* by_key.size() > 10000: by_key.erase(by_key.begin()).                     *)
Bounded(table) ==
  IF Cardinality(Present(table)) <= MaxKeys THEN table
  ELSE LET first == CHOOSE k \in Present(table) :
                      \A j \in Present(table) : KeyRank[k] <= KeyRank[j]
       IN [table EXCEPT ![first] = NoEntry]

Failed(table, k) ==
  LET f == table[k].failures + 1 IN
  Bounded([table EXCEPT ![k] =
    [failures |-> f,
     locked_until |-> IF f >= FreeFailures THEN clock + Delay(f) ELSE @.locked_until]])

(* The two failed() calls.  FailedBothAddress: the account's key forgotten.  *)
FailedBothAddress(addr, n) == Failed(by_key, addr)
FailedBoth(addr, n) == Failed(Failed(by_key, addr), n)

LoginCheck(c) ==
  /\ Starts(c, "login")
  /\ ~Blocked(AddressOf[c])
  /\ \E n \in Names, p \in Passwords :
       /\ ~Blocked(n)
       /\ Becomes(c, [Idle EXCEPT !.at = "guess", !.name = n, !.pass = p])
  /\ UNCHANGED <<store, births, issued, misshown>> /\ Quiet

(* verify_login reads the stored hash and compares without the lock.       *)
Verify(c) ==
  /\ client[c].at = "guess"
  /\ LET right == {i \in Named(client[c].name) : users[i].pass = client[c].pass} IN
       IF right = {} THEN Becomes(c, [client[c] EXCEPT !.at = "refuse"])
       ELSE \E i \in right :
              Becomes(c, [client[c] EXCEPT !.at = "proved", !.of = users[i].gen])
  /\ UNCHANGED <<store, births, issued, misshown>> /\ Quiet

(* It then reads the row again, by name: an account deleted meanwhile is a  *)
(* failed login.                                                           *)
LoginFails(c) ==
  /\ \/ client[c].at = "refuse"
     \/ client[c].at = "proved" /\ Named(client[c].name) = {}
  /\ by_key' = FailedBoth(AddressOf[c], client[c].name)
  /\ guesses' = [guesses EXCEPT ![client[c].name] = @ + 1]
  /\ Finishes(c)
  /\ UNCHANGED <<store, clock, restarts, does, births, issued, misshown>>

LoginSucceeds(c) ==
  /\ client[c].at = "proved"
  /\ \E i \in Named(client[c].name) :
       Becomes(c, [client[c] EXCEPT !.at = "session", !.id = i])
  /\ by_key' = [by_key EXCEPT ![AddressOf[c]] = NoEntry, ![client[c].name] = NoEntry]
  /\ guesses' = [guesses EXCEPT ![client[c].name] = 0]
  /\ UNCHANGED <<store, clock, restarts, does, births, issued, misshown>>

(***************************************************************************)
(* Requests of a signed-in browser and of the WhatsApp autoresponder       *)
(***************************************************************************)
(* resolve_token: the expiry and the join are in the query.                *)
Resolves(t) == tokens[t] # None /\ tokens[t].expires > clock /\ tokens[t].id \in Live
(* What the query of resolve_token brings back for the language: its list  *)
(* of columns has no locale, and read_user takes a missing one for "en".   *)
SessionLocale(i) == "en"

Authenticate(c) ==
  /\ Starts(c, "browse")
  /\ \E t \in 1..MaxTokens :
       Resolves(t) /\ Becomes(c, [Idle EXCEPT !.at = "authed", !.id = tokens[t].id])
  /\ UNCHANGED <<store, births, issued, misshown>> /\ Quiet

AuthenticateJid(c) ==
  /\ Starts(c, "whatsapp")
  /\ \E j \in Jids :
       /\ jids[j] # None /\ jids[j].id \in Live
       /\ Becomes(c, [Idle EXCEPT !.at = "authed", !.id = jids[j].id])
  /\ UNCHANGED <<store, births, issued, misshown>> /\ Quiet

(* PUT /api/me/locale, funes locale, useradd --locale: by id, some time     *)
(* after the account was looked up.                                        *)
SetLocale(c) ==
  /\ client[c].at = "authed"
  /\ \E l \in Locales :
       users' = IF client[c].id \in Live
                THEN [users EXCEPT ![client[c].id].locale = l] ELSE users
  /\ Finishes(c)
  /\ UNCHANGED <<tokens, jids, births, issued, misshown>> /\ Quiet

Status(c) ==
  /\ Starts(c, "browse")
  /\ \E t \in 1..MaxTokens :
       /\ Resolves(t)
       /\ misshown' = (misshown \/ SessionLocale(tokens[t].id) # users[tokens[t].id].locale)
  /\ UNCHANGED <<store, client, births, issued>> /\ Quiet

Logout(c) ==
  /\ Starts(c, "browse")
  /\ \E t \in 1..MaxTokens : Resolves(t) /\ tokens' = [tokens EXCEPT ![t] = None]
  /\ UNCHANGED <<users, jids, client, births, issued, misshown>> /\ Quiet

(***************************************************************************)
(* The account commands                                                    *)
(***************************************************************************)
Looks(c, task, i, at) ==
  /\ Starts(c, task)
  /\ Becomes(c, [Idle EXCEPT !.at = at, !.id = i, !.admin = users[i].admin,
                             !.of = users[i].gen])
  /\ UNCHANGED <<store, births, issued, misshown>> /\ Quiet

(* find_by_username, and then the command goes on with the id it found.     *)
FindUser(c) ==
  \E n \in Names : \E i \in Named(n) :
    \/ Looks(c, "userdel", i, "del")
    \/ Looks(c, "passwd", i, "passwd")
    \/ Looks(c, "locale", i, "authed")
    \/ Looks(c, "jid_map", i, "map")

UserAdd(c) ==
  /\ Starts(c, "useradd")
  /\ \E n \in Names, p \in Passwords, admin \in BOOLEAN :
       /\ Named(n) = {}
       /\ Becomes(c, [Idle EXCEPT !.at = "add", !.name = n, !.pass = p, !.admin = admin])
  /\ UNCHANGED <<store, births, issued, misshown>> /\ Quiet

UserAddCreate(c) ==
  /\ client[c].at = "add"
  /\ Insert(client[c].name, client[c].pass, client[c].admin)
  /\ LET id == InsertedId(client[c].name) IN
       \/ Finishes(c)
       \/ id # 0 /\ Becomes(c, [Idle EXCEPT !.at = "authed", !.id = id])
  /\ UNCHANGED <<tokens, jids, issued, misshown>> /\ Quiet

(* cmd_userdel counts the administrators first.  MayDeleteAny: it does not. *)
MayDeleteAny(c) == TRUE
MayDelete(c) == client[c].admin => Cardinality({i \in Live : users[i].admin}) > 1

UserDelCheck(c) ==
  /\ client[c].at = "del"
  /\ IF MayDelete(c) THEN Becomes(c, [client[c] EXCEPT !.at = "delete"]) ELSE Finishes(c)
  /\ UNCHANGED <<store, births, issued, misshown>> /\ Quiet

(* What ON DELETE CASCADE takes along.  OwnedNothing: foreign_keys is off.  *)
OwnedNothing(table, id) == table
Owned(table, id) ==
  [k \in DOMAIN table |-> IF table[k] # None /\ table[k].id = id THEN None ELSE table[k]]

(* Everybody else's flight saw a deletion.                                 *)
DeleteUser(c) ==
  /\ client[c].at = "delete"
  /\ users' = [users EXCEPT ![client[c].id] = None]
  /\ tokens' = Owned(tokens, client[c].id)
  /\ jids' = Owned(jids, client[c].id)
  /\ client' = [d \in Clients |->
       IF d = c \/ client[d] = Idle THEN Idle ELSE [client[d] EXCEPT !.raced = TRUE]]
  /\ UNCHANGED <<births, issued, misshown>> /\ Quiet

SetPassword(c) ==
  /\ client[c].at = "passwd"
  /\ \E p \in Passwords :
       users' = IF client[c].id \in Live
                THEN [users EXCEPT ![client[c].id].pass = p] ELSE users
  /\ Finishes(c)
  /\ UNCHANGED <<tokens, jids, births, issued, misshown>> /\ Quiet

(* INSERT OR REPLACE; the foreign key refuses an id that is gone.           *)
MapJid(c) ==
  /\ client[c].at = "map"
  /\ \E j \in Jids :
       jids' = IF client[c].id \in Live
               THEN [jids EXCEPT ![j] =
                      [id |-> client[c].id, expires |-> 0,
                       of |-> IF client[c].raced THEN Raced ELSE client[c].of]]
               ELSE jids
  /\ Finishes(c)
  /\ UNCHANGED <<users, tokens, births, issued, misshown>> /\ Quiet

UnmapJid(c) ==
  /\ Starts(c, "jid_unmap")
  /\ \E j \in Jids : jids[j] # None /\ jids' = [jids EXCEPT ![j] = None]
  /\ UNCHANGED <<users, tokens, client, births, issued, misshown>> /\ Quiet

(***************************************************************************)
Tick ==
  /\ "tick" \in does[World]
  /\ clock < MaxClock
  /\ clock' = clock + 1
  /\ UNCHANGED <<store, by_key, client, restarts, does, births, issued, guesses, misshown>>

(* The server dies and starts again: "a restart forgets" the throttle.      *)
Restart ==
  /\ "restart" \in does[World]
  /\ restarts < MaxRestarts
  /\ restarts' = restarts + 1
  /\ client' = [c \in Clients |-> Idle]
  /\ by_key' = [k \in Keys |-> NoEntry]
  /\ guesses' = [n \in Names |-> 0]
  /\ UNCHANGED <<store, clock, does, births, issued, misshown>>

Next ==
  \/ \E c \in Clients :
       \/ BootstrapCheck(c) \/ BootstrapCreate(c) \/ StartSession(c)
       \/ LoginCheck(c) \/ Verify(c) \/ LoginFails(c) \/ LoginSucceeds(c)
       \/ Authenticate(c) \/ AuthenticateJid(c) \/ SetLocale(c) \/ Status(c) \/ Logout(c)
       \/ FindUser(c) \/ UserAdd(c) \/ UserAddCreate(c) \/ UserDelCheck(c) \/ DeleteUser(c)
       \/ SetPassword(c) \/ MapJid(c) \/ UnmapJid(c)
  \/ Tick \/ Restart

Spec == Init /\ [][Next]_vars

(***************************************************************************)
(* Properties                                                              *)
(***************************************************************************)
ClientRecord ==
  [at : Stages, name : Names \cup {None}, pass : Passwords \cup {None},
   id : {0} \cup Ids, admin : BOOLEAN,
   of : 0..MaxBirths + 1, raced : BOOLEAN]

(* The values of the tables; a username names one account, and no          *)
(* credential points at a row that is not there (the foreign keys).        *)
TypeOK ==
  /\ users \in [Ids -> Account \cup {None}]
  /\ tokens \in [1..MaxTokens -> Credential \cup {None}]
  /\ jids \in [Jids -> Credential \cup {None}]
  /\ by_key \in [Keys -> [failures : Nat, locked_until : Nat]]
  /\ client \in [Clients -> ClientRecord]
  /\ clock \in 0..MaxClock /\ restarts \in 0..MaxRestarts
  /\ births \in 0..MaxBirths /\ issued \in 0..MaxTokens
  /\ does \in Casts /\ guesses \in [Names -> Nat] /\ misshown \in BOOLEAN
  /\ \A i, j \in Live : users[i].name = users[j].name => i = j
  /\ \A t \in 1..MaxTokens : tokens[t] # None => tokens[t].id \in Live
  /\ \A j \in Jids : jids[j] # None => jids[j].id \in Live

(* The one place a password is checked (users.h) and the bootstrap hand out *)
(* sessions: a token, and a WhatsApp number, stand for the very account     *)
(* whose password was proved, that was created, or that was named in the    *)
(* command, and never for one that got its id or its name afterwards.       *)
(* Exempt is a client in whose flight some account was deleted.             *)
CredentialIsOwn(cred) == cred # None => cred.of \in {Raced, users[cred.id].gen}
CredentialsAreOwn ==
  /\ \A t \in 1..MaxTokens : CredentialIsOwn(tokens[t])
  /\ \A j \in Jids : CredentialIsOwn(jids[j])

(* The username half of the throttle: from however many addresses an account *)
(* is guessed at, and whoever else signs in meanwhile, beyond the free       *)
(* failures and those already in flight each guess costs at least a tick.    *)
UsernameWall ==
  \A n \in Names : guesses[n] <= FreeFailures + Cardinality(Clients) - 1 + clock

(* What the wall stands on.  The longest delay outlasts a burst of as many   *)
(* guesses as the server has threads, or one round after the other comes for *)
(* the price of a single delay; and the table has room for every username    *)
(* that is tried, or erasing its first key forgets the lock of one.          *)
WallStandsOn ==
  /\ IsFiniteSet(Clients) /\ Cardinality(Clients) <= Lesser(MaxDelay, 2^8)
  /\ IsFiniteSet(Names) /\ Cardinality(Names) <= MaxKeys

(* cmd_userdel: an installation that has an administrator keeps one, unless *)
(* two deletions ran over each other.                                       *)
LastAdminStays ==
  [][AdminExists /\ ~AdminExists' =>
       \E c \in Clients : client[c].at = "delete" /\ client[c].raced]_vars

(* api.cpp on the bootstrap route: "it only works while no user exists".    *)
(* The code does not keep this: see "Known differences" in the README.      *)
BootstrapOnlyWhileEmpty ==
  [][(\E c \in Clients : client[c].at = "boot" /\ client'[c].at = "session") => Live = {}]_vars

(* users.h on User::locale: the language this account is addressed in drives *)
(* the UI, which learns it from /api/auth/status.                           *)
(* The code does not keep this: see "Known differences" in the README.       *)
StatusShowsLocale == ~misshown
=============================================================================
