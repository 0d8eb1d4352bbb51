---------------------------- MODULE AccountsProofs ----------------------------
(***************************************************************************)
(* Theorems of Accounts, for every set of names, clients, casts and table  *)
(* sizes: the types and foreign keys, that a credential stands for the     *)
(* account it was given out for, that the last administrator stays, and    *)
(* that many clients guess at one username no faster than one.             *)
(***************************************************************************)
EXTENDS Accounts, FiniteSetTheorems, WellFoundedInduction, TLAPS

(***************************************************************************)
(* Facts about the operators the actions use.                              *)
(***************************************************************************)

(* A non-empty set of natural numbers has a least element.                   *)
LEMMA LeastOf ==
  ASSUME NEW S, S \subseteq Nat, S # {}
  PROVE  \E n \in S : \A m \in S : n <= m
<1>1. IsWellFoundedOn(OpToRel(<, Nat), Nat)
  BY NatLessThanWellFounded, Zenon
<1>2. PICK n \in S : \A m \in S : ~(<<m, n>> \in OpToRel(<, Nat))
  BY <1>1, WFMin, Zenon
<1>3. \A m \in S : ~(m < n)
  BY <1>2, Zenon DEF OpToRel
<1> QED
  BY <1>3

(* The id of a new row is no row's.                                          *)
LEMMA NewIdIsFree == NewId \in Nat /\ NewId >= 1 /\ NewId \notin Live
<1> DEFINE Above == {i \in 1..(MaxId + 1) : \A j \in Live : j < i}
<1>1. MaxId \in Nat
  BY AccountsAssumption
<1>2. Live \subseteq 1..MaxId
  BY DEF Live, Ids
<1>3. MaxId + 1 \in Above /\ Above \subseteq Nat
  BY <1>1, <1>2
<1>4. PICK i \in Above : \A k \in Above : i <= k
  <2> HIDE DEF Above
  <2> QED
    BY <1>3, LeastOf
<1>5. i = 1 \/ i - 1 \in Live
  <2>1. SUFFICES ASSUME i # 1, i - 1 \notin Live
                 PROVE  i - 1 \in Above
    BY <1>1, <1>4
  <2>2. \A j \in Live : j < i /\ j # i - 1 /\ j \in Int
    BY <2>1, <1>2, <1>4
  <2> QED
    BY <1>1, <1>4, <2>1, <2>2
<1> DEFINE New == CHOOSE x \in 1..(MaxId + 1) : /\ \A j \in Live : j < x
                                                /\ x = 1 \/ x - 1 \in Live
<1>6. New \in 1..(MaxId + 1) /\ \A j \in Live : j < New
  BY <1>4, <1>5
<1>7. NewId = New
  BY DEF NewId
<1>8. New \notin Live
  BY <1>1, <1>2, <1>6
<1> QED
  BY <1>1, <1>6, <1>7, <1>8

(* A set with more than one member has another one than any given.           *)
LEMMA AnotherMember ==
  ASSUME NEW S, IsFiniteSet(S), Cardinality(S) > 1, NEW x
  PROVE  \E y \in S : y # x
<1> SUFFICES ASSUME S \subseteq {x} PROVE FALSE
  OBVIOUS
<1>1. IsFiniteSet({x}) /\ Cardinality({x}) = 1
  BY FS_Singleton
<1>2. Cardinality(S) <= Cardinality({x})
  BY <1>1, FS_Subset
<1>3. Cardinality(S) \in Nat
  BY FS_CardinalityType
<1> QED
  BY <1>1, <1>2, <1>3

(* The lockout a failure costs is a number of ticks.                         *)
LEMMA DelayIsNat ==
  ASSUME NEW f \in Nat, f >= FreeFailures
  PROVE  Delay(f) \in Nat
<1>1. Lesser(f - FreeFailures, 8) \in 0..8
  BY AccountsAssumption DEF Lesser
<1>2. \A n \in 0..8 : 2^n \in Nat
  <2>1. /\ 2^0 \in Nat /\ 2^1 \in Nat /\ 2^2 \in Nat /\ 2^3 \in Nat /\ 2^4 \in Nat
        /\ 2^5 \in Nat /\ 2^6 \in Nat /\ 2^7 \in Nat /\ 2^8 \in Nat
    OBVIOUS
  <2>2. \A n \in 0..8 : n \in {0, 1, 2, 3, 4, 5, 6, 7, 8}
    OBVIOUS
  <2> QED
    BY <2>1, <2>2, Zenon
<1> QED
  BY <1>1, <1>2, AccountsAssumption DEF Delay, Lesser

(* The throttle's table stays a table.                                       *)
Table == [Keys -> [failures : Nat, locked_until : Nat]]
LEMMA FailedIsTable ==
  ASSUME clock \in Nat, NEW table \in Table, NEW k \in Keys
  PROVE  Failed(table, k) \in Table
<1> DEFINE f == table[k].failures + 1
           lock == IF f >= FreeFailures THEN clock + Delay(f) ELSE table[k].locked_until
           more == [table EXCEPT ![k] = [failures |-> f, locked_until |-> lock]]
<1>1. f \in Nat /\ lock \in Nat
  BY DelayIsNat, AccountsAssumption DEF Table
<1> HIDE DEF f, lock
<1>2. more \in Table
  BY <1>1 DEF Table
<1> HIDE DEF more
<1>3. Failed(table, k) = Bounded(more)
  BY DEF Failed, more, f, lock
<1>4. Bounded(more) \in Table
  BY <1>2 DEF Bounded, NoEntry, Table
<1> QED
  BY <1>3, <1>4

(***************************************************************************)
(* The inductive invariant                                                 *)
(***************************************************************************)

(* What a client has read is of its type at the stages that use it.          *)
Typed(r) ==
  /\ r.at \in {"boot", "add"} => r.name \in Names /\ r.pass \in Passwords
  /\ r.at \in {"guess", "refuse", "proved"} => r.name \in Names
ReadsAreTyped == \A c \in Clients : Typed(client[c])

(* The account a client means is the one it goes on with.                    *)
Means(r, i) == i \in Live /\ users[i].gen = r.of

(* What a client knows stays true until somebody deletes an account: who it  *)
(* has found, and for a deletion what the count of administrators told.      *)
Knows(r) ==
  /\ r.at \in {"session", "map"} => Means(r, r.id)
  /\ r.at = "proved" => \E i \in Named(r.name) : Means(r, i)
  /\ r.at \in {"del", "delete"} => r.id \in Live /\ users[r.id].admin = r.admin
  /\ r.at = "delete" /\ r.admin => \E i \in Live : i # r.id /\ users[i].admin
FlightsKnow == \A c \in Clients : ~client[c].raced => Knows(client[c])

IInv == TypeOK /\ CredentialsAreOwn /\ ReadsAreTyped /\ FlightsKnow

(***************************************************************************)
(* What the actions do to the table of accounts and to a client            *)
(***************************************************************************)

(* The account of an id stays the account: its name, its rights, its birth.  *)
SameAccounts ==
  \A i \in Live : /\ i \in Live' /\ users'[i].name = users[i].name
                  /\ users'[i].admin = users[i].admin /\ users'[i].gen = users[i].gen

LEMMA AccountFacts ==
  ASSUME TypeOK, NEW i \in Live
  PROVE  i \in Ids /\ users[i] \in Account /\ users[i].gen \in 1..MaxBirths
  BY DEF TypeOK, Live, Account

LEMMA IdleIsRecord == Idle \in ClientRecord /\ Idle.at = "idle"
  BY AccountsAssumption DEF Idle, ClientRecord, Stages, Raced

LEMMA BirthsFacts == MaxBirths \in Nat /\ 1..MaxBirths \subseteq 0..(MaxBirths + 1)
BY AccountsAssumption

(* The stages but "idle" tell a client from an idle one.                     *)
LEMMA ClientFacts ==
  ASSUME TypeOK, NEW c \in Clients
  PROVE  /\ client[c] \in ClientRecord
         /\ client[c].at # "idle" => client[c] # Idle
  BY IdleIsRecord DEF TypeOK

LEMMA BecomesFacts ==
  ASSUME TypeOK, NEW c \in Clients, NEW r \in ClientRecord, Becomes(c, r)
  PROVE  /\ client' \in [Clients -> ClientRecord]
         /\ client'[c] = r /\ \A d \in Clients : d # c => client'[d] = client[d]
  BY DEF TypeOK, Becomes

(* INSERT OR IGNORE adds one account with a name of its own, or none.        *)
LEMMA InsertFacts ==
  ASSUME TypeOK, NEW n \in Names, NEW p \in Passwords, NEW admin \in BOOLEAN,
         Insert(n, p, admin)
  PROVE  /\ users' \in [Ids -> Account \cup {None}]
         /\ births' \in 0..MaxBirths
         /\ SameAccounts
         /\ \A i, j \in Live' : users'[i].name = users'[j].name => i = j
         /\ InsertedId(n) # 0 => /\ InsertedId(n) \in Ids /\ InsertedId(n) \in Live'
                                 /\ users'[InsertedId(n)].gen = births + 1
                                 /\ births + 1 \in 1..MaxBirths
<1>1. CASE Named(n) # {}
  <2>1. users' = users /\ births' = births /\ InsertedId(n) = 0
    BY <1>1 DEF Insert, InsertedId
  <2> QED
    BY <2>1 DEF TypeOK, SameAccounts, Live
<1>2. CASE Named(n) = {}
  <2> DEFINE row == [name |-> n, pass |-> p, admin |-> admin, locale |-> "en",
                     gen |-> births + 1]
  <2>1. /\ births < MaxBirths /\ NewId \in Ids /\ births' = births + 1
        /\ users' = [users EXCEPT ![NewId] = row] /\ InsertedId(n) = NewId
    BY <1>2 DEF Insert, InsertedId
  <2>2. births + 1 \in 1..MaxBirths /\ births' \in 0..MaxBirths
    BY <2>1, AccountsAssumption DEF TypeOK
  <2>3. row \in Account /\ row.name = n /\ row.gen = births + 1 /\ row # None
    BY <2>2, AccountsAssumption, NoneAssumption DEF Account
  <2> HIDE DEF row
  <2>4. /\ users' \in [Ids -> Account \cup {None}] /\ users'[NewId] = row
        /\ \A i \in Ids : i # NewId => users'[i] = users[i]
    BY <2>1, <2>3 DEF TypeOK
  <2>5. Live' = Live \cup {NewId} /\ NewId \notin Live
    BY <2>1, <2>3, <2>4, NewIdIsFree DEF Live
  <2>6. \A i \in Live : i \in Ids /\ users[i].name # n
    BY <1>2 DEF Named, Live
  <2>7. SameAccounts
    BY <2>4, <2>5, <2>6 DEF SameAccounts
  <2>8. \A i, j \in Live' : users'[i].name = users'[j].name => i = j
    BY <2>3, <2>4, <2>5, <2>6 DEF TypeOK
  <2> QED
    BY <2>1, <2>2, <2>3, <2>4, <2>5, <2>7, <2>8
<1> QED
  BY <1>1, <1>2

(* A change of a password or a language leaves every account what it is.     *)
LEMMA UpdateFacts ==
  ASSUME TypeOK, NEW i \in Live, NEW row \in Account,
         row.name = users[i].name, row.admin = users[i].admin, row.gen = users[i].gen,
         users' = [users EXCEPT ![i] = row]
  PROVE  /\ users' \in [Ids -> Account \cup {None}] /\ SameAccounts /\ Live' = Live
         /\ \A j, k \in Live' : users'[j].name = users'[k].name => j = k
<1>1. i \in Ids /\ row # None
  BY NoneAssumption DEF Live
<1>2. /\ users' \in [Ids -> Account \cup {None}] /\ users'[i] = row
      /\ \A j \in Ids : j # i => users'[j] = users[j]
  BY <1>1 DEF TypeOK
<1>3. Live' = Live
  BY <1>1, <1>2 DEF Live
<1>4. SameAccounts
  BY <1>2, <1>3 DEF SameAccounts, Live
<1>5. \A j, k \in Live' : users'[j].name = users'[k].name => j = k
  BY <1>3, <1>4 DEF SameAccounts, TypeOK
<1> QED
  BY <1>2, <1>3, <1>4, <1>5

(* Both statements that update an account write a row that differs in the    *)
(* password or the language only, or find no row.                            *)
LEMMA UpdateSteps ==
  ASSUME TypeOK, NEW c \in Clients, SetLocale(c) \/ SetPassword(c)
  PROVE  \/ users' = users
         \/ \E i \in Live, row \in Account :
              /\ row.name = users[i].name /\ row.admin = users[i].admin
              /\ row.gen = users[i].gen /\ users' = [users EXCEPT ![i] = row]
<1> DEFINE i == client[c].id
<1>1. CASE i \notin Live
  BY <1>1 DEF SetLocale, SetPassword
<1>2. CASE i \in Live
  <2>0. users[i] \in Account
    BY <1>2, AccountFacts
  <2>1. CASE SetLocale(c)
    <3>1. PICK l \in Locales : users' = [users EXCEPT ![i].locale = l]
      BY <1>2, <2>1 DEF SetLocale
    <3>2. PICK row : row = [users[i] EXCEPT !.locale = l]
      OBVIOUS
    <3>3. /\ row \in Account /\ row.name = users[i].name /\ row.admin = users[i].admin
          /\ row.gen = users[i].gen
      BY <2>0, <3>2 DEF Account
    <3>4. users' = [users EXCEPT ![i] = row]
      BY <3>1, <3>2
    <3> QED
      BY <1>2, <3>3, <3>4
  <2>2. CASE SetPassword(c)
    <3>1. PICK p \in Passwords : users' = [users EXCEPT ![i].pass = p]
      BY <1>2, <2>2 DEF SetPassword
    <3>2. PICK row : row = [users[i] EXCEPT !.pass = p]
      OBVIOUS
    <3>3. /\ row \in Account /\ row.name = users[i].name /\ row.admin = users[i].admin
          /\ row.gen = users[i].gen
      BY <2>0, <3>2 DEF Account
    <3>4. users' = [users EXCEPT ![i] = row]
      BY <3>1, <3>2
    <3> QED
      BY <1>2, <3>3, <3>4
  <2> QED
    BY <2>1, <2>2
<1> QED
  BY <1>1, <1>2

(* ON DELETE CASCADE leaves no credential of the id, and the others alone.   *)
LEMMA OwnedFacts ==
  ASSUME NEW D, NEW table \in [D -> Credential \cup {None}], NEW id
  PROVE  /\ Owned(table, id) \in [D -> Credential \cup {None}]
         /\ \A k \in D : Owned(table, id)[k] # None =>
              Owned(table, id)[k] = table[k] /\ table[k].id # id
  BY DEF Owned

(***************************************************************************)
(* Types                                                                   *)
(***************************************************************************)

(* Foreign keys: a credential names a row that is there.                     *)
Refer(table) == \A k \in DOMAIN table : table[k] # None => table[k].id \in Live

(* TypeOK in its two halves: the database, and what the server remembers.    *)
StoreOK ==
  /\ users \in [Ids -> Account \cup {None}]
  /\ tokens \in [1..MaxTokens -> Credential \cup {None}]
  /\ jids \in [Jids -> Credential \cup {None}]
  /\ births \in 0..MaxBirths /\ issued \in 0..MaxTokens
  /\ \A i, j \in Live : users[i].name = users[j].name => i = j
  /\ Refer(tokens) /\ Refer(jids)
ServerOK ==
  /\ by_key \in Table
  /\ client \in [Clients -> ClientRecord]
  /\ clock \in 0..MaxClock /\ restarts \in 0..MaxRestarts
  /\ does \in Casts /\ guesses \in [Names -> Nat] /\ misshown \in BOOLEAN

LEMMA TypeHalves == TypeOK <=> StoreOK /\ ServerOK
<1>1. ASSUME TypeOK PROVE StoreOK /\ ServerOK
  BY <1>1 DEF TypeOK, StoreOK, ServerOK, Refer, Table
<1>2. ASSUME StoreOK, ServerOK PROVE TypeOK
  BY <1>2 DEF TypeOK, StoreOK, ServerOK, Refer, Table
<1> QED
  BY <1>1, <1>2

LEMMA TypeInit == Init => TypeOK
<1> SUFFICES ASSUME Init PROVE TypeOK
  OBVIOUS
<1>1. StoreOK
  BY AccountsAssumption DEF Init, StoreOK, Refer, Live
<1>2. ServerOK
  <2>1. by_key \in Table
    BY DEF Init, Table, NoEntry
  <2>2. client \in [Clients -> ClientRecord]
    BY IdleIsRecord DEF Init
  <2>3. clock \in 0..MaxClock /\ restarts \in 0..MaxRestarts
    BY AccountsAssumption DEF Init
  <2>4. does \in Casts /\ guesses \in [Names -> Nat] /\ misshown \in BOOLEAN
    BY DEF Init
  <2> QED
    BY <2>1, <2>2, <2>3, <2>4 DEF ServerOK
<1> QED
  BY <1>1, <1>2, TypeHalves

(* Credentials keep naming rows while no account is deleted.                 *)
LEMMA StoreKept ==
  ASSUME StoreOK, users' = users, tokens' = tokens, jids' = jids,
         births' = births, issued' = issued
  PROVE  StoreOK'
  BY DEF StoreOK, Refer, Live

LEMMA ReferKept ==
  ASSUME SameAccounts, tokens' = tokens, jids' = jids, Refer(tokens), Refer(jids)
  PROVE  Refer(tokens)' /\ Refer(jids)'
  BY DEF Refer, SameAccounts

(* Credentials stay right while their accounts stay and they only go.        *)
LEMMA CredentialsKept ==
  ASSUME StoreOK, CredentialsAreOwn, SameAccounts,
         \A t \in 1..MaxTokens : tokens'[t] \in {tokens[t], None},
         \A j \in Jids : jids'[j] \in {jids[j], None}
  PROVE  CredentialsAreOwn'
<1>1. \A t \in 1..MaxTokens : tokens[t] # None =>
        tokens[t].id \in Live /\ tokens[t].of \in {Raced, users[tokens[t].id].gen}
  BY DEF StoreOK, Refer, CredentialsAreOwn, CredentialIsOwn
<1>2. \A j \in Jids : jids[j] # None =>
        jids[j].id \in Live /\ jids[j].of \in {Raced, users[jids[j].id].gen}
  BY DEF StoreOK, Refer, CredentialsAreOwn, CredentialIsOwn
<1>3. \A t \in 1..MaxTokens : tokens'[t] # None =>
        tokens'[t].of \in {Raced, users'[tokens'[t].id].gen}
  BY <1>1 DEF SameAccounts
<1>4. \A j \in Jids : jids'[j] # None => jids'[j].of \in {Raced, users'[jids'[j].id].gen}
  BY <1>2 DEF SameAccounts
<1> QED
  BY <1>3, <1>4 DEF CredentialsAreOwn, CredentialIsOwn

(***************************************************************************)
(* The database: types, foreign keys, and whose a credential is            *)
(***************************************************************************)
LEMMA StoreNext ==
  IInv /\ [Next]_vars => StoreOK' /\ CredentialsAreOwn'
<1> SUFFICES ASSUME IInv, [Next]_vars PROVE StoreOK' /\ CredentialsAreOwn'
  OBVIOUS
<1>0. /\ TypeOK /\ StoreOK /\ ServerOK
      /\ CredentialsAreOwn /\ ReadsAreTyped /\ FlightsKnow
  BY TypeHalves DEF IInv
<1>u. ASSUME UNCHANGED <<store, births, issued>>
      PROVE  StoreOK' /\ CredentialsAreOwn'
  <2>1. SameAccounts
    BY <1>u DEF SameAccounts, Live, store
  <2> QED
    BY <1>0, <1>u, <2>1, StoreKept, CredentialsKept DEF store
<1>i. ASSUME NEW n \in Names, NEW p \in Passwords, NEW admin \in BOOLEAN,
             Insert(n, p, admin), UNCHANGED <<tokens, jids, issued>>
      PROVE  StoreOK' /\ CredentialsAreOwn'
  <2>1. /\ users' \in [Ids -> Account \cup {None}] /\ births' \in 0..MaxBirths
        /\ SameAccounts
        /\ \A i, j \in Live' : users'[i].name = users'[j].name => i = j
    BY <1>0, <1>i, InsertFacts
  <2>2. Refer(tokens)' /\ Refer(jids)'
    BY <1>0, <1>i, <2>1, ReferKept DEF StoreOK
  <2> QED
    BY <1>0, <1>i, <2>1, <2>2, CredentialsKept DEF StoreOK
<1>1. ASSUME NEW c \in Clients, BootstrapCreate(c)
      PROVE  StoreOK' /\ CredentialsAreOwn'
  <2>1. client[c].name \in Names /\ client[c].pass \in Passwords
    BY <1>0, <1>1 DEF BootstrapCreate, ReadsAreTyped, Typed
  <2> QED
    BY <1>1, <1>i, <2>1 DEF BootstrapCreate
<1>2. ASSUME NEW c \in Clients, UserAddCreate(c)
      PROVE  StoreOK' /\ CredentialsAreOwn'
  <2>1. client[c].name \in Names /\ client[c].pass \in Passwords
    BY <1>0, <1>2 DEF UserAddCreate, ReadsAreTyped, Typed
  <2>2. client[c].admin \in BOOLEAN
    BY <1>0, ClientFacts DEF ClientRecord
  <2> QED
    BY <1>2, <1>i, <2>1, <2>2 DEF UserAddCreate
<1>3. ASSUME NEW c \in Clients, StartSession(c)
      PROVE  StoreOK' /\ CredentialsAreOwn'
  <2> DEFINE i == client[c].id
             of == IF client[c].raced THEN Raced ELSE client[c].of
             cred == [id |-> i, expires |-> clock + TokenLife, of |-> of]
  <2>1. CASE i \notin Live
    BY <1>3, <1>u, <2>1 DEF StartSession, store
  <2>2. CASE i \in Live
    <3>1. /\ issued < MaxTokens /\ issued' = issued + 1
          /\ tokens' = [tokens EXCEPT ![issued + 1] = cred]
          /\ users' = users /\ jids' = jids /\ births' = births
      BY <1>3, <2>2 DEF StartSession
    <3>2. of \in {Raced, users[i].gen} /\ of \in 0..MaxBirths
      <4>1. users[i].gen \in 1..MaxBirths /\ MaxBirths \in Nat
        BY <1>0, <2>2, AccountFacts, AccountsAssumption
      <4>2. ~client[c].raced => client[c].of = users[i].gen
        BY <1>0, <1>3 DEF StartSession, FlightsKnow, Knows, Means
      <4> QED
        BY <4>1, <4>2 DEF Raced
    <3>3. cred \in Credential /\ cred # None /\ cred.id = i /\ cred.of = of
      <4>1. i \in Ids /\ clock + TokenLife \in Nat
        BY <1>0, <2>2, AccountsAssumption DEF Live, ServerOK
      <4> HIDE DEF i, of
      <4> QED
        BY <3>2, <4>1, NoneAssumption DEF Credential
    <3> HIDE DEF cred, of, i
    <3>4. /\ issued' \in 0..MaxTokens
          /\ tokens' \in [1..MaxTokens -> Credential \cup {None}]
          /\ \A t \in 1..MaxTokens : tokens'[t] \in {tokens[t], cred}
      BY <1>0, <3>1, <3>3, AccountsAssumption DEF StoreOK
    <3>5. Live' = Live /\ \A t \in 1..MaxTokens : tokens'[t] # None => tokens'[t].id \in Live
      BY <1>0, <2>2, <3>1, <3>3, <3>4 DEF StoreOK, Refer, Live
    <3>6. StoreOK'
      BY <1>0, <3>1, <3>4, <3>5 DEF StoreOK, Refer
    <3>7. CredentialsAreOwn'
      BY <1>0, <3>1, <3>2, <3>3, <3>4 DEF CredentialsAreOwn, CredentialIsOwn
    <3> QED
      BY <3>6, <3>7
  <2> QED
    BY <2>1, <2>2
<1>4. ASSUME NEW c \in Clients, MapJid(c)
      PROVE  StoreOK' /\ CredentialsAreOwn'
  <2> DEFINE i == client[c].id
             of == IF client[c].raced THEN Raced ELSE client[c].of
             cred == [id |-> i, expires |-> 0, of |-> of]
  <2>1. CASE i \notin Live
    BY <1>4, <1>u, <2>1 DEF MapJid, store
  <2>2. CASE i \in Live
    <3>1. /\ \E j \in Jids : jids' = [jids EXCEPT ![j] = cred]
          /\ users' = users /\ tokens' = tokens /\ births' = births /\ issued' = issued
      BY <1>4, <2>2 DEF MapJid
    <3>2. of \in {Raced, users[i].gen} /\ of \in 0..MaxBirths
      <4>1. users[i].gen \in 1..MaxBirths /\ MaxBirths \in Nat
        BY <1>0, <2>2, AccountFacts, AccountsAssumption
      <4>2. ~client[c].raced => client[c].of = users[i].gen
        BY <1>0, <1>4 DEF MapJid, FlightsKnow, Knows, Means
      <4> QED
        BY <4>1, <4>2 DEF Raced
    <3>3. cred \in Credential /\ cred # None /\ cred.id = i /\ cred.of = of
      <4>1. i \in Ids
        BY <2>2 DEF Live
      <4> HIDE DEF i, of
      <4> QED
        BY <3>2, <4>1, NoneAssumption DEF Credential
    <3> HIDE DEF cred, of, i
    <3>4. /\ jids' \in [Jids -> Credential \cup {None}]
          /\ \A j \in Jids : jids'[j] \in {jids[j], cred}
      BY <1>0, <3>1, <3>3 DEF StoreOK
    <3>5. Live' = Live /\ \A j \in Jids : jids'[j] # None => jids'[j].id \in Live
      BY <1>0, <2>2, <3>1, <3>3, <3>4 DEF StoreOK, Refer, Live
    <3>6. StoreOK'
      BY <1>0, <3>1, <3>4, <3>5 DEF StoreOK, Refer
    <3>7. CredentialsAreOwn'
      BY <1>0, <3>1, <3>2, <3>3, <3>4 DEF CredentialsAreOwn, CredentialIsOwn
    <3> QED
      BY <3>6, <3>7
  <2> QED
    BY <2>1, <2>2
<1>5. ASSUME NEW c \in Clients, SetLocale(c) \/ SetPassword(c)
      PROVE  StoreOK' /\ CredentialsAreOwn'
  <2>0. UNCHANGED <<tokens, jids, births, issued>>
    BY <1>5 DEF SetLocale, SetPassword
  <2>1. CASE users' = users
    BY <1>u, <2>0, <2>1 DEF store
  <2>2. CASE users' # users
    <3>1. /\ users' \in [Ids -> Account \cup {None}] /\ SameAccounts
          /\ \A j, k \in Live' : users'[j].name = users'[k].name => j = k
      BY <1>0, <1>5, <2>2, UpdateSteps, UpdateFacts
    <3>2. Refer(tokens)' /\ Refer(jids)'
      BY <1>0, <2>0, <3>1, ReferKept DEF StoreOK
    <3> QED
      BY <1>0, <2>0, <3>1, <3>2, CredentialsKept DEF StoreOK
  <2> QED
    BY <2>1, <2>2
<1>8. ASSUME users' = users, births' = births, issued' = issued,
             tokens' \in [1..MaxTokens -> Credential \cup {None}],
             jids' \in [Jids -> Credential \cup {None}],
             \A t \in 1..MaxTokens : tokens'[t] \in {tokens[t], None},
             \A j \in Jids : jids'[j] \in {jids[j], None}
      PROVE  StoreOK' /\ CredentialsAreOwn'
  <2>1. Live' = Live /\ SameAccounts
    BY <1>8 DEF Live, SameAccounts
  <2>2. Refer(tokens)' /\ Refer(jids)'
    BY <1>0, <1>8, <2>1 DEF StoreOK, Refer
  <2> QED
    BY <1>0, <1>8, <2>1, <2>2, CredentialsKept DEF StoreOK
<1>9. ASSUME NEW c \in Clients, Logout(c) \/ UnmapJid(c)
      PROVE  StoreOK' /\ CredentialsAreOwn'
  <2>1. users' = users /\ births' = births /\ issued' = issued
    BY <1>9 DEF Logout, UnmapJid
  <2>2. /\ tokens' \in [1..MaxTokens -> Credential \cup {None}]
        /\ \A t \in 1..MaxTokens : tokens'[t] \in {tokens[t], None}
    BY <1>0, <1>9 DEF Logout, UnmapJid, StoreOK
  <2>3. /\ jids' \in [Jids -> Credential \cup {None}]
        /\ \A j \in Jids : jids'[j] \in {jids[j], None}
    BY <1>0, <1>9 DEF Logout, UnmapJid, StoreOK
  <2> QED
    BY <1>8, <2>1, <2>2, <2>3
<1>10. ASSUME NEW c \in Clients, DeleteUser(c)
       PROVE  StoreOK' /\ CredentialsAreOwn'
  <2> DEFINE id == client[c].id
  <2>1. /\ users' = [users EXCEPT ![id] = None] /\ births' = births /\ issued' = issued
        /\ tokens' = Owned(tokens, id) /\ jids' = Owned(jids, id)
    BY <1>10 DEF DeleteUser
  <2> HIDE DEF id
  <2>2. /\ users' \in [Ids -> Account \cup {None}]
        /\ \A i \in Ids : i # id => users'[i] = users[i]
        /\ \A i \in Live' : i \in Live /\ users'[i] = users[i]
        /\ \A i \in Live : i # id => i \in Live'
    BY <1>0, <2>1 DEF StoreOK, Live
  <2> DEFINE D == 1..MaxTokens
  <2>a. tokens \in [D -> Credential \cup {None}]
    BY <1>0 DEF StoreOK
  <2> HIDE DEF D
  <2>b. /\ tokens' \in [D -> Credential \cup {None}]
        /\ \A t \in D : tokens'[t] # None => tokens'[t] = tokens[t] /\ tokens[t].id # id
    BY <2>1, <2>a, OwnedFacts
  <2>3. /\ tokens' \in [1..MaxTokens -> Credential \cup {None}]
        /\ \A t \in 1..MaxTokens : tokens'[t] # None => tokens'[t] = tokens[t] /\ tokens[t].id # id
    BY <2>b DEF D
  <2>4. /\ jids' \in [Jids -> Credential \cup {None}]
        /\ \A j \in Jids : jids'[j] # None => jids'[j] = jids[j] /\ jids[j].id # id
    BY <1>0, <2>1, OwnedFacts DEF StoreOK
  <2>5. /\ \A t \in 1..MaxTokens : tokens'[t] # None => tokens'[t].id \in Live'
        /\ \A j \in Jids : jids'[j] # None => jids'[j].id \in Live'
    BY <1>0, <2>2, <2>3, <2>4 DEF StoreOK, Refer
  <2>6. StoreOK'
    BY <1>0, <2>1, <2>2, <2>3, <2>4, <2>5 DEF StoreOK, Refer
  <2>7. \A t \in 1..MaxTokens : tokens'[t] # None =>
          tokens'[t].of \in {Raced, users'[tokens'[t].id].gen}
    BY <1>0, <2>2, <2>3, <2>5 DEF CredentialsAreOwn, CredentialIsOwn
  <2>8. \A j \in Jids : jids'[j] # None => jids'[j].of \in {Raced, users'[jids'[j].id].gen}
    BY <1>0, <2>2, <2>4, <2>5 DEF CredentialsAreOwn, CredentialIsOwn
  <2> QED
    BY <2>6, <2>7, <2>8 DEF CredentialsAreOwn, CredentialIsOwn
<1> QED
  BY <1>u, <1>1, <1>2, <1>3, <1>4, <1>5, <1>9, <1>10
     DEF Next, vars, BootstrapCheck, LoginCheck, Verify, LoginFails, LoginSucceeds,
         Authenticate, AuthenticateJid, Status, FindUser, Looks, UserAdd, UserDelCheck,
         Tick, Restart

(***************************************************************************)
(* The flights: what the clients have read, and what they know             *)
(***************************************************************************)

(* What a client knows stays known while the accounts stay.                  *)
LEMMA KnowledgeKept ==
  ASSUME SameAccounts, NEW r, Knows(r)
  PROVE  Knows(r)'
BY DEF SameAccounts, Knows, Means, Named, Live

(* A step of one client leaves the others' flights right.                    *)
FlightsOK == /\ client \in [Clients -> ClientRecord]
             /\ ReadsAreTyped /\ FlightsKnow
LEMMA TurnFacts ==
  ASSUME IInv, SameAccounts, NEW c \in Clients, NEW r \in ClientRecord, Becomes(c, r),
         Typed(r), ~r.raced => Knows(r)'
  PROVE  FlightsOK'
<1>1. /\ client' \in [Clients -> ClientRecord]
      /\ client'[c] = r /\ \A d \in Clients : d # c => client'[d] = client[d]
  BY BecomesFacts DEF IInv
<1>2. ReadsAreTyped'
  BY <1>1 DEF IInv, ReadsAreTyped, Typed
<1>3. ASSUME NEW d \in Clients, ~client'[d].raced
      PROVE  Knows(client[d])'
  <2>1. CASE d = c
    BY <1>1, <1>3, <2>1 DEF Knows, Means
  <2>2. CASE d # c
    <3>1. PICK s : s = client[d]
      OBVIOUS
    <3>2. Knows(s)'
      BY <1>1, <1>3, <2>2, <3>1, KnowledgeKept DEF IInv, FlightsKnow, Knows, Means
    <3> QED
      BY <1>1, <2>2, <3>1, <3>2 DEF Knows, Means
  <2> QED
    BY <2>1, <2>2
<1>4. FlightsKnow'
  BY <1>3 DEF FlightsKnow
<1> QED
  BY <1>1, <1>2, <1>4 DEF FlightsOK

(* An idle client has read nothing and knows nothing.                        *)
LEMMA IdleFacts == Idle \in ClientRecord /\ Typed(Idle) /\ Knows(Idle)'
BY IdleIsRecord DEF Typed, Knows

LEMMA FlightsNext ==
  IInv /\ [Next]_vars => FlightsOK'
<1> SUFFICES ASSUME IInv, [Next]_vars PROVE FlightsOK'
  OBVIOUS
<1>0. TypeOK /\ StoreOK /\ ReadsAreTyped /\ FlightsKnow
  BY TypeHalves DEF IInv
<1>s. ASSUME users' = users PROVE SameAccounts
  BY <1>s DEF SameAccounts, Live
<1>u. ASSUME UNCHANGED <<users, client>> PROVE FlightsOK'
  BY <1>0, <1>u DEF FlightsOK, ReadsAreTyped, FlightsKnow, Typed, Knows, Means, Named,
                    Live, TypeOK
<1>f. ASSUME NEW c \in Clients, SameAccounts, Finishes(c) PROVE FlightsOK'
  BY <1>f, IdleFacts, TurnFacts DEF Finishes
<1>i. ASSUME NEW c \in Clients
      PROVE  client[c] \in ClientRecord
  BY <1>0, <1>i, ClientFacts
<1>r. ASSUME NEW c \in Clients, users' = users, NEW r \in ClientRecord, Becomes(c, r),
             r.at \in {"boot", "guess", "add", "authed"},
             r.at = "authed" \/ (r.name \in Names /\ r.pass \in Passwords)
      PROVE  FlightsOK'
  <2>1. Typed(r) /\ Knows(r)'
    BY <1>r DEF Typed, Knows
  <2> QED
    BY <1>r, <1>s, <2>1, TurnFacts
<1>1. ASSUME NEW c \in Clients, BootstrapCheck(c) \/ LoginCheck(c)
      PROVE  FlightsOK'
  <2>1. PICK at \in {"boot", "guess"}, n \in Names, p \in Passwords :
          Becomes(c, [Idle EXCEPT !.at = at, !.name = n, !.pass = p])
    BY <1>1 DEF BootstrapCheck, LoginCheck
  <2>2. PICK r : r = [Idle EXCEPT !.at = at, !.name = n, !.pass = p]
    OBVIOUS
  <2>3. r \in ClientRecord /\ r.at = at /\ r.name = n /\ r.pass = p
    BY <2>2, IdleIsRecord DEF ClientRecord, Stages
  <2> QED
    BY <1>1, <1>r, <2>1, <2>2, <2>3 DEF BootstrapCheck, LoginCheck, store
<1>15. ASSUME NEW c \in Clients, UserAdd(c)
       PROVE  FlightsOK'
  <2>1. PICK n \in Names, p \in Passwords, admin \in BOOLEAN :
          Becomes(c, [Idle EXCEPT !.at = "add", !.name = n, !.pass = p, !.admin = admin])
    BY <1>15 DEF UserAdd
  <2>2. PICK r : r = [Idle EXCEPT !.at = "add", !.name = n, !.pass = p, !.admin = admin]
    OBVIOUS
  <2>3. r \in ClientRecord /\ r.at = "add" /\ r.name = n /\ r.pass = p
    BY <2>2, IdleIsRecord DEF ClientRecord, Stages
  <2> QED
    BY <1>15, <1>r, <2>1, <2>2, <2>3 DEF UserAdd, store
<1>2. ASSUME NEW c \in Clients, BootstrapCreate(c)
      PROVE  FlightsOK'
  <2> DEFINE n == client[c].name
  <2>1. /\ n \in Names /\ client[c].pass \in Passwords /\ Insert(n, client[c].pass, TRUE)
    BY <1>0, <1>2 DEF BootstrapCreate, ReadsAreTyped, Typed
  <2>2. /\ SameAccounts
        /\ InsertedId(n) # 0 => /\ InsertedId(n) \in Ids /\ InsertedId(n) \in Live'
                                /\ users'[InsertedId(n)].gen = births + 1
                                /\ births + 1 \in 1..MaxBirths
    BY <1>0, <2>1, InsertFacts
  <2>3. CASE InsertedId(n) = 0
    BY <1>2, <1>f, <2>2, <2>3 DEF BootstrapCreate
  <2>4. CASE InsertedId(n) # 0
    <3>1. PICK i, g : i = InsertedId(n) /\ g = births + 1
      OBVIOUS
    <3>2. PICK r : r = [client[c] EXCEPT !.at = "session", !.id = i, !.of = g]
      OBVIOUS
    <3>3. Becomes(c, r)
      BY <1>2, <2>4, <3>1, <3>2 DEF BootstrapCreate
    <3>4. i \in Ids /\ g \in 1..MaxBirths /\ i \in Live' /\ users'[i].gen = g
      BY <2>2, <2>4, <3>1
    <3>5. r \in ClientRecord /\ r.at = "session" /\ r.id = i /\ r.of = g
      BY <1>i, <3>2, <3>4, BirthsFacts DEF ClientRecord, Stages
    <3>6. Typed(r) /\ Knows(r)'
      BY <3>4, <3>5 DEF Typed, Knows, Means
    <3> QED
      BY <2>2, <3>3, <3>5, <3>6, TurnFacts
  <2> QED
    BY <2>3, <2>4
<1>3. ASSUME NEW c \in Clients,
             StartSession(c) \/ LoginFails(c) \/ MapJid(c)
      PROVE  FlightsOK'
  <2>1. users' = users /\ Finishes(c)
    BY <1>3 DEF StartSession, LoginFails, MapJid, store
  <2> QED
    BY <1>f, <1>s, <2>1
<1>4. ASSUME NEW c \in Clients, Verify(c)
      PROVE  FlightsOK'
  <2>1. SameAccounts
    BY <1>4, <1>s DEF Verify, store
  <2>2. client[c] \in ClientRecord /\ client[c].name \in Names
    BY <1>0, <1>4, <1>i DEF Verify, ReadsAreTyped, Typed
  <2>3. CASE Becomes(c, [client[c] EXCEPT !.at = "refuse"])
    <3>1. PICK r : r = [client[c] EXCEPT !.at = "refuse"]
      OBVIOUS
    <3>2. r \in ClientRecord /\ r.at = "refuse" /\ r.name \in Names
      BY <2>2, <3>1 DEF ClientRecord, Stages
    <3>3. Typed(r) /\ Knows(r)'
      BY <3>2 DEF Typed, Knows
    <3> QED
      BY <2>1, <2>3, <3>1, <3>2, <3>3, TurnFacts
  <2>4. CASE ~Becomes(c, [client[c] EXCEPT !.at = "refuse"])
    <3>1. PICK i \in Named(client[c].name) :
            Becomes(c, [client[c] EXCEPT !.at = "proved", !.of = users[i].gen])
      BY <1>4, <2>4 DEF Verify
    <3>2. PICK r : r = [client[c] EXCEPT !.at = "proved", !.of = users[i].gen]
      OBVIOUS
    <3>3. i \in Live /\ users[i].name = client[c].name /\ users[i].gen \in 1..MaxBirths
      BY <1>0, <3>1, AccountFacts DEF Named
    <3>4. /\ r \in ClientRecord /\ r.at = "proved" /\ r.name = client[c].name
          /\ r.of = users[i].gen
      BY <2>2, <3>2, <3>3, BirthsFacts DEF ClientRecord, Stages
    <3>5. Typed(r) /\ Knows(r)
      BY <2>2, <3>3, <3>4 DEF Typed, Knows, Means, Named
    <3> QED
      BY <2>1, <3>1, <3>2, <3>4, <3>5, KnowledgeKept, TurnFacts
  <2> QED
    BY <2>3, <2>4
<1>5. ASSUME NEW c \in Clients, LoginSucceeds(c)
      PROVE  FlightsOK'
  <2>1. SameAccounts
    BY <1>5, <1>s DEF LoginSucceeds, store
  <2>2. PICK i \in Named(client[c].name) :
          Becomes(c, [client[c] EXCEPT !.at = "session", !.id = i])
    BY <1>5 DEF LoginSucceeds
  <2>3. PICK r : r = [client[c] EXCEPT !.at = "session", !.id = i]
    OBVIOUS
  <2>4. i \in Live /\ i \in Ids /\ users[i].name = client[c].name
    BY <2>2 DEF Named, Live
  <2>5. /\ r \in ClientRecord /\ r.at = "session" /\ r.id = i
        /\ r.of = client[c].of /\ r.raced = client[c].raced
    BY <1>i, <2>3, <2>4 DEF ClientRecord, Stages
  <2>6. ~client[c].raced => users[i].gen = client[c].of
    <3>1. SUFFICES ASSUME ~client[c].raced PROVE users[i].gen = client[c].of
      OBVIOUS
    <3>2. \E j \in Live : users[j].name = client[c].name /\ users[j].gen = client[c].of
      BY <1>0, <1>5, <3>1 DEF LoginSucceeds, FlightsKnow, Knows, Means, Named
    <3> QED
      BY <1>0, <2>4, <3>2 DEF StoreOK
  <2>7. Typed(r) /\ (~r.raced => Knows(r))
    BY <2>4, <2>5, <2>6 DEF Typed, Knows, Means
  <2> QED
    BY <2>1, <2>2, <2>3, <2>5, <2>7, KnowledgeKept, TurnFacts
<1>6. ASSUME NEW c \in Clients, Authenticate(c) \/ AuthenticateJid(c)
      PROVE  FlightsOK'
  <2>1. PICK i \in Live : Becomes(c, [Idle EXCEPT !.at = "authed", !.id = i])
    BY <1>6 DEF Authenticate, AuthenticateJid, Resolves
  <2>2. PICK r : r = [Idle EXCEPT !.at = "authed", !.id = i]
    OBVIOUS
  <2>3. r \in ClientRecord /\ r.at = "authed"
    BY <2>2, IdleIsRecord DEF ClientRecord, Stages, Live
  <2>4. users' = users
    BY <1>6 DEF Authenticate, AuthenticateJid, store
  <2>5. Becomes(c, r)
    BY <2>1, <2>2
  <2> QED
    BY <1>6, <1>s, <2>3, <2>4, <2>5, TurnFacts DEF Typed, Knows
<1>7. ASSUME NEW c \in Clients, SetLocale(c) \/ SetPassword(c)
      PROVE  FlightsOK'
  <2>1. Finishes(c)
    BY <1>7 DEF SetLocale, SetPassword
  <2>2. SameAccounts
    BY <1>0, <1>7, <1>s, UpdateSteps, UpdateFacts
  <2> QED
    BY <1>f, <2>1, <2>2
<1>8. ASSUME NEW c \in Clients, Status(c) \/ Logout(c) \/ UnmapJid(c)
      PROVE  FlightsOK'
  BY <1>8, <1>u DEF Status, Logout, UnmapJid, store
<1>9. ASSUME NEW c \in Clients, FindUser(c)
      PROVE  FlightsOK'
  <2>1. PICK i \in Live, at \in {"del", "passwd", "authed", "map"} :
          /\ users' = users
          /\ Becomes(c, [Idle EXCEPT !.at = at, !.id = i, !.admin = users[i].admin,
                                     !.of = users[i].gen])
    BY <1>9 DEF FindUser, Looks, Named, store
  <2>2. PICK r : r = [Idle EXCEPT !.at = at, !.id = i, !.admin = users[i].admin,
                                  !.of = users[i].gen]
    OBVIOUS
  <2>3. i \in Ids /\ users[i].gen \in 1..MaxBirths /\ users[i].admin \in BOOLEAN
    BY <1>0, AccountFacts DEF Account
  <2>4. /\ r \in ClientRecord /\ r.at = at /\ r.id = i /\ r.admin = users[i].admin
        /\ r.of = users[i].gen
    BY <2>2, <2>3, IdleIsRecord, BirthsFacts DEF ClientRecord, Stages
  <2>5. Typed(r) /\ Knows(r)
    BY <2>4 DEF Typed, Knows, Means
  <2> QED
    BY <1>s, <2>1, <2>2, <2>4, <2>5, KnowledgeKept, TurnFacts
<1>10. ASSUME NEW c \in Clients, UserAddCreate(c)
       PROVE  FlightsOK'
  <2> DEFINE n == client[c].name
  <2>1. /\ n \in Names /\ client[c].pass \in Passwords /\ client[c].admin \in BOOLEAN
        /\ Insert(n, client[c].pass, client[c].admin)
    BY <1>0, <1>10, <1>i DEF UserAddCreate, ReadsAreTyped, Typed, ClientRecord
  <2>2. SameAccounts /\ (InsertedId(n) # 0 => InsertedId(n) \in Ids)
    BY <1>0, <2>1, InsertFacts
  <2>3. CASE Finishes(c)
    BY <1>f, <2>2, <2>3
  <2>4. CASE ~Finishes(c)
    <3>1. PICK i \in Ids : Becomes(c, [Idle EXCEPT !.at = "authed", !.id = i])
      BY <1>10, <2>2, <2>4 DEF UserAddCreate
    <3>2. PICK r : r = [Idle EXCEPT !.at = "authed", !.id = i]
      OBVIOUS
    <3>3. r \in ClientRecord /\ r.at = "authed"
      BY <3>2, IdleIsRecord DEF ClientRecord, Stages
    <3>4. Typed(r) /\ Knows(r)'
      BY <3>3 DEF Typed, Knows
    <3> QED
      BY <2>2, <3>1, <3>2, <3>3, <3>4, TurnFacts
  <2> QED
    BY <2>3, <2>4
<1>11. ASSUME NEW c \in Clients, UserDelCheck(c)
       PROVE  FlightsOK'
  <2>1. SameAccounts
    BY <1>11, <1>s DEF UserDelCheck, store
  <2>2. CASE Finishes(c)
    BY <1>f, <2>1, <2>2
  <2>3. CASE ~Finishes(c)
    <3> DEFINE admins == {i \in Live : users[i].admin}
    <3>1. MayDelete(c) /\ Becomes(c, [client[c] EXCEPT !.at = "delete"])
      BY <1>11, <2>3 DEF UserDelCheck
    <3>2. IsFiniteSet(admins)
      <4>1. IsFiniteSet(Ids)
        BY FS_Interval, AccountsAssumption DEF Ids
      <4> QED
        BY <4>1, FS_Subset DEF Live
    <3>3. PICK r : r = [client[c] EXCEPT !.at = "delete"]
      OBVIOUS
    <3>4. /\ r \in ClientRecord /\ r.at = "delete" /\ r.id = client[c].id
          /\ r.admin = client[c].admin /\ r.raced = client[c].raced
      BY <1>i, <3>3 DEF ClientRecord, Stages
    <3>5. r.admin => Cardinality(admins) > 1
      BY <3>1, <3>4 DEF MayDelete
    <3>6. r.admin => \E i \in admins : i # r.id
      <4> HIDE DEF admins
      <4> QED
        BY <3>2, <3>5, AnotherMember
    <3>7. ~r.raced => r.id \in Live /\ users[r.id].admin = r.admin
      BY <1>0, <1>11, <3>4 DEF UserDelCheck, FlightsKnow, Knows
    <3>8. Typed(r) /\ (~r.raced => Knows(r))
      BY <3>4, <3>6, <3>7 DEF Typed, Knows
    <3> QED
      BY <2>1, <3>1, <3>3, <3>4, <3>8, KnowledgeKept, TurnFacts
  <2> QED
    BY <2>2, <2>3
<1>12. ASSUME NEW c \in Clients, DeleteUser(c)
       PROVE  FlightsOK'
  <2>1. client' = [d \in Clients |->
          IF d = c \/ client[d] = Idle THEN Idle ELSE [client[d] EXCEPT !.raced = TRUE]]
    BY <1>12 DEF DeleteUser
  <2>2. client' \in [Clients -> ClientRecord]
    <3>1. \A d \in Clients : [client[d] EXCEPT !.raced = TRUE] \in ClientRecord
      BY <1>i DEF ClientRecord
    <3> QED
      BY <2>1, <3>1, IdleIsRecord
  <2>3. ReadsAreTyped'
    <3>1. ASSUME NEW d \in Clients PROVE Typed([client[d] EXCEPT !.raced = TRUE])
      BY <1>0, <1>i DEF ReadsAreTyped, Typed, ClientRecord
    <3> QED
      BY <2>1, <3>1, IdleFacts DEF ReadsAreTyped, Typed
  <2>4. \A d \in Clients : client'[d].raced \/ client'[d] = Idle
    BY <1>i, <2>1 DEF ClientRecord
  <2>5. FlightsKnow'
    BY <2>4, IdleIsRecord DEF FlightsKnow, Knows
  <2> QED
    BY <2>2, <2>3, <2>5 DEF FlightsOK
<1>13. CASE Tick
  BY <1>13, <1>u DEF Tick, store
<1>14. CASE Restart
  <2>1. client' = [c \in Clients |-> Idle]
    BY <1>14 DEF Restart
  <2> QED
    BY <2>1, IdleIsRecord, IdleFacts DEF FlightsOK, ReadsAreTyped, FlightsKnow, Typed, Knows
<1> QED
  BY <1>u, <1>1, <1>2, <1>3, <1>4, <1>5, <1>6, <1>7, <1>8, <1>9, <1>10, <1>11, <1>12,
     <1>13, <1>14, <1>15 DEF Next, vars, store

(***************************************************************************)
(* What the server remembers: the throttle and the counters                *)
(***************************************************************************)
LEMMA ServerNext ==
  IInv /\ [Next]_vars => ServerOK'
<1> SUFFICES ASSUME IInv, [Next]_vars PROVE ServerOK'
  OBVIOUS
<1>0. TypeOK /\ ServerOK /\ ReadsAreTyped
  BY TypeHalves DEF IInv
<1>1. client' \in [Clients -> ClientRecord]
  BY FlightsNext DEF FlightsOK
<1>2. ASSUME Quiet, misshown' \in BOOLEAN PROVE ServerOK'
  BY <1>0, <1>1, <1>2 DEF Quiet, ServerOK
<1>3. ASSUME NEW c \in Clients, LoginFails(c) PROVE ServerOK'
  <2>1. client[c].name \in Names /\ AddressOf[c] \in Addresses
    BY <1>0, <1>3, AccountsAssumption DEF LoginFails, ReadsAreTyped, Typed
  <2>2. by_key \in Table /\ clock \in Nat
    BY <1>0, AccountsAssumption DEF ServerOK
  <2>3. Failed(by_key, AddressOf[c]) \in Table
    BY <2>1, <2>2, FailedIsTable DEF Keys
  <2>4. by_key' \in Table
    BY <1>3, <2>1, <2>2, <2>3, FailedIsTable DEF LoginFails, FailedBoth, Keys
  <2>5. guesses' \in [Names -> Nat]
    BY <1>0, <1>3, <2>1 DEF LoginFails, ServerOK
  <2> QED
    BY <1>0, <1>1, <1>3, <2>4, <2>5 DEF LoginFails, ServerOK
<1>4. ASSUME NEW c \in Clients, LoginSucceeds(c) PROVE ServerOK'
  <2>1. by_key' \in Table
    BY <1>0, <1>4 DEF LoginSucceeds, ServerOK, Table, NoEntry
  <2>2. guesses' \in [Names -> Nat]
    BY <1>0, <1>4 DEF LoginSucceeds, ServerOK
  <2> QED
    BY <1>0, <1>1, <1>4, <2>1, <2>2 DEF LoginSucceeds, ServerOK
<1>5. CASE Tick
  BY <1>0, <1>1, <1>5, AccountsAssumption DEF Tick, ServerOK
<1>6. CASE Restart
  <2>1. by_key' \in Table /\ guesses' \in [Names -> Nat]
    BY <1>6 DEF Restart, Table, NoEntry
  <2> QED
    BY <1>0, <1>1, <1>6, <2>1, AccountsAssumption DEF Restart, ServerOK
<1>7. CASE UNCHANGED vars
  BY <1>0, <1>2, <1>7 DEF vars, Quiet, ServerOK
<1>8. ASSUME NEW c \in Clients, Status(c) PROVE ServerOK'
  BY <1>0, <1>2, <1>8 DEF Status, ServerOK
<1>9. misshown \in BOOLEAN
  BY <1>0 DEF ServerOK
<1> QED
  BY <1>2, <1>3, <1>4, <1>5, <1>6, <1>7, <1>8, <1>9
     DEF Next, BootstrapCheck, BootstrapCreate, StartSession, LoginCheck, Verify,
         Authenticate, AuthenticateJid, SetLocale, Logout, FindUser, Looks, UserAdd,
         UserAddCreate, UserDelCheck, DeleteUser, SetPassword, MapJid, UnmapJid

(***************************************************************************)
(* The invariant, and what follows from it                                 *)
(***************************************************************************)
LEMMA InvariantInit == Init => IInv
<1> SUFFICES ASSUME Init PROVE IInv
  OBVIOUS
<1>1. TypeOK
  BY TypeInit
<1>2. CredentialsAreOwn
  BY DEF Init, CredentialsAreOwn, CredentialIsOwn
<1>3. ReadsAreTyped /\ FlightsKnow
  BY IdleIsRecord DEF Init, ReadsAreTyped, FlightsKnow, Typed, Knows
<1> QED
  BY <1>1, <1>2, <1>3 DEF IInv

LEMMA InvariantNext == IInv /\ [Next]_vars => IInv'
<1> SUFFICES ASSUME IInv, [Next]_vars PROVE IInv'
  OBVIOUS
<1>1. StoreOK' /\ CredentialsAreOwn'
  BY StoreNext
<1>2. ServerOK'
  BY ServerNext
<1>3. ReadsAreTyped' /\ FlightsKnow'
  BY FlightsNext DEF FlightsOK
<1>4. TypeOK'
  BY <1>1, <1>2 DEF TypeOK, StoreOK, ServerOK, Refer, Table
<1> QED
  BY <1>1, <1>3, <1>4 DEF IInv

LEMMA Invariant == Spec => []IInv
  BY InvariantInit, InvariantNext, PTL DEF Spec

(* The last administrator goes only when two deletions ran over each other.  *)
LEMMA LastAdminStep ==
  ASSUME IInv, [Next]_vars, AdminExists, ~AdminExists'
  PROVE  \E c \in Clients : client[c].at = "delete" /\ client[c].raced
<1>0. TypeOK /\ StoreOK /\ FlightsKnow /\ ReadsAreTyped
  BY TypeHalves DEF IInv
<1>1. PICK i \in Live : users[i].admin
  BY DEF AdminExists
<1>2. ~SameAccounts
  BY <1>1 DEF SameAccounts, AdminExists
<1>3. users' # users
  BY <1>2 DEF SameAccounts, Live
<1>4. ASSUME NEW c \in Clients, BootstrapCreate(c) PROVE FALSE
  <2>1. client[c].name \in Names /\ client[c].pass \in Passwords
    BY <1>0, <1>4 DEF BootstrapCreate, ReadsAreTyped, Typed
  <2> QED
    BY <1>0, <1>2, <1>4, <2>1, InsertFacts DEF BootstrapCreate
<1>5. ASSUME NEW c \in Clients, UserAddCreate(c) PROVE FALSE
  <2>1. /\ client[c].name \in Names /\ client[c].pass \in Passwords
        /\ client[c].admin \in BOOLEAN
    BY <1>0, <1>5, ClientFacts DEF UserAddCreate, ReadsAreTyped, Typed, ClientRecord
  <2> QED
    BY <1>0, <1>2, <1>5, <2>1, InsertFacts DEF UserAddCreate
<1>6. ASSUME NEW c \in Clients, SetLocale(c) \/ SetPassword(c) PROVE FALSE
  BY <1>0, <1>2, <1>3, <1>6, UpdateSteps, UpdateFacts
<1>7. PICK c \in Clients : DeleteUser(c)
  BY <1>3, <1>4, <1>5, <1>6
     DEF Next, vars, store, BootstrapCheck, StartSession, LoginCheck, Verify, LoginFails,
         LoginSucceeds, Authenticate, AuthenticateJid, Status, Logout, FindUser, Looks,
         UserAdd, UserDelCheck, MapJid, UnmapJid, Tick, Restart
<1>8. /\ client[c].at = "delete"
      /\ \A j \in Live : j # client[c].id => j \in Live' /\ users'[j] = users[j]
  BY <1>0, <1>7 DEF DeleteUser, StoreOK, Live
<1>9. \A j \in Live : users[j].admin => j = client[c].id
  BY <1>8 DEF AdminExists
<1>10. client[c].raced
  BY <1>0, <1>1, <1>8, <1>9 DEF FlightsKnow, Knows
<1> QED
  BY <1>8, <1>10

(***************************************************************************)
(* The wall in front of a username                                         *)
(***************************************************************************)

(* A burst of guesses is paid for: the delay after the last of them carries  *)
(* the lock past as many ticks as there were failures beyond the free ones.  *)
LEMMA DelayIsEnough ==
  ASSUME WallStandsOn, NEW f \in Nat, f >= FreeFailures, NEW t \in Nat,
         f <= FreeFailures - 1 + Cardinality(Clients) + t
  PROVE  f <= FreeFailures - 1 + t + Delay(f)
<1> DEFINE e == Lesser(f - FreeFailures, 8)
<1>1. FreeFailures \in Nat /\ MaxDelay \in Nat
  BY AccountsAssumption
<1>2. Cardinality(Clients) \in Nat /\ Cardinality(Clients) <= MaxDelay
      /\ Cardinality(Clients) <= 2^8
  <2>1. Cardinality(Clients) \in Nat
    BY FS_CardinalityType DEF WallStandsOn
  <2>2. 2^8 \in Nat
    OBVIOUS
  <2> QED
    BY <1>1, <2>1, <2>2 DEF WallStandsOn, Lesser
<1>3. e \in 0..8 /\ (e = 8 \/ e = f - FreeFailures)
  BY <1>1 DEF Lesser
<1>4. \A n \in 0..8 : 2^n \in Nat /\ 2^n >= n + 1
  <2>1. /\ 2^0 \in Nat /\ 2^1 \in Nat /\ 2^2 \in Nat /\ 2^3 \in Nat /\ 2^4 \in Nat
        /\ 2^5 \in Nat /\ 2^6 \in Nat /\ 2^7 \in Nat /\ 2^8 \in Nat
    OBVIOUS
  <2>2. /\ 2^0 >= 0 + 1 /\ 2^1 >= 1 + 1 /\ 2^2 >= 2 + 1 /\ 2^3 >= 3 + 1 /\ 2^4 >= 4 + 1
        /\ 2^5 >= 5 + 1 /\ 2^6 >= 6 + 1 /\ 2^7 >= 7 + 1 /\ 2^8 >= 8 + 1
    OBVIOUS
  <2>3. \A n \in 0..8 : n \in {0, 1, 2, 3, 4, 5, 6, 7, 8}
    OBVIOUS
  <2> QED
    BY <2>1, <2>2, <2>3, Zenon
<1>5. Delay(f) = Lesser(MaxDelay, 2^e)
  BY DEF Delay
<1> HIDE DEF e
<1>6. PICK p \in Nat : p = 2^e /\ p >= e + 1 /\ (e = 8 => p >= Cardinality(Clients))
  BY <1>2, <1>3, <1>4
<1>7. Delay(f) \in Nat /\ (Delay(f) = MaxDelay \/ Delay(f) = p)
  BY <1>1, <1>5, <1>6 DEF Lesser
<1> QED
  BY <1>1, <1>2, <1>3, <1>6, <1>7

(* A full table loses an address: its keys come before the usernames, and    *)
(* the usernames alone do not fill it.                                       *)
LEMMA BoundedKeepsNames ==
  ASSUME WallStandsOn, NEW table \in Table, NEW n \in Names
  PROVE  Bounded(table)[n] = table[n]
<1> DEFINE P == Present(table)
           IsFirst(k) == \A j \in P : KeyRank[k] <= KeyRank[j]
           first == CHOOSE k \in P : IsFirst(k)
<1>1. SUFFICES ASSUME ~(Cardinality(P) <= MaxKeys),
                      Bounded(table) = [table EXCEPT ![first] = NoEntry]
               PROVE  first # n
  <2>1. CASE Cardinality(P) <= MaxKeys
    BY <2>1 DEF Bounded
  <2>2. CASE ~(Cardinality(P) <= MaxKeys)
    <3>1. Bounded(table) = [table EXCEPT ![first] = NoEntry]
      BY <2>2 DEF Bounded
    <3>2. first # n => Bounded(table)[n] = table[n]
      <4> HIDE DEF first
      <4> QED
        BY <3>1 DEF Table, Keys
    <3> HIDE DEF first, P
    <3> QED
      BY <2>2, <3>1, <3>2
  <2> QED
    BY <2>1, <2>2
<1>2. P \subseteq Keys
  BY DEF Present
<1>3. PICK a \in P : a \in Addresses
  <2>1. SUFFICES ASSUME P \subseteq Names PROVE FALSE
    BY <1>2 DEF Keys
  <2>2. /\ IsFiniteSet(P) /\ Cardinality(P) \in Nat
        /\ Cardinality(P) <= Cardinality(Names) /\ Cardinality(Names) \in Nat
    <3> HIDE DEF P
    <3> QED
      BY <2>1, FS_Subset, FS_CardinalityType DEF WallStandsOn
  <2> QED
    BY <1>1, <2>2, AccountsAssumption DEF WallStandsOn
<1>4. \A k \in Keys : KeyRank[k] \in Nat
  BY AccountsAssumption
<1>5. PICK k \in P : IsFirst(k)
  <2> DEFINE R == {KeyRank[j] : j \in P}
  <2>1. R \subseteq Nat /\ R # {}
    BY <1>2, <1>3, <1>4
  <2>2. PICK r \in R : \A m \in R : r <= m
    <3> HIDE DEF R
    <3> QED
      BY <2>1, LeastOf
  <2> QED
    BY <2>2
<1>6. first \in P /\ IsFirst(first)
  <2> HIDE DEF P, IsFirst
  <2> QED
    BY <1>5
<1>7. KeyRank[first] <= KeyRank[a] /\ KeyRank[a] < KeyRank[n] /\ KeyRank[first] \in Nat
      /\ KeyRank[a] \in Nat /\ KeyRank[n] \in Nat
  <2>1. n \in Keys /\ a \in Keys /\ first \in Keys
    BY <1>2, <1>3, <1>6 DEF Keys
  <2>2. KeyRank[a] < KeyRank[n]
    BY <1>3, AccountsAssumption
  <2> QED
    BY <1>3, <1>4, <1>6, <2>1, <2>2
<1> HIDE DEF first, P, IsFirst
<1> QED
  BY <1>7

(* What a failure leaves at a username.                                      *)
LEMMA FailedAtName ==
  ASSUME WallStandsOn, clock \in Nat, NEW table \in Table, NEW k \in Keys, NEW n \in Names
  PROVE  /\ k # n => Failed(table, k)[n] = table[n]
         /\ k = n => /\ Failed(table, k)[n].failures = table[n].failures + 1
                     /\ table[n].failures + 1 >= FreeFailures =>
                          Failed(table, k)[n].locked_until =
                            clock + Delay(table[n].failures + 1)
<1> DEFINE f == table[k].failures + 1
           lock == IF f >= FreeFailures THEN clock + Delay(f) ELSE table[k].locked_until
           more == [table EXCEPT ![k] = [failures |-> f, locked_until |-> lock]]
<1>1. f \in Nat /\ lock \in Nat
  BY DelayIsNat, AccountsAssumption DEF Table
<1>2. n \in Keys
  BY DEF Keys
<1>3. /\ k # n => more[n] = table[n]
      /\ k = n => more[n].failures = f /\ more[n].locked_until = lock
  <2> HIDE DEF f, lock
  <2> QED
    BY <1>2 DEF Table
<1>4. more \in Table
  <2> HIDE DEF f, lock
  <2> QED
    BY <1>1 DEF Table
<1>5. Failed(table, k) = Bounded(more)
  BY DEF Failed
<1>6. Bounded(more)[n] = more[n]
  <2> HIDE DEF more
  <2> QED
    BY <1>4, BoundedKeepsNames
<1> HIDE DEF more
<1> QED
  BY <1>3, <1>5, <1>6

(* The guesses at a username that are in flight.                             *)
InFlight == {"guess", "proved", "refuse"}
Guessing(n) == {c \in Clients : client[c].at \in InFlight /\ client[c].name = n}

(* Guesses counted and guesses locked out for go together; those counted and *)
(* those in flight stay under the wall; and once the free failures are used  *)
(* up, no new guess starts before the lock has caught up with the count.     *)
WallAt(n) ==
  /\ guesses[n] = by_key[n].failures
  /\ by_key[n].failures + Cardinality(Guessing(n))
       <= FreeFailures - 1 + Cardinality(Clients) + clock
  /\ by_key[n].failures >= FreeFailures =>
       by_key[n].failures <= FreeFailures - 1 + by_key[n].locked_until
WallInv == \A n \in Names : WallAt(n)

LEMMA WallInit ==
  ASSUME WallStandsOn, Init
  PROVE  WallInv
<1>1. \A c \in Clients : client[c] = Idle
  BY DEF Init
<1>2. ASSUME NEW n \in Names PROVE WallAt(n)
  <2>1. n \in Keys
    BY DEF Keys
  <2>2. guesses[n] = 0 /\ by_key[n] = NoEntry /\ clock = 0
    BY <2>1 DEF Init
  <2>3. Guessing(n) = {}
    BY <1>1 DEF Guessing, InFlight, Idle
  <2>4. Cardinality(Guessing(n)) = 0
    BY <2>3, FS_EmptySet
  <2>5. Cardinality(Clients) \in Nat
    BY FS_CardinalityType DEF WallStandsOn
  <2> QED
    BY <2>2, <2>4, <2>5, AccountsAssumption DEF WallAt, NoEntry
<1> QED
  BY <1>2 DEF WallInv

(* What the wall's conjuncts are numbers of.                                 *)
LEMMA WallFacts ==
  ASSUME WallStandsOn, TypeOK, NEW n \in Names
  PROVE  /\ n \in Keys
         /\ by_key[n].failures \in Nat /\ by_key[n].locked_until \in Nat
         /\ guesses[n] \in Nat /\ clock \in Nat /\ FreeFailures \in Nat \ {0}
         /\ Guessing(n) \subseteq Clients /\ IsFiniteSet(Guessing(n))
         /\ Cardinality(Guessing(n)) \in Nat /\ Cardinality(Clients) \in Nat
         /\ Cardinality(Guessing(n)) <= Cardinality(Clients)
<1>1. n \in Keys
  BY DEF Keys
<1>2. Guessing(n) \subseteq Clients
  BY DEF Guessing
<1>3. /\ IsFiniteSet(Guessing(n)) /\ Cardinality(Guessing(n)) \in Nat
      /\ Cardinality(Clients) \in Nat /\ Cardinality(Guessing(n)) <= Cardinality(Clients)
  BY <1>2, FS_Subset, FS_CardinalityType DEF WallStandsOn
<1> QED
  BY <1>1, <1>2, <1>3, AccountsAssumption DEF TypeOK

(* A step that starts no guess at n, leaves its lock alone and does not turn *)
(* the clock back keeps the wall.                                            *)
LEMMA WallKept ==
  ASSUME WallStandsOn, TypeOK, TypeOK', NEW n \in Names, WallAt(n),
         by_key'[n] = by_key[n], guesses'[n] = guesses[n], clock' >= clock,
         Guessing(n)' \subseteq Guessing(n)
  PROVE  WallAt(n)'
<1>1. Cardinality(Guessing(n)') \in Nat /\ Cardinality(Guessing(n)') <= Cardinality(Guessing(n))
  BY WallFacts, FS_Subset, FS_CardinalityType
<1>2. clock' \in Nat
  BY AccountsAssumption DEF TypeOK
<1> QED
  BY <1>1, <1>2, WallFacts DEF WallAt

(* A client's own step that ends outside a guess, or goes on with one.       *)
LEMMA NoNewGuess ==
  ASSUME TypeOK, NEW n \in Names, NEW c \in Clients, NEW r, Becomes(c, r),
         r.at \in InFlight => client[c].at \in InFlight /\ client[c].name = r.name
  PROVE  Guessing(n)' \subseteq Guessing(n)
<1>1. client'[c] = r /\ \A d \in Clients : d # c => client'[d] = client[d]
  BY DEF TypeOK, Becomes
<1> QED
  BY <1>1 DEF Guessing

(* The steps that are no part of signing in.                                 *)
LEMMA NoNewGuessNext ==
  ASSUME IInv, NEW n \in Names, [Next]_vars,
         \A c \in Clients : ~LoginCheck(c)
  PROVE  Guessing(n)' \subseteq Guessing(n)
<1>0. TypeOK /\ \A c \in Clients : client[c] \in ClientRecord
  BY DEF IInv, TypeOK
<1>f. ASSUME NEW c \in Clients, Finishes(c) PROVE Guessing(n)' \subseteq Guessing(n)
  BY <1>0, <1>f, NoNewGuess DEF Finishes, Idle, InFlight
<1>u. ASSUME UNCHANGED client PROVE Guessing(n)' \subseteq Guessing(n)
  BY <1>u DEF Guessing
<1>r. ASSUME NEW c \in Clients, NEW r, Becomes(c, r), r.at \notin InFlight
      PROVE  Guessing(n)' \subseteq Guessing(n)
  BY <1>0, <1>r, NoNewGuess
<1>1. ASSUME NEW c \in Clients, BootstrapCheck(c)
      PROVE  Guessing(n)' \subseteq Guessing(n)
  <2>1. PICK m \in Names, p \in Passwords :
          Becomes(c, [Idle EXCEPT !.at = "boot", !.name = m, !.pass = p])
    BY <1>1 DEF BootstrapCheck
  <2> QED
    BY <1>r, <2>1 DEF Idle, InFlight
<1>2. ASSUME NEW c \in Clients, BootstrapCreate(c)
      PROVE  Guessing(n)' \subseteq Guessing(n)
  <2>1. CASE Finishes(c)
    BY <1>f, <2>1
  <2>2. CASE ~Finishes(c)
    <3>1. PICK r : /\ Becomes(c, r)
                   /\ r = [client[c] EXCEPT !.at = "session",
                                            !.id = InsertedId(client[c].name),
                                            !.of = births + 1]
      BY <1>2, <2>2 DEF BootstrapCreate
    <3>2. r.at = "session"
      BY <1>0, <3>1 DEF ClientRecord
    <3> QED
      BY <1>r, <3>1, <3>2 DEF InFlight
  <2> QED
    BY <2>1, <2>2
<1>3. ASSUME NEW c \in Clients,
             \/ StartSession(c) \/ LoginFails(c) \/ SetLocale(c) \/ SetPassword(c)
             \/ MapJid(c)
      PROVE  Guessing(n)' \subseteq Guessing(n)
  BY <1>f, <1>3 DEF StartSession, LoginFails, SetLocale, SetPassword, MapJid
<1>4. ASSUME NEW c \in Clients, Status(c) \/ Logout(c) \/ UnmapJid(c)
      PROVE  Guessing(n)' \subseteq Guessing(n)
  BY <1>u, <1>4 DEF Status, Logout, UnmapJid
<1>5. ASSUME NEW c \in Clients, Verify(c)
      PROVE  Guessing(n)' \subseteq Guessing(n)
  <2>1. client[c].at = "guess" /\ client[c] \in ClientRecord
    BY <1>0, <1>5 DEF Verify
  <2>2. PICK r : Becomes(c, r) /\ r.name = client[c].name
    <3>1. CASE Becomes(c, [client[c] EXCEPT !.at = "refuse"])
      <4>1. [client[c] EXCEPT !.at = "refuse"].name = client[c].name
        BY <2>1 DEF ClientRecord
      <4> QED
        BY <3>1, <4>1
    <3>2. CASE ~Becomes(c, [client[c] EXCEPT !.at = "refuse"])
      <4>1. PICK i \in Live :
              Becomes(c, [client[c] EXCEPT !.at = "proved", !.of = users[i].gen])
        BY <1>5, <3>2 DEF Verify, Named
      <4>2. [client[c] EXCEPT !.at = "proved", !.of = users[i].gen].name = client[c].name
        BY <2>1 DEF ClientRecord
      <4> QED
        BY <4>1, <4>2
    <3> QED
      BY <3>1, <3>2
  <2> QED
    BY <1>0, <2>1, <2>2, NoNewGuess DEF InFlight
<1>6. ASSUME NEW c \in Clients, LoginSucceeds(c)
      PROVE  Guessing(n)' \subseteq Guessing(n)
  <2>1. PICK i \in Live : Becomes(c, [client[c] EXCEPT !.at = "session", !.id = i])
    BY <1>6 DEF LoginSucceeds, Named
  <2>2. [client[c] EXCEPT !.at = "session", !.id = i].at = "session"
    BY <1>0 DEF ClientRecord
  <2> QED
    BY <1>r, <2>1, <2>2 DEF InFlight
<1>7. ASSUME NEW c \in Clients, Authenticate(c) \/ AuthenticateJid(c)
      PROVE  Guessing(n)' \subseteq Guessing(n)
  <2>1. PICK id : Becomes(c, [Idle EXCEPT !.at = "authed", !.id = id])
    BY <1>7 DEF Authenticate, AuthenticateJid
  <2> QED
    BY <1>r, <2>1 DEF Idle, InFlight
<1>8. ASSUME NEW c \in Clients, FindUser(c)
      PROVE  Guessing(n)' \subseteq Guessing(n)
  <2>l. ASSUME NEW task, NEW i, NEW at \in {"del", "passwd", "authed", "map"},
               Looks(c, task, i, at)
        PROVE  Guessing(n)' \subseteq Guessing(n)
    <3>1. PICK r : r = [Idle EXCEPT !.at = at, !.id = i, !.admin = users[i].admin,
                                    !.of = users[i].gen]
      OBVIOUS
    <3>2. Becomes(c, r) /\ r.at \notin InFlight
      BY <2>l, <3>1 DEF Looks, Idle, InFlight
    <3> QED
      BY <1>r, <3>2
  <2>1. PICK i \in Ids : \/ Looks(c, "userdel", i, "del")
                         \/ Looks(c, "passwd", i, "passwd")
                         \/ Looks(c, "locale", i, "authed")
                         \/ Looks(c, "jid_map", i, "map")
    BY <1>8 DEF FindUser, Named, Live
  <2> QED
    BY <2>1, <2>l
<1>9. ASSUME NEW c \in Clients, UserAdd(c)
      PROVE  Guessing(n)' \subseteq Guessing(n)
  <2>1. PICK m \in Names, p \in Passwords, admin \in BOOLEAN :
          Becomes(c, [Idle EXCEPT !.at = "add", !.name = m, !.pass = p, !.admin = admin])
    BY <1>9 DEF UserAdd
  <2> QED
    BY <1>r, <2>1 DEF Idle, InFlight
<1>10. ASSUME NEW c \in Clients, UserAddCreate(c)
       PROVE  Guessing(n)' \subseteq Guessing(n)
  <2>1. \/ Finishes(c)
        \/ \E id : Becomes(c, [Idle EXCEPT !.at = "authed", !.id = id])
    BY <1>10 DEF UserAddCreate
  <2> QED
    BY <1>f, <1>r, <2>1 DEF Idle, InFlight
<1>11. ASSUME NEW c \in Clients, UserDelCheck(c)
       PROVE  Guessing(n)' \subseteq Guessing(n)
  <2>1. \/ Finishes(c)
        \/ Becomes(c, [client[c] EXCEPT !.at = "delete"])
    BY <1>11 DEF UserDelCheck
  <2>2. [client[c] EXCEPT !.at = "delete"].at = "delete"
    BY <1>0 DEF ClientRecord
  <2> QED
    BY <1>f, <1>r, <2>1, <2>2 DEF InFlight
<1>12. ASSUME NEW c \in Clients, DeleteUser(c)
       PROVE  Guessing(n)' \subseteq Guessing(n)
  <2>1. ASSUME NEW d \in Clients
        PROVE  /\ client'[d].at \in InFlight =>
                    client'[d].at = client[d].at /\ client'[d].name = client[d].name
    <3>1. client'[d] = IF d = c \/ client[d] = Idle THEN Idle
                       ELSE [client[d] EXCEPT !.raced = TRUE]
      BY <1>12 DEF DeleteUser
    <3> QED
      BY <1>0, <3>1 DEF ClientRecord, Idle, InFlight
  <2> QED
    BY <2>1 DEF Guessing
<1>13. ASSUME Tick \/ UNCHANGED vars PROVE Guessing(n)' \subseteq Guessing(n)
  BY <1>u, <1>13 DEF Tick, vars
<1>14. ASSUME Restart PROVE Guessing(n)' \subseteq Guessing(n)
  BY <1>14 DEF Restart, Guessing, Idle, InFlight
<1> QED
  BY <1>1, <1>2, <1>3, <1>4, <1>5, <1>6, <1>7, <1>8, <1>9, <1>10, <1>11, <1>12, <1>13,
     <1>14 DEF Next

(* Who touches the throttle and the count of guesses.                        *)
LEMMA ThrottleSteps ==
  ASSUME IInv, [Next]_vars
  PROVE  \/ by_key' = by_key /\ guesses' = guesses /\ clock' >= clock
         \/ \E c \in Clients : LoginFails(c) \/ LoginSucceeds(c)
         \/ Restart
<1>1. clock \in Int
  BY AccountsAssumption DEF IInv, TypeOK
<1>2. CASE Tick \/ UNCHANGED vars
  BY <1>1, <1>2 DEF Tick, vars
<1>q. ASSUME Quiet PROVE by_key' = by_key /\ guesses' = guesses /\ clock' >= clock
  BY <1>1, <1>q DEF Quiet
<1>3. ASSUME NEW c \in Clients,
             \/ BootstrapCheck(c) \/ BootstrapCreate(c) \/ StartSession(c)
             \/ LoginCheck(c) \/ Verify(c) \/ Authenticate(c) \/ AuthenticateJid(c)
             \/ SetLocale(c) \/ Status(c) \/ Logout(c)
      PROVE  Quiet
  BY <1>3 DEF BootstrapCheck, BootstrapCreate, StartSession, LoginCheck, Verify,
              Authenticate, AuthenticateJid, SetLocale, Status, Logout
<1>4. ASSUME NEW c \in Clients,
             \/ FindUser(c) \/ UserAdd(c) \/ UserAddCreate(c) \/ UserDelCheck(c)
             \/ DeleteUser(c) \/ SetPassword(c) \/ MapJid(c) \/ UnmapJid(c)
      PROVE  Quiet
  BY <1>4 DEF FindUser, Looks, UserAdd, UserAddCreate, UserDelCheck, DeleteUser,
              SetPassword, MapJid, UnmapJid
<1> QED
  BY <1>2, <1>3, <1>4, <1>q DEF Next

(* A check that lets a guess start finds fewer in flight than clients, and   *)
(* the lock behind it.                                                       *)
LEMMA WallLoginCheck ==
  ASSUME WallStandsOn, IInv, TypeOK', NEW n \in Names, WallAt(n), NEW c \in Clients,
         LoginCheck(c)
  PROVE  WallAt(n)'
<1>1. PICK m \in Names, p \in Passwords :
        /\ ~Blocked(m)
        /\ Becomes(c, [Idle EXCEPT !.at = "guess", !.name = m, !.pass = p])
  BY DEF LoginCheck
<1>2. UNCHANGED <<by_key, clock, guesses>>
  BY DEF LoginCheck, Quiet
<1>3. TypeOK /\ client[c] = Idle
  BY DEF IInv, LoginCheck, Starts
<1>4. PICK r : r = [Idle EXCEPT !.at = "guess", !.name = m, !.pass = p]
  OBVIOUS
<1>5. r.at = "guess" /\ r.name = m
  BY <1>4 DEF Idle
<1>6. CASE m # n
  <2>1. Guessing(n)' \subseteq Guessing(n)
    <3>1. client'[c] = r /\ \A d \in Clients : d # c => client'[d] = client[d]
      BY <1>1, <1>3, <1>4 DEF TypeOK, Becomes
    <3> QED
      BY <1>5, <1>6, <3>1 DEF Guessing
  <2> QED
    BY <1>2, <1>3, <2>1, WallFacts, WallKept
<1>7. CASE m = n
  <2>1. client'[c] = r /\ \A d \in Clients : d # c => client'[d] = client[d]
    BY <1>1, <1>3, <1>4 DEF TypeOK, Becomes
  <2>2. c \notin Guessing(n)
    BY <1>3 DEF Guessing, Idle, InFlight
  <2>3. Guessing(n)' = Guessing(n) \cup {c}
    BY <1>5, <1>7, <2>1 DEF Guessing, InFlight
  <2>4. Cardinality(Guessing(n)') = Cardinality(Guessing(n)) + 1
    BY <1>3, <2>2, <2>3, WallFacts, FS_AddElement
  <2>5. Cardinality(Guessing(n)') <= Cardinality(Clients)
    BY <1>3, <2>3, WallFacts, FS_Subset DEF WallStandsOn
  <2>6. by_key[n].locked_until <= clock
    BY <1>1, <1>3, <1>7, WallFacts DEF Blocked
  <2> QED
    BY <1>2, <1>3, <2>4, <2>5, <2>6, WallFacts DEF WallAt
<1> QED
  BY <1>6, <1>7

(* A refused guess moves from those in flight to those counted, and locks.   *)
LEMMA WallLoginFails ==
  ASSUME WallStandsOn, IInv, TypeOK', NEW n \in Names, WallAt(n), NEW c \in Clients,
         LoginFails(c), Guessing(n)' \subseteq Guessing(n)
  PROVE  WallAt(n)'
<1>1. PICK m : m = client[c].name
  OBVIOUS
<1>2. PICK a : a = AddressOf[c]
  OBVIOUS
<1>3. TypeOK /\ m \in Names /\ client[c].at \in InFlight
  BY <1>1 DEF IInv, LoginFails, ReadsAreTyped, Typed, InFlight
<1>4. a \in Addresses /\ a \in Keys /\ a # n /\ m \in Keys /\ n \in Keys
  BY <1>2, <1>3, AccountsAssumption DEF Keys
<1>5. PICK table : table = Failed(by_key, a)
  OBVIOUS
<1>6. by_key \in Table /\ clock \in Nat
  BY <1>3, AccountsAssumption DEF TypeOK, Table
<1>7. table \in Table /\ table[n] = by_key[n]
  BY <1>4, <1>5, <1>6, FailedIsTable, FailedAtName
<1>8. by_key' = Failed(table, m) /\ guesses' = [guesses EXCEPT ![m] = @ + 1]
      /\ clock' = clock
  BY <1>1, <1>2, <1>5 DEF LoginFails, FailedBoth
<1>9. CASE m # n
  <2>1. by_key'[n] = by_key[n]
    BY <1>4, <1>6, <1>7, <1>8, <1>9, FailedAtName
  <2>2. guesses'[n] = guesses[n]
    BY <1>3, <1>8, <1>9 DEF TypeOK
  <2> QED
    BY <1>3, <1>6, <1>8, <2>1, <2>2, WallKept
<1>10. CASE m = n
  <2>1. PICK f : f = by_key[n].failures + 1
    OBVIOUS
  <2>2. /\ by_key'[n].failures = f
        /\ f >= FreeFailures => by_key'[n].locked_until = clock + Delay(f)
    BY <1>4, <1>6, <1>7, <1>8, <1>10, <2>1, FailedAtName
  <2>3. guesses'[n] = guesses[n] + 1
    BY <1>3, <1>8, <1>10 DEF TypeOK
  <2>4. c \in Guessing(n)
    BY <1>1, <1>3, <1>10 DEF Guessing
  <2>5. c \notin Guessing(n)'
    <3>1. client'[c] = Idle
      BY <1>3 DEF LoginFails, Finishes, Becomes, TypeOK
    <3> QED
      BY <3>1 DEF Guessing, Idle, InFlight
  <2>6. Cardinality(Guessing(n)') + 1 <= Cardinality(Guessing(n))
        /\ Cardinality(Guessing(n)') \in Nat
    <3>1. Guessing(n)' \subseteq Guessing(n) \ {c}
      BY <2>4, <2>5
    <3>2. IsFiniteSet(Guessing(n) \ {c})
          /\ Cardinality(Guessing(n) \ {c}) = Cardinality(Guessing(n)) - 1
      BY <1>3, <2>4, WallFacts, FS_RemoveElement
    <3>3. Cardinality(Guessing(n)') <= Cardinality(Guessing(n) \ {c})
          /\ Cardinality(Guessing(n)') \in Nat
      BY <3>1, <3>2, FS_Subset, FS_CardinalityType
    <3> QED
      BY <1>3, <3>2, <3>3, WallFacts
  <2>7. f \in Nat /\ f <= FreeFailures - 1 + Cardinality(Clients) + clock
    BY <1>3, <2>1, <2>6, WallFacts DEF WallAt
  <2>8. f >= FreeFailures => f <= FreeFailures - 1 + clock + Delay(f)
    BY <1>6, <2>7, DelayIsEnough
  <2>9. f >= FreeFailures => Delay(f) \in Nat
    BY <2>7, DelayIsNat
  <2>10. guesses'[n] = by_key'[n].failures
    BY <2>1, <2>2, <2>3 DEF WallAt
  <2>11. by_key'[n].failures + Cardinality(Guessing(n)')
           <= FreeFailures - 1 + Cardinality(Clients) + clock'
    BY <1>3, <1>8, <2>1, <2>2, <2>6, WallFacts DEF WallAt
  <2>12. by_key'[n].failures >= FreeFailures =>
           by_key'[n].failures <= FreeFailures - 1 + by_key'[n].locked_until
    BY <1>3, <2>2, <2>7, <2>8, <2>9, WallFacts
  <2> QED
    BY <2>10, <2>11, <2>12 DEF WallAt
<1> QED
  BY <1>9, <1>10

(* The right password, and a restart, take the count back to nothing; the    *)
(* guesses still in flight are no more than there are clients.               *)
LEMMA WallCleared ==
  ASSUME WallStandsOn, TypeOK, TypeOK', NEW n \in Names, clock' = clock,
         by_key'[n] = NoEntry, guesses'[n] = 0, Guessing(n)' \subseteq Guessing(n)
  PROVE  WallAt(n)'
<1>1. Cardinality(Guessing(n)') \in Nat /\ Cardinality(Guessing(n)') <= Cardinality(Guessing(n))
  BY WallFacts, FS_Subset, FS_CardinalityType
<1> QED
  BY <1>1, WallFacts DEF WallAt, NoEntry

LEMMA WallLoginSucceeds ==
  ASSUME WallStandsOn, IInv, TypeOK', NEW n \in Names, WallAt(n), NEW c \in Clients,
         LoginSucceeds(c), Guessing(n)' \subseteq Guessing(n)
  PROVE  WallAt(n)'
<1>1. PICK m : m = client[c].name
  OBVIOUS
<1>2. PICK a : a = AddressOf[c]
  OBVIOUS
<1>3. TypeOK /\ a \in Addresses /\ a # n /\ n \in Keys /\ clock \in Nat
  <2>1. TypeOK
    BY DEF IInv
  <2>2. a \in Addresses /\ a # n /\ n \in Keys
    BY <1>2, AccountsAssumption DEF Keys
  <2> QED
    BY <2>1, <2>2, WallFacts
<1>4. /\ by_key' = [by_key EXCEPT ![a] = NoEntry, ![m] = NoEntry]
      /\ guesses' = [guesses EXCEPT ![m] = 0] /\ clock' = clock
  BY <1>1, <1>2 DEF LoginSucceeds
<1>5. CASE m = n
  <2>1. by_key'[n] = NoEntry /\ guesses'[n] = 0
    BY <1>3, <1>4, <1>5 DEF TypeOK
  <2> QED
    BY <1>3, <1>4, <2>1, WallCleared
<1>6. CASE m # n
  <2>1. by_key'[n] = by_key[n] /\ guesses'[n] = guesses[n]
    BY <1>3, <1>4, <1>6 DEF TypeOK
  <2>2. clock' >= clock
    BY <1>3, <1>4
  <2> QED
    BY <1>3, <2>1, <2>2, WallKept
<1> QED
  BY <1>5, <1>6

LEMMA WallNext ==
  ASSUME WallStandsOn, IInv, IInv', WallInv, [Next]_vars
  PROVE  WallInv'
<1>0. TypeOK /\ TypeOK'
  BY DEF IInv
<1> SUFFICES ASSUME NEW n \in Names PROVE WallAt(n)'
  BY DEF WallInv
<1>1. WallAt(n)
  BY DEF WallInv
<1>2. CASE \E c \in Clients : LoginCheck(c)
  BY <1>0, <1>1, <1>2, WallLoginCheck
<1>3. CASE \A c \in Clients : ~LoginCheck(c)
  <2>1. Guessing(n)' \subseteq Guessing(n)
    BY <1>3, NoNewGuessNext
  <2>2. CASE by_key' = by_key /\ guesses' = guesses /\ clock' >= clock
    BY <1>0, <1>1, <2>1, <2>2, WallKept
  <2>3. ASSUME NEW c \in Clients, LoginFails(c) PROVE WallAt(n)'
    BY <1>0, <1>1, <2>1, <2>3, WallLoginFails
  <2>4. ASSUME NEW c \in Clients, LoginSucceeds(c) PROVE WallAt(n)'
    BY <1>0, <1>1, <2>1, <2>4, WallLoginSucceeds
  <2>5. CASE Restart
    <3>1. by_key'[n] = NoEntry /\ guesses'[n] = 0 /\ clock' = clock
      BY <1>0, <2>5, WallFacts DEF Restart, Keys
    <3> QED
      BY <1>0, <2>1, <3>1, WallCleared
  <2> QED
    BY <2>2, <2>3, <2>4, <2>5, ThrottleSteps
<1> QED
  BY <1>2, <1>3

(* The tables hold rows of their types, a username names one account, and no *)
(* credential points at a row that is not there, whatever clients, commands, *)
(* clock and restarts do: UserStore's UNIQUE and REFERENCES clauses.         *)
THEOREM TypeCorrect == Spec => []TypeOK
<1>1. IInv => TypeOK
  BY DEF IInv
<1> QED
  BY <1>1, Invariant, PTL

(* A token and a mapped WhatsApp number stand for the very account they were *)
(* given out for (create_token, map_jid and ON DELETE CASCADE), even though  *)
(* ids and usernames come back: only a flight that saw a deletion is exempt. *)
THEOREM CredentialsHold == Spec => []CredentialsAreOwn
<1>1. IInv => CredentialsAreOwn
  BY DEF IInv
<1> QED
  BY <1>1, Invariant, PTL

(* cmd_userdel keeps an administrator: the last one is deleted only by a     *)
(* command whose count another deletion overtook.                            *)
THEOREM LastAdminHolds == Spec => LastAdminStays
<1>1. IInv /\ [Next]_vars =>
        [AdminExists /\ ~AdminExists' =>
           \E c \in Clients : client[c].at = "delete" /\ client[c].raced]_vars
  BY LastAdminStep
<1> QED
  BY <1>1, Invariant, PTL DEF Spec, LastAdminStays

(* Every throttled sign-in (api.cpp, POST /api/login): however the guesses of *)
(* several addresses, sign-ins with the right password, evictions from the    *)
(* table and restarts interleave, a username is guessed at no more often than *)
(* free failures, threads and elapsed time allow, when the longest delay      *)
(* outlasts the threads and the table holds the usernames.                    *)
THEOREM UsernameWallHolds ==
  ASSUME WallStandsOn
  PROVE  Spec => []UsernameWall
<1>1. Init => WallInv
  BY WallInit
<1>2. IInv /\ IInv' /\ WallInv /\ [Next]_vars => WallInv'
  BY WallNext
<1>3. IInv /\ WallInv => UsernameWall
  <2> SUFFICES ASSUME IInv, WallInv, NEW n \in Names
               PROVE  guesses[n] <= FreeFailures + Cardinality(Clients) - 1 + clock
    BY DEF UsernameWall
  <2>1. TypeOK /\ WallAt(n)
    BY DEF IInv, WallInv
  <2> QED
    BY <2>1, WallFacts DEF WallAt
<1> QED
  BY <1>1, <1>2, <1>3, Invariant, PTL DEF Spec
=============================================================================
