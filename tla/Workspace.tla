------------------------------ MODULE Workspace ------------------------------
(***************************************************************************)
(* The users' files: which directory a request works in and how a path is  *)
(* confined to it (src/core/tools/fs_guard.cpp), the file tools of a run    *)
(* (file_tools.cpp), the file and upload routes of src/server/api.cpp, and *)
(* the one-time move of an older installation's shared workspace into the  *)
(* administrator's directory (migrate_workspace_to_per_user of             *)
(* src/server/main.cpp).                                                   *)
(*                                                                         *)
(* A path is the sequence of its names below the workspace root.  Contents *)
(* are numbered in the order they were written, which is history: the code *)
(* knows only bytes.  Symbolic links are left out.                         *)
(***************************************************************************)
EXTENDS Integers, Sequences, FiniteSets, SequencesExt

CONSTANTS
  Names,            (* of files and directories                            *)
  Admin, Members,   (* accounts: the names of their directories            *)
  Slots,            (* request threads                                     *)
  Legacy,           (* sequence: files of a workspace before the accounts   *)
  Given,            (* the paths requests ask for                          *)
  Batches,          (* uploads: a folder's name and the names put into it  *)
  Workloads,        (* what may happen together                            *)
  Nothing,
  (* bounds *)
  MaxWrites, MaxRestarts

Users == {Admin} \cup Members
Ops == {"write", "upload", "batch", "delete", "read"}
Modes == {"plain", "append", "overwrite"}
Starting == "legacy"   (* the author of what was there before the accounts *)
Above(p) == {SubSeq(p, 1, n) : n \in 1..(Len(p) - 1)}

ASSUME WorkspaceAssumption ==
  /\ Admin \notin Members /\ Users \subseteq Names /\ Starting \notin Users
  /\ Legacy \in Seq(Seq(Names) \ {<<>>})
  /\ \A i, j \in DOMAIN Legacy : Legacy[i] \notin Above(Legacy[j])
  /\ Given \subseteq [abs : BOOLEAN, names : Seq(Names)]
  /\ Batches \subseteq [folder : Names, names : Seq(Names)]
  /\ Workloads \subseteq [ops : SUBSET Ops, legacy : SUBSET DOMAIN Legacy,
                     restarts : 0..MaxRestarts, at_once : Nat,
                     moves_may_fail : BOOLEAN]
  /\ MaxWrites \in Nat /\ MaxRestarts \in Nat

VARIABLES
  tree,       (* the files below the root: path to content                 *)
  dirs,       (* the directories below the root                            *)
  marker,     (* .per-user-layout exists                                   *)
  server,     (* "down", "moving" or "up"                                  *)
  to_move,    (* entries of the root still to be moved                     *)
  failed,     (* entries this start could not move                         *)
  slot,       (* what each request has checked and is about to do          *)
  restarts,
  (* history *)
  does,       (* the workload of this behaviour                            *)
  writes,     (* contents written so far, and who wrote each               *)
  asked,      (* contents a request asked to replace or delete             *)
  seen,       (* contents each account has been shown                      *)
  moved       (* entries a migration has moved                             *)

disk == <<tree, dirs, marker>>
history == <<does, writes, asked, seen, moved>>
file_vars == <<disk, server, to_move, failed, slot, restarts, history>>

Idle == [at |-> "idle", user |-> Nothing, path |-> <<>>, mode |-> "plain", todo |-> <<>>,
         since |-> 0]
Files == DOMAIN tree
DirectoryOf(p) == Front(p)
Under(p, q) == IsPrefix(p, q)
Entries == {<<p[1]>> : p \in Files \cup dirs}

Written(p, c) == [q \in Files \cup {p} |-> IF q = p THEN c ELSE tree[q]]
Without(paths) == [q \in Files \ paths |-> tree[q]]

FilesInit ==
  /\ does \in Workloads
  /\ tree = [p \in {Legacy[i] : i \in does.legacy} |->
               CHOOSE i \in does.legacy : Legacy[i] = p]
  /\ dirs = UNION {Above(Legacy[i]) : i \in does.legacy}
  /\ marker = FALSE /\ server = "down" /\ to_move = {} /\ failed = {}
  /\ slot = [s \in Slots |-> Idle]
  /\ restarts = 0
  /\ writes = [i \in DOMAIN Legacy |-> Starting]
  /\ asked = {} /\ seen = [u \in Users |-> {}] /\ moved = {}

(***************************************************************************)
(* migrate_workspace_to_per_user                                           *)
(***************************************************************************)
ToMove == {e \in Entries : e # <<Admin>>}

StartServer ==
  /\ server = "down"
  /\ IF marker
     THEN server' = "up" /\ UNCHANGED <<dirs, to_move>>
     ELSE /\ server' = "moving"
          /\ to_move' = ToMove
          /\ dirs' = IF ToMove = {} THEN dirs ELSE dirs \cup {<<Admin>>}
  /\ failed' = {}
  /\ UNCHANGED <<tree, marker, slot, restarts, history>>

(* fs::rename of one entry, a directory with all it holds.  It replaces a   *)
(* file of that name and fails on a directory that is not empty.            *)
Moved(e, p) == IF Under(e, p) THEN <<Admin>> \o p ELSE p
Rename(e) ==
  LET target == <<Admin>> \o e
      gone == {p \in Files : Under(target, p)}
      stays == Files \ gone
  IN /\ tree' = [q \in {Moved(e, p) : p \in stays} |->
                   tree[CHOOSE p \in stays : Moved(e, p) = q]]
     /\ dirs' = {Moved(e, d) : d \in dirs}

CanRename(e) ==
  LET target == <<Admin>> \o e
  IN target \in Files \cup dirs => e \in Files /\ target \in Files

MoveEntry(e) ==
  /\ server = "moving" /\ e \in to_move /\ CanRename(e)
  /\ Rename(e)
  /\ to_move' = to_move \ {e} /\ moved' = moved \cup {e}
  /\ UNCHANGED <<marker, server, failed, slot, restarts, does, writes, asked, seen>>

MoveFails(e) ==
  /\ server = "moving" /\ e \in to_move /\ (does.moves_may_fail \/ ~CanRename(e))
  /\ to_move' = to_move \ {e} /\ failed' = failed \cup {e}
  /\ UNCHANGED <<disk, server, slot, restarts, history>>

FinishMove ==
  /\ server = "moving" /\ to_move = {}
  /\ marker' = (failed = {})
  /\ server' = "up"
  /\ UNCHANGED <<tree, dirs, to_move, failed, slot, restarts, history>>

Crash ==
  /\ server # "down" /\ restarts < does.restarts
  /\ server' = "down" /\ restarts' = restarts + 1
  /\ slot' = [s \in Slots |-> Idle] /\ to_move' = {}
  /\ UNCHANGED <<disk, failed, history>>

(***************************************************************************)
(* fs_guard                                                                *)
(***************************************************************************)
Step(p, name) == IF name # ".." THEN Append(p, name)
                 ELSE IF p = <<>> THEN p ELSE Front(p)
Normal(ws, g) ==
  LET at[n \in 0..Len(g.names)] ==
        IF n = 0 THEN IF g.abs THEN <<>> ELSE ws ELSE Step(at[n - 1], g.names[n])
  IN at[Len(g.names)]

(* resolve: the normal form of the path, or Nothing if that is outside.     *)
(* ResolveAnywhere: without the last test.                                  *)
ResolveAnywhere(ws, g) == IF g.names = <<>> THEN Nothing ELSE Normal(ws, g)
Resolve(ws, g) ==
  IF g.names # <<>> /\ Under(ws, Normal(ws, g)) THEN Normal(ws, g) ELSE Nothing

(* workspace_for, without an agent's override: it makes the directory.      *)
(* OpenedLater: it only names it.                                          *)
Workspace(u) == <<u>>
OpenedLater(u) == dirs
Opened(u) == dirs \cup {Workspace(u)}

(***************************************************************************)
(* Requests                                                                *)
(***************************************************************************)
Serving(s, op) ==
  /\ server = "up" /\ slot[s] = Idle /\ op \in does.ops
  /\ Cardinality({t \in Slots : slot[t] # Idle}) < does.at_once
NextContent == Len(writes) + 1
MayWrite == Len(writes) < MaxWrites + Len(Legacy)
Quiet == UNCHANGED <<marker, server, to_move, failed, restarts, does, moved>>

(* Opening a file for writing: its directory is there and it is none itself. *)
Opens(p) == p \notin dirs /\ DirectoryOf(p) \in dirs
WriteAt(p, u) ==
  /\ writes' = Append(writes, u)
  /\ tree' = Written(p, NextContent)

(* write_file_handler: what it looks at before it writes.                  *)
(* Refused: a directory, or a file the call did not ask to replace.         *)
(* RefusedByName: looks for the name as it was given, below the workspace.  *)
RefusedByName(u, p, g, mode) ==
  p \in dirs \/ (mode = "plain" /\ Workspace(u) \o g.names \in Files)
Refused(u, p, g, mode) == p \in dirs \/ (mode = "plain" /\ p \in Files)

(* create_directories of the parent comes right before the open; it fails   *)
(* where a file has the name of a directory.                                *)
WriteCheck(s, u, g, mode) ==
  LET p == Resolve(Workspace(u), g)
  IN /\ Serving(s, "write") /\ p # Nothing /\ ~Refused(u, p, g, mode)
     /\ slot' = [slot EXCEPT ![s] = [Idle EXCEPT !.at = "write", !.user = u,
                   !.path = p, !.mode = mode, !.since = Len(writes)]]
     /\ asked' = IF mode = "overwrite" /\ p \in Files THEN asked \cup {tree[p]} ELSE asked
     /\ dirs' = Opened(u)
     /\ UNCHANGED <<tree, writes, seen>> /\ Quiet

(* An append keeps what was there: the content does not change.             *)
WriteFile(s) ==
  LET p == slot[s].path
  IN /\ slot[s].at = "write" /\ MayWrite
     /\ dirs' = IF Above(p) \cap Files = {} THEN dirs \cup Above(p) ELSE dirs
     /\ IF p \in dirs \/ DirectoryOf(p) \notin dirs'
        THEN UNCHANGED <<tree, writes, asked>>
        ELSE IF slot[s].mode = "append" /\ p \in Files
        THEN UNCHANGED <<tree, writes, asked>>
        ELSE /\ WriteAt(p, slot[s].user)
             /\ asked' = IF slot[s].mode = "overwrite" /\ p \in Files
                         THEN asked \cup {tree[p]} ELSE asked
     /\ slot' = [slot EXCEPT ![s] = Idle]
     /\ UNCHANGED seen /\ Quiet

(* POST /api/upload: a stamped name in the uploader's workspace.            *)
Upload(s, u, name) ==
  LET p == Append(Workspace(u), name)
  IN /\ Serving(s, "upload") /\ MayWrite
     /\ p \notin Files \cup dirs
     /\ dirs' = Opened(u)
     /\ WriteAt(p, u)
     /\ UNCHANGED <<slot, asked, seen>> /\ Quiet

(* POST /api/upload-batch: the folder, then file by file; a file that is    *)
(* there is replaced, one that cannot be opened is skipped.                 *)
BatchStart(s, u, b) ==
  LET folder == Append(Workspace(u), b.folder)
  IN /\ Serving(s, "batch") /\ folder \notin Files
     /\ dirs' = Opened(u) \cup {folder}
     /\ slot' = [slot EXCEPT ![s] = [Idle EXCEPT !.at = "batch", !.user = u,
                   !.path = folder, !.todo = b.names]]
     /\ UNCHANGED <<tree, writes, asked, seen>> /\ Quiet

BatchOne(s) ==
  LET p == Append(slot[s].path, Head(slot[s].todo))
  IN /\ slot[s].at = "batch" /\ slot[s].todo # <<>> /\ MayWrite
     /\ IF Opens(p)
        THEN /\ WriteAt(p, slot[s].user)
             /\ asked' = IF p \in Files THEN asked \cup {tree[p]} ELSE asked
        ELSE UNCHANGED <<tree, writes, asked>>
     /\ slot' = [slot EXCEPT ![s].todo = Tail(@)]
     /\ UNCHANGED <<dirs, seen>> /\ Quiet

BatchDone(s) ==
  /\ slot[s].at = "batch" /\ slot[s].todo = <<>>
  /\ slot' = [slot EXCEPT ![s] = Idle]
  /\ UNCHANGED <<tree, dirs, writes, asked, seen>> /\ Quiet

(* DELETE /api/files: a file or a directory with all it holds, never the    *)
(* workspace itself.                                                        *)
Delete(s, u, g) ==
  LET p == Resolve(Workspace(u), g)
      gone == {q \in Files : Under(p, q)}
  IN /\ Serving(s, "delete") /\ p # Nothing /\ p # Workspace(u) /\ p \in Files \cup dirs
     /\ asked' = asked \cup {tree[q] : q \in gone}
     /\ tree' = Without(gone)
     /\ dirs' = {d \in Opened(u) : ~Under(p, d)}
     /\ UNCHANGED <<slot, writes, seen>> /\ Quiet

(* read_file, /api/files/download and the listings: what p holds is shown.  *)
ReadFile(s, u, g) ==
  LET p == Resolve(Workspace(u), g)
  IN /\ Serving(s, "read") /\ p # Nothing
     /\ seen' = [seen EXCEPT ![u] = @ \cup {tree[q] : q \in {f \in Files : Under(p, f)}}]
     /\ dirs' = Opened(u)
     /\ UNCHANGED <<tree, slot, writes, asked>> /\ Quiet

Request(s) ==
  \/ \E u \in Users, g \in Given :
       (\E mode \in Modes : WriteCheck(s, u, g, mode)) \/ Delete(s, u, g) \/ ReadFile(s, u, g)
  \/ WriteFile(s)
  \/ \E u \in Users, name \in {g.names[1] : g \in {h \in Given : Len(h.names) = 1}} :
       Upload(s, u, name)
  \/ \E u \in Users, b \in Batches : BatchStart(s, u, b)
  \/ BatchOne(s) \/ BatchDone(s)

FilesNext ==
  \/ StartServer \/ FinishMove \/ Crash
  \/ \E e \in to_move : MoveEntry(e) \/ MoveFails(e)
  \/ \E s \in Slots : Request(s)

FilesSpec == FilesInit /\ [][FilesNext]_file_vars

(***************************************************************************)
(* Properties                                                              *)
(***************************************************************************)
(* What the migration counts on: nothing in an old workspace has the name of *)
(* an account, and a start some of whose moves failed is the last.  Without  *)
(* the second, see RetrySeesTheRest.                                         *)
MovesOnce ==
  /\ \A i \in DOMAIN Legacy : Legacy[i][1] \notin Users
  /\ \A w \in Workloads : w.moves_may_fail => w.restarts = 0

(* The tree is one: every file is below directories that exist, and no path *)
(* is a file and a directory.                                               *)
TreeOK ==
  /\ \A p \in Files : tree[p] \in 1..Len(writes) /\ Above(p) \subseteq dirs
  /\ dirs \cap Files = {} /\ \A d \in dirs : Above(d) \subseteq dirs
  /\ marker \in BOOLEAN /\ server \in {"down", "moving", "up"}
  /\ to_move \subseteq Entries \ {<<Admin>>}
  /\ \A s \in Slots : slot[s].at \in {"idle", "write", "batch"}
  /\ asked \cup UNION {seen[u] : u \in Users} \subseteq 1..Len(writes)

(* What an account is shown by a file route or a file tool was written by   *)
(* that account, or, for the administrator, was there before the accounts;  *)
(* and once the marker is written no file is left outside the workspaces of *)
(* the accounts, those of before being the administrator's.                 *)
SeenIsOwn ==
  /\ \A u \in Users : \A c \in seen[u] :
       writes[c] = u \/ (u = Admin /\ writes[c] = Starting)
  /\ marker =>
       \A p \in Files : p[1] \in Users /\ (writes[tree[p]] = Starting => p[1] = Admin)

(* A file disappears only through a request that asked for it: not in the   *)
(* migration, wherever it is interrupted, and not through a plain write.    *)
(* What a plain write raced with another request's is the one exception.    *)
KeptUntilAsked ==
  [][LET held == {tree[p] : p \in Files}
         holds == {tree'[p] : p \in DOMAIN tree'}
     IN \A c \in held \ (holds \cup asked') :
          \E s \in Slots : slot[s].at = "write" /\ slot[s].mode = "plain"
                           /\ slot'[s] = Idle /\ c > slot[s].since]_file_vars

(* "the entries that did move are already gone from the root, so a retry    *)
(* only sees the rest": no entry is moved that was not there at the start.  *)
(* The code does not keep this: see "Known differences" in the README.      *)
RetrySeesTheRest == \A e \in moved : e \in {<<Legacy[i][1]>> : i \in DOMAIN Legacy}
=============================================================================
