------------------------------ MODULE Processes ------------------------------
(***************************************************************************)
(* Programs started for an agent: run_script and execute_shell             *)
(* (src/core/tools/script_tools.cpp, shell_tool.cpp), the script library   *)
(* (script_library.cpp) and run_forked of process_runner.cpp, which forks  *)
(* the program, reads its pipes, waits for it and kills its process group  *)
(* at the deadline.                                                        *)
(*                                                                         *)
(* The program is the environment: it writes, starts a helper in its group *)
(* that may outlive it, exits or hangs.  What it writes are chunks: "doc"  *)
(* for the JSON it promises, "noise", "warn" on its standard error, and    *)
(* "late" for the helper's.  Sizes are counted in chunks.                  *)
(***************************************************************************)
EXTENDS Integers, Sequences, FiniteSets, SequencesExt

CONSTANTS
  Calls,        (* tool calls with the grants of the agent that makes them *)
  Libraries,    (* what an administrator installed                         *)
  Forever,      (* a program that never stops writing                      *)
  None,
  PipeSize,     (* chunks a pipe holds                                     *)
  MaxOutput     (* chunks kept: MAX_OUTPUT_BYTES                           *)

ASSUME SizesAssumption == PipeSize \in Nat \ {0} /\ MaxOutput \in Nat \ {0}
ASSUME LibrariesAssumption ==
  \A l \in Libraries : Len(l) \in Nat /\ DOMAIN l = 1..Len(l)
ASSUME NoneAssumption == None # "json"

VARIABLES
  call, library,
  pc,           (* new, drain(_err), reap, poll, final(_err), returned     *)
  started,      (* directory and arguments of the program, or None         *)
  child,        (* none, running, exited (a zombie) or reaped              *)
  code,         (* its exit status                                         *)
  helper,       (* none, running or dead                                   *)
  left,         (* chunks the program may still write, or Forever          *)
  pipe,         (* the out and err pipes; err only when they are split     *)
  said,         (* the first chunks written to each pipe                   *)
  output,       (* the chunks captured of each                             *)
  late,         (* the deadline has passed                                 *)
  timed_out,
  result        (* what the agent is told                                  *)

Streams == {"out", "err"}
Chunks == {"doc", "noise", "warn", "late"}
program == <<child, code, helper, left>>
vars == <<call, library, pc, started, program, pipe, said, output, late, timed_out, result>>
-----------------------------------------------------------------------------
(* The script library: directories in order, each with its manifests.        *)

(* load_script: the last directory with a manifest decides, and the file it  *)
(* runs is in that directory or nowhere.                                     *)
Holding(name) == {d \in DOMAIN library : name \in DOMAIN library[d]}
DirOf(name) == CHOOSE d \in Holding(name) : \A e \in Holding(name) : e <= d
Installed(name) == Holding(name) # {} /\ library[DirOf(name)][name].has_file
Manifest(name) == library[DirOf(name)][name]

(* build_argv.  A value is of a JSON kind, and its word.                     *)
IsSupplied(args, p) == p.name \in DOMAIN args /\ args[p.name].kind # "null"
AcceptedFlag(v) == v.kind \in {"boolean", "string"}
AcceptedText(p, v) ==
  /\ v.kind \in {"string", "number", "boolean"}
  /\ p.type = "number" => v.kind = "number" \/ v.word = "7"
  /\ v.word # "control"
  /\ p.choices # {} => v.word \in p.choices
Accepted(p, v) == IF p.type = "boolean" THEN AcceptedFlag(v) ELSE AcceptedText(p, v)
ArgumentsFit(params, args) ==
  /\ DOMAIN args \subseteq {params[i].name : i \in DOMAIN params}
  /\ \A i \in DOMAIN params :
       /\ params[i].required => IsSupplied(args, params[i])
       /\ IsSupplied(args, params[i]) => Accepted(params[i], args[params[i].name])
(* One token for every argument, at its place in the manifest; a flag that   *)
(* is not set has none.                                                      *)
IsSet(args, p) == p.type = "boolean" => args[p.name].word = "true"
Tokens(params, args) ==
  [i \in {k \in DOMAIN params : IsSupplied(args, params[k]) /\ IsSet(args, params[k])} |->
     <<params[i].name,
       IF params[i].type = "boolean" THEN None ELSE args[params[i].name].word>>]

(* run_script_handler refuses what is not granted, not installed or not      *)
(* asked for as declared; execute_shell what the operator has not allowed.   *)
(* A denied key was refused before the handler (FunesAgent::dispatch_tool).  *)
ScriptRuns ==
  /\ call.granted /\ call.permitted
  /\ Installed(call.name)
  /\ ArgumentsFit(Manifest(call.name).params, call.args)
Runs == IF call.tool = "execute_shell" THEN call.permitted /\ call.granted ELSE ScriptRuns
Json == call.tool = "run_script" /\ Manifest(call.name).json
(* Standard error is kept apart only where standard output is a contract.    *)
Err == IF Json THEN "err" ELSE "out"

Init ==
  /\ call \in Calls /\ library \in Libraries
  /\ pc = "new" /\ started = None
  /\ child = "none" /\ code = None /\ helper = "none" /\ left = call.writes
  /\ pipe = [s \in Streams |-> <<>>]
  /\ said = pipe /\ output = pipe
  /\ late = FALSE /\ timed_out = FALSE /\ result = None

Refuse ==
  /\ pc = "new" /\ ~Runs
  /\ pc' = "returned" /\ result' = "refused"
  /\ UNCHANGED <<call, library, started, program, pipe, said, output, late, timed_out>>

(* run_argv, run_shell_command, and run_forked up to its loop.               *)
Fork ==
  /\ pc = "new" /\ Runs
  /\ started' = IF call.tool = "execute_shell" THEN <<None, <<>>>>
                ELSE <<DirOf(call.name), Tokens(Manifest(call.name).params, call.args)>>
  /\ child' = "running" /\ pc' = "drain"
  /\ UNCHANGED <<call, library, code, helper, left, pipe, said, output, late, timed_out, result>>

(* pipe() or fork() failed: there is no program.                             *)
ForkFails ==
  /\ pc = "new" /\ Runs
  /\ pc' = "returned" /\ result' = "failed"
  /\ UNCHANGED <<call, library, started, program, pipe, said, output, late, timed_out>>
-----------------------------------------------------------------------------
(* The program.  A write waits for room in the pipe.                         *)

Put(stream, chunk) ==
  /\ Len(pipe[stream]) < PipeSize
  /\ pipe' = [pipe EXCEPT ![stream] = Append(@, chunk)]
  /\ said' = IF Len(said[stream]) < MaxOutput
             THEN [said EXCEPT ![stream] = Append(@, chunk)] ELSE said
  /\ left # Forever => left > 0
  /\ left' = IF left = Forever THEN left ELSE left - 1

ChildWrites ==
  /\ child = "running"
  /\ \/ \E chunk \in {"doc", "noise"} : Put("out", chunk)
     \/ Put(Err, "warn")
  /\ UNCHANGED <<call, library, pc, started, child, code, helper, output, late, timed_out, result>>
HelperWrites ==
  /\ helper = "running" /\ Put("out", "late")
  /\ UNCHANGED <<call, library, pc, started, child, code, helper, output, late, timed_out, result>>
StartHelper ==
  /\ child = "running" /\ call.helper /\ helper = "none"
  /\ helper' = "running"
  /\ UNCHANGED <<call, library, pc, started, child, code, left, pipe, said, output, late, timed_out, result>>
HelperEnds ==
  /\ helper = "running"
  /\ helper' = "dead"
  /\ UNCHANGED <<call, library, pc, started, child, code, left, pipe, said, output, late, timed_out, result>>
(* 127 is also what a program that cannot be started leaves.                 *)
ChildExits ==
  /\ child = "running"
  /\ child' = "exited" /\ code' \in {0, 1, 127}
  /\ UNCHANGED <<call, library, pc, started, helper, left, pipe, said, output, late, timed_out, result>>

Deadline ==
  /\ pc \notin {"new", "returned"} /\ ~late
  /\ late' = TRUE
  /\ UNCHANGED <<call, library, pc, started, program, pipe, said, output, timed_out, result>>
-----------------------------------------------------------------------------
(* run_forked, in the parent.                                                *)

(* drain_one: a read takes what one buffer holds; what is over the cap is    *)
(* read and forgotten.                                                       *)
Read(stream) ==
  /\ pipe[stream] # <<>>
  /\ pipe' = [pipe EXCEPT ![stream] = Tail(@)]
  /\ output' = IF Len(output[stream]) < MaxOutput
               THEN [output EXCEPT ![stream] = Append(@, Head(pipe[stream]))] ELSE output

(* drain: one pipe is read until a read finds it empty, then the other.     *)
Drain ==
  /\ \/ pc \in {"drain", "final"} /\ Read("out")
     \/ pc \in {"drain_err", "final_err"} /\ Read("err")
  /\ UNCHANGED <<call, library, pc, started, program, said, late, timed_out, result>>
TurnToErr ==
  /\ pc \in {"drain", "final"} /\ pipe["out"] = <<>>
  /\ pc' = IF pc = "drain" THEN "drain_err" ELSE "final_err"
  /\ UNCHANGED <<call, library, started, program, pipe, said, output, late, timed_out, result>>
Drained ==
  /\ pc = "drain_err" /\ pipe["err"] = <<>>
  /\ pc' = "reap"
  /\ UNCHANGED <<call, library, started, program, pipe, said, output, late, timed_out, result>>

(* waitpid(WNOHANG) found the child.  Whatever it wrote is read after that.  *)
AfterReapDirectly == "returned"
AfterReap == "final"
Reap ==
  /\ pc = "reap" /\ child = "exited"
  /\ child' = "reaped" /\ pc' = AfterReap
  /\ UNCHANGED <<call, library, started, code, helper, left, pipe, said, output, late, timed_out, result>>
(* The deadline: the group is killed, then the child is waited for.  One     *)
(* that exits between the two looks counts as late.                          *)
KilledNot(state) == state
Killed(state) == IF state = "running" THEN "dead" ELSE state
Kill ==
  /\ pc = "reap" /\ child \in {"running", "exited"} /\ late
  /\ child' = "reaped" /\ helper' = Killed(helper)
  /\ timed_out' = TRUE /\ pc' = "final"
  /\ UNCHANGED <<call, library, started, code, left, pipe, said, output, late, result>>
Wait ==
  /\ pc = "reap" /\ child = "running" /\ ~late
  /\ pc' = "poll"
  /\ UNCHANGED <<call, library, started, program, pipe, said, output, late, timed_out, result>>
(* poll returns on data or after 200 ms.                                     *)
PollForData ==
  /\ pc = "poll" /\ (pipe["out"] # <<>> \/ child = "exited")
  /\ pc' = "drain"
  /\ UNCHANGED <<call, library, started, program, pipe, said, output, late, timed_out, result>>
Poll ==
  /\ pc = "poll"
  /\ pc' = "drain"
  /\ UNCHANGED <<call, library, started, program, pipe, said, output, late, timed_out, result>>

(* validate_output: exactly one JSON value.  Output that reached the cap has *)
(* a note appended and is JSON no more.                                      *)
IsJson(chunks) == Len(chunks) < MaxOutput /\ chunks = [i \in 1..call.doc |-> "doc"]
Verdict ==
  CASE timed_out \/ code # 0         -> "failed"
    [] ~timed_out /\ code = 0 /\ Json -> IF IsJson(output["out"]) THEN "json" ELSE "misshapen"
    [] OTHER                          -> "text"
Return ==
  /\ pc = "final_err" /\ pipe["err"] = <<>>
  /\ pc' = "returned" /\ result' = Verdict
  /\ UNCHANGED <<call, library, started, program, pipe, said, output, late, timed_out>>

Parent ==
  Refuse \/ Fork \/ ForkFails \/ Drain \/ Drained \/ TurnToErr \/ Reap \/ Kill
    \/ Wait \/ Poll \/ Return
Program == ChildWrites \/ HelperWrites \/ StartHelper \/ HelperEnds \/ ChildExits
Next == Parent \/ Program \/ Deadline

(* The server's thread runs and time passes; the program owes nothing.       *)
Spec == Init /\ [][Next]_vars /\ WF_vars(Parent) /\ WF_vars(Deadline)
-----------------------------------------------------------------------------
(* Every variable has its type.                                              *)
TypeOK ==
  /\ call \in Calls /\ library \in Libraries
  /\ pc \in {"new", "drain", "drain_err", "reap", "poll", "final", "final_err", "returned"}
  /\ child \in {"none", "running", "exited", "reaped"}
  /\ helper \in {"none", "running", "dead"}
  /\ code \in {None, 0, 1, 127}
  /\ late \in BOOLEAN /\ timed_out \in BOOLEAN
  /\ result \in {None, "refused", "failed", "text", "json", "misshapen"}
  /\ \A s \in Streams :
       /\ pipe[s] \in Seq(Chunks) /\ Len(pipe[s]) <= PipeSize

(* The capture is what was written, in order, and when the program ended by  *)
(* itself it holds everything the program wrote up to the cap, whatever the  *)
(* interleaving of its last writes, its exit and the parent's reads.  With   *)
(* a JSON contract no word of its standard error is in it (run_forked).      *)
IsLate(chunk) == chunk = "late"
OutputComplete ==
  /\ \A s \in Streams : IsPrefix(output[s], said[s]) /\ Len(output[s]) <= MaxOutput
  /\ pc = "returned" /\ child = "reaped" /\ ~timed_out =>
       \A s \in Streams :
         \A i \in DOMAIN said[s] : ~IsLate(said[s][i]) => i \in DOMAIN output[s]
  /\ started # None /\ Json => ~Contains(output["out"], "warn")

(* What runs was granted, permitted and declared: the program is the file    *)
(* beside the manifest that decides, every argument is a token, every token  *)
(* an argument the manifest names, with one of the choices it declares, and  *)
(* a result a later stage may consume is the declared JSON of a program that *)
(* exited with 0 in time.  A program that timed out leaves nothing of its    *)
(* group behind (run_script_handler, load_script, build_argv, run_forked).   *)
Declared(params, args, tokens) ==
  /\ \A i \in DOMAIN tokens : i \in DOMAIN params /\ tokens[i][1] \in DOMAIN args
  /\ \A i \in DOMAIN tokens : params[i].type # "boolean" /\ params[i].choices # {} =>
       tokens[i][2] \in params[i].choices
  /\ \A i \in DOMAIN params : params[i].required =>
       params[i].type = "boolean" \/ i \in DOMAIN tokens
  /\ \A name \in {n \in DOMAIN args : args[n].kind # "null"} :
       \E i \in DOMAIN params :
         params[i].name = name /\ (params[i].type = "boolean" \/ i \in DOMAIN tokens)
ContractKept ==
  /\ started # None => call.granted /\ call.permitted
  /\ started # None /\ call.tool = "run_script" =>
       /\ call.name \in DOMAIN library[started[1]]
       /\ \A d \in DOMAIN library : call.name \in DOMAIN library[d] => d <= started[1]
       /\ Declared(library[started[1]][call.name].params, call.args, started[2])
  /\ result = "json" => code = 0 /\ ~timed_out /\ ToSet(output["out"]) \subseteq {"doc"}
  /\ pc = "returned" /\ timed_out => child = "reaped" /\ helper # "running"

(* Every call of a program returns: a program that hangs is killed at its    *)
(* deadline (process_runner.h).                                              *)
RunReturns == <>(pc = "returned")
=============================================================================
