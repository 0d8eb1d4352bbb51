----------------------------- MODULE ToolsProofs -----------------------------
(***************************************************************************)
(* Theorems of Processes, for every library, call and program, every size  *)
(* of a pipe and every cap: the capture is what was written, and what runs *)
(* is what was granted, declared and asked for.  And of Workspace, for all *)
(* accounts, old trees, requests and uploads: the tree stays one, no       *)
(* account is shown a file of another, and no file is lost unasked.        *)
(***************************************************************************)
EXTENDS Processes, Workspace, WellFoundedInduction, TLAPS

(***************************************************************************)
(* Processes: the inductive invariant                                      *)
(***************************************************************************)
Typed ==
  /\ call \in Calls /\ library \in Libraries
  /\ pipe \in [Streams -> Seq(Chunks)] /\ said \in [Streams -> Seq(Chunks)]
  /\ output \in [Streams -> Seq(Chunks)]

(* What was written to a stream is what was captured of it and then what its *)
(* pipe holds, as far as the cap.                                           *)
Least(a, b) == IF a <= b THEN a ELSE b
StreamOK(s) ==
  /\ Len(output[s]) <= MaxOutput
  /\ Len(said[s]) = Least(MaxOutput, Len(output[s]) + Len(pipe[s]))
  /\ \A i \in 1..Len(said[s]) :
       said[s][i] = IF i <= Len(output[s]) THEN output[s][i] ELSE pipe[s][i - Len(output[s])]

(* Once the parent has seen the program end and the pipes empty, only a      *)
(* helper can still have written, and only to standard output.              *)
EndOK ==
  /\ pc \in {"final", "final_err"} => child = "reaped"
  /\ pc \in {"final_err", "returned"} /\ child = "reaped" =>
       \A i \in 1..Len(pipe["out"]) : IsLate(pipe["out"][i])
  /\ pc = "returned" /\ child = "reaped" => pipe["err"] = <<>>
  /\ pc = "returned" => child \in {"none", "reaped"}
  /\ pc = "new" => child = "none" /\ started = None
  /\ timed_out => child = "reaped" /\ helper # "running"

(* What was started is what the call asked for, and no warning is in the     *)
(* standard output of a program that promised JSON.                         *)
Wanted == IF call.tool = "execute_shell" THEN <<None, <<>>>>
          ELSE <<DirOf(call.name), Tokens(Manifest(call.name).params, call.args)>>
CallOK ==
  /\ started # None => Runs /\ started = Wanted
  /\ Json => \A i \in 1..Len(pipe["out"]) : pipe["out"][i] # "warn"
  /\ Json => \A i \in 1..Len(output["out"]) : output["out"][i] # "warn"
  /\ result = "json" => /\ pc = "returned" /\ child = "reaped" /\ code = 0 /\ ~timed_out
                        /\ IsJson(output["out"])

IInv == Typed /\ (\A s \in Streams : StreamOK(s)) /\ EndOK /\ CallOK

(***************************************************************************)
(* The library and the arguments                                           *)
(***************************************************************************)
(* The last directory with a manifest is one, and no later one has any.      *)
LEMMA DirOfFacts ==
  ASSUME Typed, NEW name, Holding(name) # {}
  PROVE  /\ DirOf(name) \in DOMAIN library /\ name \in DOMAIN library[DirOf(name)]
         /\ \A d \in DOMAIN library : name \in DOMAIN library[d] => d <= DirOf(name)
<1>1. PICK n \in Nat : DOMAIN library = 1..n
  BY LibrariesAssumption DEF Typed
<1>2. Holding(name) \subseteq 1..n
  BY <1>1 DEF Holding
<1>3. \E d \in Holding(name) : \A e \in Holding(name) : e <= d
  <2> DEFINE Rest == {n - d : d \in Holding(name)}
  <2>1. Rest \subseteq Nat /\ Rest # {}
    BY <1>2
  <2>2. IsWellFoundedOn(OpToRel(<, Nat), Nat)
    BY NatLessThanWellFounded, Zenon
  <2>3. PICK r \in Rest : \A q \in Rest : ~(<<q, r>> \in OpToRel(<, Nat))
    <3> HIDE DEF Rest
    <3> QED
      BY <2>1, <2>2, WFMin, Zenon
  <2>4. \A q \in Rest : ~(q < r)
    <3> HIDE DEF Rest
    <3> QED
      BY <2>1, <2>3, Zenon DEF OpToRel
  <2>5. PICK d \in Holding(name) : r = n - d
    BY <2>3
  <2>6. \A e \in Holding(name) : ~(n - e < n - d)
    BY <2>4, <2>5
  <2>7. \A e \in Holding(name) : e <= d
    BY <1>2, <2>6
  <2> QED
    BY <2>7
<1>4. DirOf(name) \in Holding(name) /\ \A e \in Holding(name) : e <= DirOf(name)
  BY <1>3 DEF DirOf
<1> QED
  BY <1>4 DEF Holding

(* Arguments that fit give the tokens the manifest declares.                 *)
LEMMA TokensFit ==
  ASSUME NEW params, NEW args, ArgumentsFit(params, args)
  PROVE  Declared(params, args, Tokens(params, args))
<1> DEFINE tokens == Tokens(params, args)
<1>1. \A i \in DOMAIN tokens :
        /\ i \in DOMAIN params /\ IsSupplied(args, params[i]) /\ tokens[i][1] = params[i].name
        /\ params[i].type # "boolean" => tokens[i][2] = args[params[i].name].word
  BY DEF Tokens
<1>2. \A i \in DOMAIN params :
        i \in DOMAIN tokens <=> IsSupplied(args, params[i]) /\ IsSet(args, params[i])
  BY DEF Tokens
<1> HIDE DEF tokens
<1>3. \A i \in DOMAIN tokens : i \in DOMAIN params /\ tokens[i][1] \in DOMAIN args
  BY <1>1 DEF IsSupplied
<1>4. \A i \in DOMAIN tokens : params[i].type # "boolean" /\ params[i].choices # {} =>
        tokens[i][2] \in params[i].choices
  BY <1>1 DEF ArgumentsFit, Accepted, AcceptedText
<1>5. \A i \in DOMAIN params : params[i].required =>
        params[i].type = "boolean" \/ i \in DOMAIN tokens
  BY <1>2 DEF ArgumentsFit, IsSet
<1>6. \A name \in {n \in DOMAIN args : args[n].kind # "null"} :
        \E i \in DOMAIN params :
          params[i].name = name /\ (params[i].type = "boolean" \/ i \in DOMAIN tokens)
  <2> SUFFICES ASSUME NEW name \in DOMAIN args, args[name].kind # "null"
               PROVE  \E i \in DOMAIN params :
                        params[i].name = name /\ (params[i].type = "boolean" \/ i \in DOMAIN tokens)
    OBVIOUS
  <2>1. PICK i \in DOMAIN params : params[i].name = name
    BY DEF ArgumentsFit
  <2> QED
    BY <1>2, <2>1 DEF IsSupplied, IsSet
<1>7. Declared(params, args, tokens)
  BY <1>3, <1>4, <1>5, <1>6 DEF Declared
<1> QED
  BY <1>7 DEF tokens

(* The call and the library stay what they are, and what they decide.        *)
LEMMA CallStays ==
  ASSUME UNCHANGED <<call, library>>
  PROVE  Runs' = Runs /\ Json' = Json /\ Wanted' = Wanted
BY DEF Runs, ScriptRuns, Installed, Manifest, DirOf, Holding, Json, Wanted

(***************************************************************************)
(* The streams                                                             *)
(***************************************************************************)
(* A chunk is written.                                                      *)
LEMMA PutKeeps ==
  ASSUME IInv, NEW s \in Streams, NEW chunk \in Chunks, Put(s, chunk), UNCHANGED output
  PROVE  /\ pipe' \in [Streams -> Seq(Chunks)] /\ said' \in [Streams -> Seq(Chunks)]
         /\ \A t \in Streams : StreamOK(t)'
         /\ pipe'[s] = Append(pipe[s], chunk)
         /\ \A t \in Streams : t # s => pipe'[t] = pipe[t]
<1>0. MaxOutput \in Nat
  BY SizesAssumption
<1>1. /\ pipe \in [Streams -> Seq(Chunks)] /\ said \in [Streams -> Seq(Chunks)]
      /\ output \in [Streams -> Seq(Chunks)]
  BY DEF IInv, Typed
<1>2. /\ pipe' \in [Streams -> Seq(Chunks)] /\ pipe'[s] = Append(pipe[s], chunk)
      /\ \A t \in Streams : t # s => pipe'[t] = pipe[t]
  BY <1>1 DEF Put
<1>3. /\ said' \in [Streams -> Seq(Chunks)]
      /\ said'[s] = IF Len(said[s]) < MaxOutput THEN Append(said[s], chunk) ELSE said[s]
      /\ \A t \in Streams : t # s => said'[t] = said[t]
  BY <1>1 DEF Put
<1>4. ASSUME NEW t \in Streams, t # s
      PROVE  StreamOK(t)'
  BY <1>2, <1>3, <1>4 DEF IInv, StreamOK
<1>5. StreamOK(s)'
  <2>1. PICK p, q, w, u : /\ p = pipe[s] /\ q = pipe'[s] /\ w = said[s] /\ u = said'[s]
    OBVIOUS
  <2>2. PICK o : o = output[s]
    OBVIOUS
  <2>3. /\ p \in Seq(Chunks) /\ w \in Seq(Chunks) /\ o \in Seq(Chunks)
        /\ q = Append(p, chunk) /\ u = IF Len(w) < MaxOutput THEN Append(w, chunk) ELSE w
    BY <1>1, <1>2, <1>3, <2>1, <2>2
  <2>4. /\ Len(o) <= MaxOutput /\ Len(w) = Least(MaxOutput, Len(o) + Len(p))
        /\ \A i \in 1..Len(w) : w[i] = IF i <= Len(o) THEN o[i] ELSE p[i - Len(o)]
    BY <2>1, <2>2 DEF IInv, StreamOK
  <2>5. /\ Len(o) \in Nat /\ Len(p) \in Nat /\ Len(w) \in Nat /\ Len(q) = Len(p) + 1
        /\ q[Len(p) + 1] = chunk /\ \A i \in 1..Len(p) : q[i] = p[i]
    BY <2>3
  <2>6. CASE Len(w) < MaxOutput
    <3>1. Len(w) = Len(o) + Len(p) /\ u = Append(w, chunk)
      BY <1>0, <2>3, <2>4, <2>5, <2>6 DEF Least
    <3>2. /\ Len(u) = Len(w) + 1 /\ u[Len(w) + 1] = chunk
          /\ \A i \in 1..Len(w) : u[i] = w[i]
      BY <2>3, <3>1
    <3>3. Len(u) = Least(MaxOutput, Len(o) + Len(q))
      BY <1>0, <2>5, <2>6, <3>1, <3>2 DEF Least
    <3>4. ASSUME NEW i \in 1..Len(u)
          PROVE  u[i] = IF i <= Len(o) THEN o[i] ELSE q[i - Len(o)]
      <4>1. CASE i = Len(w) + 1
        <5>1. i - Len(o) = Len(p) + 1 /\ ~(i <= Len(o))
          BY <2>5, <3>1, <4>1
        <5> QED
          BY <2>5, <3>2, <4>1, <5>1
      <4>2. CASE i # Len(w) + 1
        <5>1. i \in 1..Len(w) /\ (~(i <= Len(o)) => i - Len(o) \in 1..Len(p))
          BY <2>5, <3>1, <3>2, <3>4, <4>2
        <5> QED
          BY <2>4, <2>5, <3>2, <5>1
      <4> QED
        BY <4>1, <4>2
    <3> QED
      BY <2>1, <2>2, <2>4, <3>3, <3>4 DEF StreamOK
  <2>7. CASE ~(Len(w) < MaxOutput)
    <3>1. u = w /\ Len(w) = MaxOutput /\ Len(o) + Len(p) >= MaxOutput
      BY <1>0, <2>3, <2>4, <2>5, <2>7 DEF Least
    <3>2. Len(u) = Least(MaxOutput, Len(o) + Len(q))
      BY <1>0, <2>5, <3>1 DEF Least
    <3>3. ASSUME NEW i \in 1..Len(u)
          PROVE  u[i] = IF i <= Len(o) THEN o[i] ELSE q[i - Len(o)]
      <4>1. i \in 1..Len(w) /\ (~(i <= Len(o)) => i - Len(o) \in 1..Len(p))
        BY <2>5, <3>1, <3>3
      <4> QED
        BY <2>4, <2>5, <3>1, <4>1
    <3> QED
      BY <2>1, <2>2, <2>4, <3>2, <3>3 DEF StreamOK
  <2> QED
    BY <2>6, <2>7
<1> QED
  BY <1>2, <1>3, <1>4, <1>5

(* A chunk is read.                                                         *)
LEMMA ReadKeeps ==
  ASSUME IInv, NEW s \in Streams, Read(s), UNCHANGED said
  PROVE  /\ pipe' \in [Streams -> Seq(Chunks)] /\ output' \in [Streams -> Seq(Chunks)]
         /\ \A t \in Streams : StreamOK(t)'
         /\ \A t \in Streams : \A i \in 1..Len(pipe'[t]) :
              \E j \in 1..Len(pipe[t]) : pipe'[t][i] = pipe[t][j]
         /\ \A t \in Streams : \A i \in 1..Len(output'[t]) :
              \/ \E j \in 1..Len(pipe[t]) : output'[t][i] = pipe[t][j]
              \/ \E j \in 1..Len(output[t]) : output'[t][i] = output[t][j]
<1>0. MaxOutput \in Nat
  BY SizesAssumption
<1>1. /\ pipe \in [Streams -> Seq(Chunks)] /\ said \in [Streams -> Seq(Chunks)]
      /\ output \in [Streams -> Seq(Chunks)]
  BY DEF IInv, Typed
<1>2. pipe[s] # <<>> /\ pipe[s] \in Seq(Chunks) /\ Head(pipe[s]) \in Chunks
  BY <1>1 DEF Read
<1>3. /\ pipe' \in [Streams -> Seq(Chunks)] /\ pipe'[s] = Tail(pipe[s])
      /\ \A t \in Streams : t # s => pipe'[t] = pipe[t]
  BY <1>1, <1>2 DEF Read
<1>4. /\ output' \in [Streams -> Seq(Chunks)]
      /\ output'[s] = IF Len(output[s]) < MaxOutput THEN Append(output[s], Head(pipe[s]))
                      ELSE output[s]
      /\ \A t \in Streams : t # s => output'[t] = output[t]
  BY <1>1, <1>2 DEF Read
<1>5. ASSUME NEW t \in Streams, t # s
      PROVE  StreamOK(t)'
  BY <1>3, <1>4, <1>5 DEF IInv, StreamOK
<1>6. PICK p, q, w, o, n :
        /\ p = pipe[s] /\ q = pipe'[s] /\ w = said[s] /\ o = output[s] /\ n = output'[s]
  OBVIOUS
<1>7. /\ p \in Seq(Chunks) /\ p # <<>> /\ w \in Seq(Chunks) /\ o \in Seq(Chunks)
      /\ q = Tail(p) /\ n = IF Len(o) < MaxOutput THEN Append(o, Head(p)) ELSE o
  BY <1>1, <1>2, <1>3, <1>4, <1>6
<1>8. /\ Len(o) <= MaxOutput /\ Len(w) = Least(MaxOutput, Len(o) + Len(p))
      /\ \A i \in 1..Len(w) : w[i] = IF i <= Len(o) THEN o[i] ELSE p[i - Len(o)]
  BY <1>6 DEF IInv, StreamOK
<1>9. /\ Len(o) \in Nat /\ Len(p) \in Nat /\ Len(p) > 0 /\ Len(w) \in Nat
      /\ Len(q) = Len(p) - 1 /\ Head(p) = p[1] /\ \A i \in 1..Len(q) : q[i] = p[i + 1]
  BY <1>7
<1>10. ASSUME Len(o) < MaxOutput
       PROVE  /\ StreamOK(s)'
              /\ \A i \in 1..Len(n) : \/ \E j \in 1..Len(p) : n[i] = p[j]
                                     \/ \E j \in 1..Len(o) : n[i] = o[j]
  <2>1. /\ Len(n) = Len(o) + 1 /\ n[Len(o) + 1] = p[1] /\ \A i \in 1..Len(o) : n[i] = o[i]
    BY <1>7, <1>9, <1>10
  <2>2. Len(n) <= MaxOutput /\ Len(w) = Least(MaxOutput, Len(n) + Len(q))
    BY <1>0, <1>8, <1>9, <1>10, <2>1 DEF Least
  <2>3. ASSUME NEW i \in 1..Len(w)
        PROVE  w[i] = IF i <= Len(n) THEN n[i] ELSE q[i - Len(n)]
    <3>0. w[i] = IF i <= Len(o) THEN o[i] ELSE p[i - Len(o)]
      BY <1>8, <2>3
    <3>1. CASE i <= Len(o)
      <4>1. i \in 1..Len(o) /\ i <= Len(n)
        BY <1>9, <2>1, <2>3, <3>1
      <4>2. n[i] = o[i]
        BY <2>1, <4>1
      <4> QED
        BY <3>0, <3>1, <4>1, <4>2
    <3>2. CASE i = Len(o) + 1
      <4>1. i <= Len(n) /\ ~(i <= Len(o)) /\ i - Len(o) = 1
        BY <1>9, <2>1, <2>3, <3>2
      <4> QED
        BY <2>1, <3>0, <3>2, <4>1
    <3>3. CASE i > Len(o) + 1
      <4>1. i - Len(n) \in 1..Len(q) /\ (i - Len(n)) + 1 = i - Len(o)
        BY <1>0, <1>8, <1>9, <2>1, <2>3, <3>3 DEF Least
      <4>2. q[i - Len(n)] = p[i - Len(o)]
        BY <1>9, <4>1
      <4>3. ~(i <= Len(o)) /\ ~(i <= Len(n))
        BY <1>9, <2>1, <2>3, <3>3
      <4> QED
        BY <3>0, <4>2, <4>3
    <3> QED
      BY <1>9, <3>1, <3>2, <3>3
  <2>4. StreamOK(s)'
    BY <1>6, <2>2, <2>3 DEF StreamOK
  <2>5. \A i \in 1..Len(n) : (\E j \in 1..Len(p) : n[i] = p[j]) \/ (\E j \in 1..Len(o) : n[i] = o[j])
    BY <1>9, <2>1
  <2> QED
    BY <2>4, <2>5
<1>11. ASSUME ~(Len(o) < MaxOutput)
       PROVE  /\ StreamOK(s)'
              /\ \A i \in 1..Len(n) : \/ \E j \in 1..Len(p) : n[i] = p[j]
                                     \/ \E j \in 1..Len(o) : n[i] = o[j]
  <2>1. n = o /\ Len(o) = MaxOutput /\ Len(w) = MaxOutput
    BY <1>0, <1>7, <1>8, <1>9, <1>11 DEF Least
  <2>2. Len(w) = Least(MaxOutput, Len(n) + Len(q))
    BY <1>0, <1>9, <2>1 DEF Least
  <2>3. \A i \in 1..Len(w) : w[i] = IF i <= Len(n) THEN n[i] ELSE q[i - Len(n)]
    BY <1>0, <1>8, <2>1
  <2>4. StreamOK(s)'
    BY <1>6, <1>8, <2>1, <2>2, <2>3 DEF StreamOK
  <2>5. \A i \in 1..Len(n) : \E j \in 1..Len(o) : n[i] = o[j]
    BY <2>1
  <2> QED
    BY <2>4, <2>5
<1>12. ASSUME NEW t \in Streams
       PROVE  /\ StreamOK(t)'
              /\ \A i \in 1..Len(pipe'[t]) : \E j \in 1..Len(pipe[t]) : pipe'[t][i] = pipe[t][j]
              /\ \A i \in 1..Len(output'[t]) :
                   \/ \E j \in 1..Len(pipe[t]) : output'[t][i] = pipe[t][j]
                   \/ \E j \in 1..Len(output[t]) : output'[t][i] = output[t][j]
  <2>1. CASE t = s
    <3>1. \A i \in 1..Len(q) : \E j \in 1..Len(p) : q[i] = p[j]
      BY <1>9
    <3>2. /\ StreamOK(s)'
          /\ \A i \in 1..Len(n) : \/ \E j \in 1..Len(p) : n[i] = p[j]
                                 \/ \E j \in 1..Len(o) : n[i] = o[j]
      BY <1>10, <1>11
    <3> QED
      BY <1>6, <2>1, <3>1, <3>2
  <2>2. CASE t # s
    <3>1. pipe'[t] = pipe[t] /\ output'[t] = output[t]
      BY <1>3, <1>4, <2>2
    <3> QED
      BY <1>5, <2>2, <3>1
  <2> QED
    BY <2>1, <2>2
<1> QED
  BY <1>3, <1>4, <1>12

(* Nothing is written or read.                                              *)
LEMMA StreamsStay ==
  ASSUME IInv, UNCHANGED <<call, library, pipe, said, output>>
  PROVE  Typed' /\ \A s \in Streams : StreamOK(s)'
BY DEF IInv, Typed, StreamOK

(* A step that starts nothing, ends nothing and returns nothing.             *)
LEMMA CallKept ==
  ASSUME IInv, UNCHANGED <<call, library, started, pipe, output>>, result' # "json"
  PROVE  CallOK'
BY CallStays DEF IInv, CallOK

(***************************************************************************)
(* The invariant holds                                                     *)
(***************************************************************************)
LEMMA InvariantInit == Init => IInv
<1> SUFFICES ASSUME Init
             PROVE  IInv
  OBVIOUS
<1>1. Typed
  BY DEF Init, Typed
<1>2. ASSUME NEW s \in Streams
      PROVE  StreamOK(s)
  <2>1. output[s] = <<>> /\ said[s] = <<>> /\ pipe[s] = <<>>
    BY <1>2 DEF Init
  <2>2. Len(output[s]) = 0 /\ Len(said[s]) = 0 /\ Len(pipe[s]) = 0
    BY <2>1
  <2> QED
    BY <2>2, SizesAssumption DEF StreamOK, Least
<1>3. EndOK
  BY DEF Init, EndOK
<1>4. CallOK
  <2>1. pipe["out"] = <<>> /\ output["out"] = <<>>
    BY DEF Init, Streams
  <2> QED
    BY <2>1, NoneAssumption DEF Init, CallOK
<1> QED
  BY <1>1, <1>2, <1>3, <1>4 DEF IInv

(* The parent's own steps.                                                  *)
LEMMA ParentStep ==
  ASSUME IInv, Refuse \/ Fork \/ ForkFails \/ Drained \/ TurnToErr \/ Reap \/ Kill \/ Wait
               \/ Poll \/ Return
  PROVE  IInv'
<1>1. UNCHANGED <<call, library, pipe, said, output>>
  BY DEF Refuse, Fork, ForkFails, Drained, TurnToErr, Reap, Kill, Wait, Poll, Return
<1>2. Typed' /\ \A s \in Streams : StreamOK(s)'
  BY <1>1, StreamsStay
<1>3. EndOK
  BY DEF IInv
<1>4. CallOK
  BY DEF IInv
<1>5. CASE Refuse
  <2>1. EndOK'
    BY <1>3, <1>5 DEF Refuse, EndOK, program
  <2>2. CallOK'
    BY <1>1, <1>5, CallKept DEF Refuse
  <2> QED
    BY <1>2, <2>1, <2>2 DEF IInv
<1>6. CASE Fork
  <2>1. EndOK'
    BY <1>3, <1>6 DEF Fork, EndOK
  <2>2. Runs' = Runs /\ Json' = Json /\ Wanted' = Wanted
    BY <1>1, CallStays
  <2>3. started' = Wanted /\ Runs /\ result' = result /\ pc = "new"
    BY <1>6 DEF Fork, Wanted
  <2>4. CallOK'
    BY <1>1, <1>4, <2>2, <2>3 DEF CallOK
  <2> QED
    BY <1>2, <2>1, <2>4 DEF IInv
<1>7. CASE ForkFails
  <2>1. EndOK'
    BY <1>3, <1>7 DEF ForkFails, EndOK, program
  <2>2. CallOK'
    BY <1>1, <1>7, CallKept DEF ForkFails
  <2> QED
    BY <1>2, <2>1, <2>2 DEF IInv
<1>8. CASE Drained \/ TurnToErr \/ Wait \/ Poll
  <2>1. /\ UNCHANGED <<started, program, timed_out, result>> /\ pc \notin {"new", "returned"}
        /\ pc' \in {"reap", "poll", "drain", "drain_err", "final_err"}
        /\ pc' = "final_err" => pc = "final" /\ pipe["out"] = <<>>
    BY <1>8 DEF Drained, TurnToErr, Wait, Poll
  <2>2. pipe["out"] = <<>> => Len(pipe["out"]) = 0
    OBVIOUS
  <2>3. EndOK'
    BY <1>1, <1>3, <2>1, <2>2 DEF EndOK, program
  <2>4. result' # "json"
    BY <1>4, <2>1 DEF CallOK
  <2>5. CallOK'
    BY <1>1, <2>1, <2>4, CallKept
  <2> QED
    BY <1>2, <2>3, <2>5 DEF IInv
<1>9. CASE Reap \/ Kill
  <2>1. /\ UNCHANGED <<started, result>> /\ pc = "reap" /\ pc' = "final" /\ child' = "reaped"
        /\ child # "reaped" /\ (timed_out' => timed_out \/ helper' # "running")
    BY <1>9 DEF Reap, Kill, AfterReap, Killed
  <2>2. EndOK'
    BY <1>1, <1>3, <2>1 DEF EndOK
  <2>3. result' # "json"
    BY <1>4, <2>1 DEF CallOK
  <2>4. CallOK'
    BY <1>1, <2>1, <2>3, CallKept
  <2> QED
    BY <1>2, <2>2, <2>4 DEF IInv
<1>10. CASE Return
  <2>1. EndOK'
    BY <1>1, <1>3, <1>10 DEF EndOK, Return, program
  <2>2. Runs' = Runs /\ Json' = Json /\ Wanted' = Wanted
    BY <1>1, CallStays
  <2>3. result' = "json" => ~timed_out /\ code = 0 /\ IsJson(output["out"])
    BY <1>10 DEF Return, Verdict
  <2>4. IsJson(output["out"]) => IsJson(output["out"])'
    BY <1>1 DEF IsJson
  <2>5. /\ UNCHANGED <<started, child, code, timed_out>> /\ pc' = "returned" /\ child = "reaped"
    BY <1>3, <1>10 DEF Return, program, EndOK
  <2>6. CallOK'
    BY <1>1, <1>4, <2>2, <2>3, <2>4, <2>5 DEF CallOK
  <2> QED
    BY <1>2, <2>1, <2>6 DEF IInv
<1> QED
  BY <1>5, <1>6, <1>7, <1>8, <1>9, <1>10

LEMMA DrainStep ==
  ASSUME IInv, Drain
  PROVE  IInv'
<1>1. /\ UNCHANGED <<call, library, pc, started, program, said, late, timed_out, result>>
      /\ pc \in {"drain", "final", "drain_err", "final_err"}
  BY DEF Drain
<1>2. PICK s \in Streams : Read(s)
  BY DEF Drain, Streams
<1>3. /\ pipe' \in [Streams -> Seq(Chunks)] /\ output' \in [Streams -> Seq(Chunks)]
      /\ \A t \in Streams : StreamOK(t)'
      /\ \A t \in Streams : \A i \in 1..Len(pipe'[t]) :
           \E j \in 1..Len(pipe[t]) : pipe'[t][i] = pipe[t][j]
      /\ \A t \in Streams : \A i \in 1..Len(output'[t]) :
           \/ \E j \in 1..Len(pipe[t]) : output'[t][i] = pipe[t][j]
           \/ \E j \in 1..Len(output[t]) : output'[t][i] = output[t][j]
  BY <1>1, <1>2, ReadKeeps
<1>4. Typed'
  BY <1>1, <1>3 DEF IInv, Typed
<1>5. EndOK'
  <2>1. pc = "final_err" /\ child = "reaped" =>
          \A i \in 1..Len(pipe'["out"]) : IsLate(pipe'["out"][i])
    BY <1>3 DEF IInv, EndOK, Streams
  <2> QED
    BY <1>1, <2>1 DEF IInv, EndOK, program, IsLate
<1>6. CallOK'
  <2>1. Runs' = Runs /\ Json' = Json /\ Wanted' = Wanted
    BY <1>1, CallStays
  <2>2. Json => /\ \A i \in 1..Len(pipe["out"]) : pipe["out"][i] # "warn"
                /\ \A i \in 1..Len(output["out"]) : output["out"][i] # "warn"
    BY DEF IInv, CallOK
  <2>3. /\ \A i \in 1..Len(pipe'["out"]) :
             \E j \in 1..Len(pipe["out"]) : pipe'["out"][i] = pipe["out"][j]
        /\ \A i \in 1..Len(output'["out"]) :
             \/ \E j \in 1..Len(pipe["out"]) : output'["out"][i] = pipe["out"][j]
             \/ \E j \in 1..Len(output["out"]) : output'["out"][i] = output["out"][j]
    BY <1>3 DEF Streams
  <2>4. Json => /\ \A i \in 1..Len(pipe'["out"]) : pipe'["out"][i] # "warn"
                /\ \A i \in 1..Len(output'["out"]) : output'["out"][i] # "warn"
    BY <2>2, <2>3
  <2>5. result' # "json" /\ started' = started
    BY <1>1 DEF IInv, CallOK
  <2> QED
    BY <2>1, <2>4, <2>5 DEF IInv, CallOK
<1> QED
  BY <1>3, <1>4, <1>5, <1>6 DEF IInv

(* What the program writes.                                                 *)
LEMMA WriteStep ==
  ASSUME IInv, ChildWrites \/ HelperWrites
  PROVE  IInv'
<1>1. /\ UNCHANGED <<call, library, pc, started, child, code, helper, output, late, timed_out,
                     result>>
  BY DEF ChildWrites, HelperWrites
<1>2. PICK s \in Streams, chunk \in Chunks :
        /\ Put(s, chunk) /\ (Json /\ s = "out" => chunk # "warn")
        /\ child = "running" \/ (s = "out" /\ chunk = "late" /\ helper = "running")
  <2>1. CASE ChildWrites
    BY <2>1 DEF ChildWrites, Streams, Chunks, Err
  <2>2. CASE HelperWrites
    BY <2>2 DEF HelperWrites, Streams, Chunks
  <2> QED
    BY <2>1, <2>2
<1>3. /\ pipe' \in [Streams -> Seq(Chunks)] /\ said' \in [Streams -> Seq(Chunks)]
      /\ \A t \in Streams : StreamOK(t)'
      /\ pipe'[s] = Append(pipe[s], chunk)
      /\ \A t \in Streams : t # s => pipe'[t] = pipe[t]
  BY <1>1, <1>2, PutKeeps
<1>4. Typed'
  BY <1>1, <1>3 DEF IInv, Typed
<1>5. \A i \in 1..Len(pipe'[s]) : pipe'[s][i] = chunk \/ \E j \in 1..Len(pipe[s]) : pipe'[s][i] = pipe[s][j]
  <2>1. pipe[s] \in Seq(Chunks)
    BY DEF IInv, Typed
  <2> QED
    BY <1>3, <2>1
<1>6. EndOK'
  <2>1. CASE child = "running"
    BY <1>1, <2>1 DEF IInv, EndOK
  <2>2. CASE s = "out" /\ chunk = "late" /\ helper = "running"
    <3>1. pipe'["err"] = pipe["err"]
      BY <1>3, <2>2 DEF Streams
    <3>2. pc \in {"final_err", "returned"} /\ child = "reaped" =>
            \A i \in 1..Len(pipe'["out"]) : IsLate(pipe'["out"][i])
      BY <1>5, <2>2 DEF IInv, EndOK, IsLate
    <3> QED
      BY <1>1, <3>1, <3>2 DEF IInv, EndOK, IsLate
  <2> QED
    BY <1>2, <2>1, <2>2
<1>7. CallOK'
  <2>1. Runs' = Runs /\ Json' = Json /\ Wanted' = Wanted
    BY <1>1, CallStays
  <2>2. Json => \A i \in 1..Len(pipe'["out"]) : pipe'["out"][i] # "warn"
    <3>1. CASE s = "out"
      BY <1>2, <1>5, <3>1 DEF IInv, CallOK
    <3>2. CASE s # "out"
      BY <1>3, <3>2 DEF IInv, CallOK, Streams
    <3> QED
      BY <3>1, <3>2
  <2>3. IsJson(output["out"]) => IsJson(output["out"])'
    BY <1>1 DEF IsJson
  <2> QED
    BY <1>1, <2>1, <2>2, <2>3 DEF IInv, CallOK
<1> QED
  BY <1>3, <1>4, <1>6, <1>7 DEF IInv

(* What else the program does, and the passing of time.                      *)
LEMMA ProgramStep ==
  ASSUME IInv, StartHelper \/ HelperEnds \/ ChildExits \/ Deadline \/ UNCHANGED vars
  PROVE  IInv'
<1>1. UNCHANGED <<call, library, pc, started, pipe, said, output, timed_out, result>>
  BY DEF StartHelper, HelperEnds, ChildExits, Deadline, vars
<1>2. Typed' /\ \A s \in Streams : StreamOK(s)'
  BY <1>1, StreamsStay
<1>3. /\ child' = child \/ (child = "running" /\ child' = "exited")
      /\ child = "reaped" => code' = code /\ (helper' = "running" => helper = "running")
  BY DEF StartHelper, HelperEnds, ChildExits, Deadline, vars, program
<1>4. EndOK'
  BY <1>1, <1>3 DEF IInv, EndOK, IsLate
<1>5. CallOK'
  <2>1. Runs' = Runs /\ Json' = Json /\ Wanted' = Wanted
    BY <1>1, CallStays
  <2>2. IsJson(output["out"]) => IsJson(output["out"])'
    BY <1>1 DEF IsJson
  <2> QED
    BY <1>1, <1>3, <2>1, <2>2 DEF IInv, CallOK
<1> QED
  BY <1>2, <1>4, <1>5 DEF IInv

LEMMA InvariantNext == IInv /\ [Next]_vars => IInv'
BY ParentStep, DrainStep, WriteStep, ProgramStep DEF Next, Parent, Program

LEMMA Invariant == Spec => []IInv
BY InvariantInit, InvariantNext, PTL DEF Spec

(* The capture is a prefix of what was written, it is all that a program     *)
(* that ended by itself wrote, and promised JSON holds no warning.           *)
THEOREM OutputHolds == Spec => []OutputComplete
<1>1. IInv => OutputComplete
  <2> SUFFICES ASSUME IInv
               PROVE  OutputComplete
    OBVIOUS
  <2>1. ASSUME NEW s \in Streams
        PROVE  /\ IsPrefix(output[s], said[s]) /\ Len(output[s]) <= MaxOutput
               /\ pc = "returned" /\ child = "reaped" =>
                    \A i \in DOMAIN said[s] : ~IsLate(said[s][i]) => i \in DOMAIN output[s]
    <3>1. PICK o, w, p : o = output[s] /\ w = said[s] /\ p = pipe[s]
      OBVIOUS
    <3>2. o \in Seq(Chunks) /\ w \in Seq(Chunks) /\ p \in Seq(Chunks)
      BY <3>1 DEF IInv, Typed
    <3>3. /\ Len(o) <= MaxOutput /\ Len(w) = Least(MaxOutput, Len(o) + Len(p))
          /\ \A i \in 1..Len(w) : w[i] = IF i <= Len(o) THEN o[i] ELSE p[i - Len(o)]
      BY <3>1 DEF IInv, StreamOK
    <3>4. Len(o) \in Nat /\ Len(p) \in Nat /\ Len(w) \in Nat /\ MaxOutput \in Nat
      BY <3>2, SizesAssumption
    <3>5. Len(o) <= Len(w) /\ \A i \in 1..Len(o) : w[i] = o[i]
      BY <3>3, <3>4 DEF Least
    <3>6. IsPrefix(o, w)
      BY <3>2, <3>4, <3>5 DEF IsPrefix
    <3>7. ASSUME pc = "returned", child = "reaped", NEW i \in DOMAIN w, ~IsLate(w[i])
          PROVE  i \in DOMAIN o
      <4>1. SUFFICES ASSUME i > Len(o)
                     PROVE  FALSE
        BY <3>2, <3>4, <3>7
      <4>2. i \in 1..Len(w) /\ i - Len(o) \in 1..Len(p) /\ w[i] = p[i - Len(o)]
        BY <3>2, <3>3, <3>4, <3>7, <4>1 DEF Least
      <4>3. CASE s = "out"
        BY <3>1, <3>7, <4>2, <4>3 DEF IInv, EndOK
      <4>4. CASE s = "err"
        <5>1. Len(p) = 0
          BY <3>1, <3>7, <4>4 DEF IInv, EndOK
        <5> QED
          BY <4>2, <5>1
      <4> QED
        BY <4>3, <4>4 DEF Streams
    <3> QED
      BY <3>1, <3>3, <3>6, <3>7
  <2>2. started # None /\ Json => ~Contains(output["out"], "warn")
    BY DEF IInv, CallOK, Contains
  <2> QED
    BY <2>1, <2>2 DEF OutputComplete
<1> QED
  BY <1>1, Invariant, PTL

(* What runs was granted, installed and declared, a result handed on is the  *)
(* JSON of a program that succeeded, and a timeout leaves nothing running.   *)
THEOREM ContractHolds == Spec => []ContractKept
<1>1. IInv => ContractKept
  <2> SUFFICES ASSUME IInv
               PROVE  ContractKept
    OBVIOUS
  <2>1. started # None => call.granted /\ call.permitted
    BY DEF IInv, CallOK, Runs, ScriptRuns
  <2>2. ASSUME started # None, call.tool = "run_script"
        PROVE  /\ call.name \in DOMAIN library[started[1]]
               /\ \A d \in DOMAIN library : call.name \in DOMAIN library[d] => d <= started[1]
               /\ Declared(library[started[1]][call.name].params, call.args, started[2])
    <3>1. ScriptRuns /\ started = <<DirOf(call.name), Tokens(Manifest(call.name).params, call.args)>>
      BY <2>2 DEF IInv, CallOK, Runs, Wanted
    <3>2. Holding(call.name) # {} /\ ArgumentsFit(Manifest(call.name).params, call.args)
      BY <3>1 DEF ScriptRuns, Installed
    <3>3. started[1] = DirOf(call.name) /\ started[2] = Tokens(Manifest(call.name).params, call.args)
      BY <3>1
    <3>4. Declared(Manifest(call.name).params, call.args, started[2])
      BY <3>2, <3>3, TokensFit
    <3>5. /\ call.name \in DOMAIN library[DirOf(call.name)]
          /\ \A d \in DOMAIN library : call.name \in DOMAIN library[d] => d <= DirOf(call.name)
      BY <3>2, DirOfFacts DEF IInv
    <3> QED
      BY <3>3, <3>4, <3>5 DEF Manifest
  <2>3. result = "json" => code = 0 /\ ~timed_out /\ ToSet(output["out"]) \subseteq {"doc"}
    BY DEF IInv, CallOK, IsJson, ToSet
  <2>4. pc = "returned" /\ timed_out => child = "reaped" /\ helper # "running"
    BY DEF IInv, EndOK
  <2> QED
    BY <2>1, <2>2, <2>3, <2>4 DEF ContractKept
<1> QED
  BY <1>1, Invariant, PTL

(***************************************************************************)
(* The users' files: paths                                                 *)
(***************************************************************************)
LEMMA LeastOf ==
  ASSUME NEW S, S \subseteq Nat, S # {}
  PROVE  \E n \in S : \A m \in S : n <= m
<1>1. IsWellFoundedOn(OpToRel(<, Nat), Nat)
  BY NatLessThanWellFounded, Zenon
<1>2. PICK n \in S : \A m \in S : ~(<<m, n>> \in OpToRel(<, Nat))
  BY <1>1, WFMin, Zenon
<1>3. \A m \in S : ~(m < n)
  BY <1>2, Zenon DEF OpToRel
<1> QED
  BY <1>3

Paths == Seq(Names) \ {<<>>}

LEMMA UnderFacts ==
  ASSUME NEW T, NEW p \in Seq(T), NEW q \in Seq(T)
  PROVE  Under(p, q) <=> Len(p) <= Len(q) /\ \A i \in 1..Len(p) : p[i] = q[i]
<1>1. /\ Len(p) \in Nat /\ Len(q) \in Nat
      /\ p = [i \in 1..Len(p) |-> p[i]]
  OBVIOUS
<1>2. CASE Len(p) <= Len(q)
  <2>1. SubSeq(p, 1, Len(p)) = p
    BY <1>1
  <2>2. SubSeq(q, 1, Len(p)) = [i \in 1..Len(p) |-> q[i]]
    BY <1>1, <1>2
  <2> QED
    BY <1>1, <1>2, <2>1, <2>2 DEF Under, IsPrefix
<1> QED
  BY <1>2 DEF Under, IsPrefix

LEMMA UnderOne ==
  ASSUME NEW x \in Names, NEW q \in Paths
  PROVE  /\ <<x>> \in Paths /\ Len(<<x>>) = 1
         /\ q[1] \in Names /\ Len(q) >= 1 /\ Len(q) \in Nat
         /\ Under(<<x>>, q) <=> q[1] = x
<1>1. /\ <<x>> \in Paths /\ Len(<<x>>) = 1 /\ <<x>>[1] = x
      /\ q[1] \in Names /\ Len(q) >= 1 /\ Len(q) \in Nat
  BY DEF Paths
<1>2. Under(<<x>>, q) <=> Len(<<x>>) <= Len(q) /\ \A i \in 1..Len(<<x>>) : <<x>>[i] = q[i]
  <2>1. PICK s : s = <<x>>
    OBVIOUS
  <2>2. s \in Seq(Names) /\ q \in Seq(Names)
    BY <1>1, <2>1 DEF Paths
  <2>3. Under(s, q) <=> Len(s) <= Len(q) /\ \A i \in 1..Len(s) : s[i] = q[i]
    BY <2>2, UnderFacts
  <2> QED
    BY <2>1, <2>3
<1>3. 1..1 = {1}
  OBVIOUS
<1> QED
  BY <1>1, <1>2, <1>3

LEMMA UnderTrans ==
  ASSUME NEW p \in Paths, NEW q \in Paths, NEW r \in Paths, Under(p, q), Under(q, r)
  PROVE  Under(p, r) /\ p[1] = q[1]
<1>1. Len(p) <= Len(q) /\ \A i \in 1..Len(p) : p[i] = q[i]
  BY UnderFacts DEF Paths
<1>2. Len(q) <= Len(r) /\ \A i \in 1..Len(q) : q[i] = r[i]
  BY UnderFacts DEF Paths
<1>3. Len(p) \in Nat /\ Len(q) \in Nat /\ Len(r) \in Nat /\ Len(p) >= 1
  BY DEF Paths
<1>4. Len(p) <= Len(r) /\ \A i \in 1..Len(p) : p[i] = r[i]
  BY <1>1, <1>2, <1>3
<1> QED
  BY <1>1, <1>3, <1>4, UnderFacts DEF Paths

(* The directories above a path are shorter, begin as it does, and are those *)
(* of its own directory and that.                                           *)
LEMMA AboveFacts ==
  ASSUME NEW p \in Paths
  PROVE  /\ \A a \in Above(p) : /\ a \in Paths /\ Under(a, p) /\ a[1] = p[1] /\ a # p
                                /\ Above(a) \subseteq Above(p)
         /\ Len(p) = 1 => Above(p) = {}
         /\ Len(p) > 1 => /\ DirectoryOf(p) \in Above(p) /\ <<p[1]>> \in Above(p)
                          /\ Above(p) = Above(DirectoryOf(p)) \cup {DirectoryOf(p)}
<1>1. Len(p) \in Nat /\ Len(p) >= 1 /\ p \in Seq(Names)
  BY DEF Paths
<1>2. ASSUME NEW n \in 1..(Len(p) - 1)
      PROVE  /\ SubSeq(p, 1, n) \in Seq(Names) /\ Len(SubSeq(p, 1, n)) = n
             /\ \A i \in 1..n : SubSeq(p, 1, n)[i] = p[i]
             /\ SubSeq(p, 1, n) = [i \in 1..n |-> p[i]]
             /\ SubSeq(p, 1, n) \in Paths
  BY <1>1 DEF Paths
<1>3. ASSUME NEW n \in 1..(Len(p) - 1)
      PROVE  Above(SubSeq(p, 1, n)) = {SubSeq(p, 1, m) : m \in 1..(n - 1)}
  <2>1. PICK a : a = SubSeq(p, 1, n)
    OBVIOUS
  <2>2. /\ a \in Seq(Names) /\ Len(a) = n /\ \A i \in 1..n : a[i] = p[i]
    BY <1>2, <2>1
  <2>3. ASSUME NEW m \in 1..(n - 1) PROVE SubSeq(a, 1, m) = SubSeq(p, 1, m)
    <3>1. m \in 1..(Len(p) - 1) /\ \A i \in 1..m : i \in 1..n
      BY <1>1
    <3>2. SubSeq(p, 1, m) = [i \in 1..m |-> p[i]]
      BY <1>2, <3>1
    <3>3. SubSeq(a, 1, m) = [i \in 1..m |-> a[i]]
      BY <2>2
    <3> QED
      BY <2>2, <3>1, <3>2, <3>3
  <2> QED
    BY <2>1, <2>2, <2>3 DEF Above
<1>4. ASSUME NEW n \in 1..(Len(p) - 1), NEW a, a = SubSeq(p, 1, n)
      PROVE  /\ a \in Paths /\ Under(a, p) /\ a[1] = p[1] /\ a # p
             /\ Above(a) \subseteq Above(p)
  <2>1. /\ a \in Seq(Names) /\ a \in Paths /\ Len(a) = n /\ \A i \in 1..n : a[i] = p[i]
    BY <1>2, <1>4
  <2>2. Under(a, p)
    BY <1>1, <2>1, UnderFacts
  <2>3. \A m \in 1..(n - 1) : m \in 1..(Len(p) - 1)
    BY <1>1
  <2>4. Above(a) \subseteq Above(p)
    BY <1>3, <1>4, <2>3 DEF Above
  <2> QED
    BY <1>1, <2>1, <2>2, <2>4
<1>5. ASSUME Len(p) > 1
      PROVE  /\ DirectoryOf(p) \in Above(p) /\ <<p[1]>> \in Above(p)
             /\ Above(p) = Above(DirectoryOf(p)) \cup {DirectoryOf(p)}
  <2>1. PICK n \in 1..(Len(p) - 1) : n = Len(p) - 1
    BY <1>1, <1>5
  <2>2. DirectoryOf(p) = SubSeq(p, 1, n)
    BY <2>1 DEF DirectoryOf, Front
  <2>3. Above(DirectoryOf(p)) = {SubSeq(p, 1, m) : m \in 1..(n - 1)}
    BY <1>3, <2>2
  <2>4. 1..(Len(p) - 1) = 1..(n - 1) \cup {n} /\ 1 \in 1..(Len(p) - 1)
    BY <2>1
  <2>5. SubSeq(p, 1, 1) = <<p[1]>>
    <3>1. SubSeq(p, 1, 1) = [i \in 1..1 |-> p[i]]
      BY <1>2, <2>4
    <3>2. <<p[1]>> = [i \in 1..1 |-> p[1]]
      OBVIOUS
    <3>3. 1..1 = {1}
      OBVIOUS
    <3> QED
      BY <3>1, <3>2, <3>3
  <2> QED
    BY <2>2, <2>3, <2>4, <2>5 DEF Above
<1>6. Len(p) = 1 => Above(p) = {}
  BY DEF Above
<1> QED
  BY <1>4, <1>5, <1>6 DEF Above

LEMMA AppendFacts ==
  ASSUME NEW p \in Paths, NEW x \in Names
  PROVE  /\ Append(p, x) \in Paths /\ Append(p, x)[1] = p[1] /\ Len(Append(p, x)) > 1
         /\ DirectoryOf(Append(p, x)) = p
<1>1. PICK q : q = Append(p, x)
  OBVIOUS
<1>2. p \in Seq(Names) /\ Len(p) \in Nat /\ Len(p) >= 1
  BY DEF Paths
<1>3. /\ q \in Seq(Names) /\ Len(q) = Len(p) + 1 /\ \A i \in 1..Len(p) : q[i] = p[i]
  BY <1>1, <1>2
<1>4. SubSeq(q, 1, Len(q) - 1) = p
  <2>1. SubSeq(q, 1, Len(p)) = [i \in 1..Len(p) |-> q[i]]
    BY <1>2, <1>3
  <2>2. p = [i \in 1..Len(p) |-> p[i]]
    BY <1>2
  <2>3. Len(q) - 1 = Len(p)
    BY <1>2, <1>3
  <2> QED
    BY <1>3, <2>1, <2>2, <2>3
<1> QED
  BY <1>1, <1>2, <1>3, <1>4 DEF Paths, DirectoryOf, Front

(* A path moved below an entry.                                              *)
LEMMA JoinFacts ==
  ASSUME NEW x \in Names, NEW p \in Paths
  PROVE  /\ <<x>> \o p \in Paths /\ (<<x>> \o p)[1] = x /\ (<<x>> \o p)[2] = p[1]
         /\ Len(<<x>> \o p) = Len(p) + 1
         /\ \A i \in 1..Len(p) : (<<x>> \o p)[i + 1] = p[i]
<1>1. p \in Seq(Names) /\ Len(p) \in Nat /\ Len(p) >= 1 /\ <<x>> \in Seq(Names) /\ Len(<<x>>) = 1
  BY DEF Paths
<1>2. PICK q : q = <<x>> \o p
  OBVIOUS
<1>3. /\ q \in Seq(Names) /\ Len(q) = 1 + Len(p)
      /\ q[1] = x /\ \A i \in 1..Len(p) : q[i + 1] = p[i]
  BY <1>1, <1>2
<1>4. 1 \in 1..Len(p) /\ 1 + 1 = 2
  BY <1>1
<1> QED
  BY <1>1, <1>2, <1>3, <1>4 DEF Paths

LEMMA JoinOnce ==
  ASSUME NEW x \in Names, NEW p \in Paths, NEW q \in Paths, <<x>> \o p = <<x>> \o q
  PROVE  p = q
<1>1. /\ p \in Seq(Names) /\ Len(p) \in Nat /\ q \in Seq(Names) /\ Len(q) \in Nat
      /\ p = [i \in 1..Len(p) |-> p[i]] /\ q = [i \in 1..Len(q) |-> q[i]]
  BY DEF Paths
<1>2. PICK r : r = <<x>> \o p
  OBVIOUS
<1>3. Len(r) = Len(p) + 1 /\ Len(r) = Len(q) + 1
  BY <1>2, JoinFacts
<1>4. (\A i \in 1..Len(p) : r[i + 1] = p[i]) /\ (\A i \in 1..Len(q) : r[i + 1] = q[i])
  BY <1>2, JoinFacts
<1>5. Len(p) = Len(q)
  <2>1. \A m, n \in Nat : m + 1 = n + 1 => m = n
    OBVIOUS
  <2> QED
    BY <1>1, <1>3, <2>1
<1>6. \A i \in 1..Len(p) : p[i] = q[i]
  BY <1>4, <1>5
<1> QED
  BY <1>1, <1>5, <1>6

LEMMA JoinAbove ==
  ASSUME NEW x \in Names, NEW p \in Paths, NEW a \in Above(<<x>> \o p)
  PROVE  a = <<x>> \/ \E b \in Above(p) : a = <<x>> \o b
<1>1. PICK q : q = <<x>> \o p
  OBVIOUS
<1>2. /\ q \in Seq(Names) /\ q \in Paths /\ Len(q) = Len(p) + 1 /\ q[1] = x
      /\ \A i \in 1..Len(p) : q[i + 1] = p[i]
  BY <1>1, JoinFacts DEF Paths
<1>3. p \in Seq(Names) /\ Len(p) \in Nat /\ Len(p) >= 1
  BY DEF Paths
<1>4. PICK n \in 1..(Len(q) - 1) : a = SubSeq(q, 1, n)
  BY <1>1 DEF Above
<1>5. n \in Nat /\ n >= 1 /\ n <= Len(p) /\ a = [i \in 1..n |-> q[i]]
  BY <1>2, <1>3, <1>4
<1>6. CASE n = 1
  <2>1. <<x>> = [i \in 1..1 |-> x]
    OBVIOUS
  <2>2. 1..1 = {1}
    OBVIOUS
  <2> QED
    BY <1>2, <1>5, <1>6, <2>1, <2>2
<1>7. CASE n # 1
  <2>1. PICK b : b = SubSeq(p, 1, n - 1)
    OBVIOUS
  <2>2. n - 1 \in 1..(Len(p) - 1)
    BY <1>3, <1>5, <1>7
  <2>3. b \in Above(p) /\ b = [i \in 1..(n - 1) |-> p[i]] /\ b \in Paths /\ Len(b) = n - 1
    <3>1. b \in Above(p)
      BY <2>1, <2>2 DEF Above
    <3>2. b = [i \in 1..(n - 1) |-> p[i]] /\ b \in Seq(Names) /\ Len(b) = n - 1
      BY <1>3, <2>1, <2>2
    <3>3. n - 1 >= 1
      BY <2>2
    <3> QED
      BY <3>1, <3>2, <3>3 DEF Paths
  <2>4. PICK c : c = <<x>> \o b
    OBVIOUS
  <2>5. /\ c \in Seq(Names) /\ Len(c) = n /\ c[1] = x
        /\ \A i \in 1..Len(b) : c[i + 1] = b[i]
    <3>1. c \in Paths /\ Len(c) = Len(b) + 1 /\ c[1] = x
          /\ \A i \in 1..Len(b) : c[i + 1] = b[i]
      BY <2>3, <2>4, JoinFacts
    <3> QED
      BY <1>5, <2>3, <3>1 DEF Paths
  <2>6. \A i \in 1..n : c[i] = q[i]
    <3> TAKE i \in 1..n
    <3>1. CASE i = 1
      BY <1>2, <2>5, <3>1
    <3>2. CASE i # 1
      <4>1. PICK j \in 1..(n - 1) : i = j + 1
        <5>1. i - 1 \in 1..(n - 1) /\ i = (i - 1) + 1
          BY <1>5, <3>2
        <5> QED
          BY <5>1
      <4>2. c[i] = b[j] /\ b[j] = p[j]
        BY <2>3, <2>5, <4>1
      <4>3. j \in 1..Len(p) /\ q[i] = p[j]
        BY <1>2, <1>3, <1>5, <4>1
      <4> QED
        BY <4>2, <4>3
    <3> QED
      BY <3>1, <3>2
  <2>7. c = [i \in 1..n |-> c[i]]
    BY <2>5
  <2> QED
    BY <1>5, <2>3, <2>4, <2>6, <2>7
<1> QED
  BY <1>6, <1>7

(***************************************************************************)
(* fs_guard                                                                *)
(***************************************************************************)
LEMMA StepIn ==
  ASSUME NEW p \in Seq(Names), NEW x \in Names
  PROVE  Step(p, x) \in Seq(Names)
<1>1. CASE p = <<>>
  BY <1>1 DEF Step
<1>2. CASE p # <<>>
  <2>1. Len(p) \in Nat /\ Len(p) >= 1
    BY <1>2
  <2>2. SubSeq(p, 1, Len(p) - 1) \in Seq(Names)
    BY <2>1
  <2> QED
    BY <1>2, <2>2 DEF Step, Front
<1> QED
  BY <1>1, <1>2

(* As many steps as there are names, each from a path to a path.             *)
Walk(N, init, F, w) ==
  /\ w = [n \in 0..N |-> w[n]]
  /\ w[0] = init /\ \A n \in 1..N : w[n] = F[n][w[n - 1]]
  /\ \A n \in 0..N : w[n] \in Seq(Names)
LEMMA WalkExists ==
  ASSUME NEW N \in Nat, NEW init \in Seq(Names), NEW F,
         \A n \in 1..N : \A p \in Seq(Names) : F[n][p] \in Seq(Names)
  PROVE  \E w : Walk(N, init, F, w)
<1> DEFINE Bad == {m \in 0..N : ~\E w : Walk(m, init, F, w)}
<1>0. N \in 0..N
  OBVIOUS
<1>1. SUFFICES ASSUME Bad # {} PROVE FALSE
  BY <1>0, Zenon
<1>2. PICK m \in Bad : \A k \in Bad : m <= k
  <2>1. Bad \subseteq Nat
    OBVIOUS
  <2> HIDE DEF Bad
  <2> QED
    BY <1>1, <2>1, LeastOf
<1>3. m # 0
  <2>1. Walk(0, init, F, [n \in 0..0 |-> init])
    BY DEF Walk
  <2> QED
    BY <1>2, <2>1
<1>4. m \in 1..N /\ m - 1 \in 0..N /\ m - 1 \notin Bad
  BY <1>2, <1>3
<1>5. PICK w : Walk(m - 1, init, F, w)
  BY <1>4
<1> DEFINE h == [n \in 0..m |-> IF n = m THEN F[m][w[m - 1]] ELSE w[n]]
<1>6. /\ h = [n \in 0..m |-> h[n]] /\ h[0] = init
      /\ \A n \in 0..(m - 1) : h[n] = w[n]
      /\ h[m] = F[m][w[m - 1]]
  BY <1>4, <1>5 DEF Walk
<1>7. w[m - 1] \in Seq(Names)
  BY <1>4, <1>5 DEF Walk
<1> HIDE DEF h
<1>8. ASSUME NEW n \in 1..m PROVE h[n] = F[n][h[n - 1]]
  <2>1. CASE n = m
    <3>1. m - 1 \in 0..(m - 1)
      BY <1>4
    <3> QED
      BY <1>6, <2>1, <3>1
  <2>2. CASE n # m
    <3>1. n \in 1..(m - 1) /\ n \in 0..(m - 1) /\ n - 1 \in 0..(m - 1)
      BY <1>4, <2>2
    <3>2. w[n] = F[n][w[n - 1]]
      BY <1>5, <3>1 DEF Walk
    <3> QED
      BY <1>6, <3>1, <3>2
  <2> QED
    BY <2>1, <2>2
<1>9. ASSUME NEW n \in 0..m PROVE h[n] \in Seq(Names)
  <2>1. CASE n = m
    BY <1>4, <1>6, <1>7, <2>1
  <2>2. CASE n # m
    <3>1. n \in 0..(m - 1)
      BY <1>4, <2>2
    <3> QED
      BY <1>5, <1>6, <3>1 DEF Walk
  <2> QED
    BY <2>1, <2>2
<1>10. Walk(m, init, F, h)
  BY <1>6, <1>8, <1>9 DEF Walk
<1> QED
  BY <1>2, <1>10

LEMMA NormalIn ==
  ASSUME NEW ws \in Seq(Names), NEW g \in Given
  PROVE  Normal(ws, g) \in Seq(Names)
<1>0. g.names \in Seq(Names) /\ Len(g.names) \in Nat
  BY WorkspaceAssumption
<1> DEFINE N == Len(g.names)
           init == IF g.abs THEN <<>> ELSE ws
           F == [n \in 1..N |-> [p \in Seq(Names) |-> Step(p, g.names[n])]]
           at[n \in 0..N] == IF n = 0 THEN init ELSE Step(at[n - 1], g.names[n])
<1>1. init \in Seq(Names)
  OBVIOUS
<1>2. PICK w : Walk(N, init, F, w)
  <2>1. \A n \in 1..N : \A p \in Seq(Names) : F[n][p] \in Seq(Names)
    <3> TAKE n \in 1..N
    <3> TAKE p \in Seq(Names)
    <3>1. g.names[n] \in Names /\ F[n][p] = Step(p, g.names[n])
      BY <1>0
    <3> QED
      BY <3>1, StepIn
  <2> HIDE DEF N, F, init
  <2> QED
    BY <1>0, <1>1, <2>1, WalkExists DEF N
<1>3. ASSUME NEW n \in 1..N PROVE w[n] = Step(w[n - 1], g.names[n])
  <2>1. n - 1 \in 0..N
    BY <1>0
  <2>2. w[n - 1] \in Seq(Names)
    BY <1>2, <2>1 DEF Walk
  <2> QED
    BY <1>2, <2>2 DEF Walk
<1> HIDE DEF F, init
<1>4. w = [n \in 0..N |-> IF n = 0 THEN init ELSE Step(w[n - 1], g.names[n])]
  <2>1. \A n \in 0..N : n = 0 \/ n \in 1..N
    BY <1>0
  <2> HIDE DEF N
  <2> QED
    BY <1>2, <1>3, <2>1 DEF Walk
<1>5. at = [n \in 0..N |-> IF n = 0 THEN init ELSE Step(at[n - 1], g.names[n])]
  BY <1>4
<1>6. Normal(ws, g) = at[N]
  BY DEF Normal, init
<1> HIDE DEF at
<1> DEFINE Bad == {n \in 0..N : at[n] \notin Seq(Names)}
<1>7. Bad = {}
  <2> SUFFICES ASSUME Bad # {} PROVE FALSE
    OBVIOUS
  <2>1. PICK m \in Bad : \A k \in Bad : m <= k
    <3>1. Bad \subseteq Nat
      BY <1>0
    <3> HIDE DEF Bad
    <3> QED
      BY <3>1, LeastOf
  <2>2. m # 0
    BY <1>0, <1>1, <1>5
  <2>3. m \in 1..N /\ m - 1 \in 0..N /\ m - 1 \notin Bad
    BY <1>0, <2>1, <2>2
  <2>4. at[m - 1] \in Seq(Names) /\ g.names[m] \in Names
    <3>1. at[m - 1] \in Seq(Names)
      BY <2>3
    <3>2. \A l \in Seq(Names) : m \in 1..Len(l) => l[m] \in Names
      OBVIOUS
    <3>3. m \in 1..Len(g.names)
      BY <2>3 DEF N
    <3> QED
      BY <1>0, <3>1, <3>2, <3>3
  <2>5. at[m] = Step(at[m - 1], g.names[m])
    <3>1. m \in 0..N /\ m # 0
      BY <1>0, <2>2, <2>3
    <3> HIDE DEF Bad, N
    <3> QED
      BY <1>5, <3>1, Zenon
  <2> QED
    BY <2>1, <2>4, <2>5, StepIn
<1> QED
  BY <1>0, <1>6, <1>7

(* What a path resolves to is below the caller's own directory.              *)
LEMMA ResolveFacts ==
  ASSUME NEW u \in Users, NEW g \in Given, Resolve(Workspace(u), g) # Nothing
  PROVE  Resolve(Workspace(u), g) \in Paths /\ Resolve(Workspace(u), g)[1] = u
<1>1. u \in Names /\ <<u>> \in Seq(Names) /\ Len(<<u>>) = 1 /\ <<u>>[1] = u
  BY WorkspaceAssumption
<1>2. PICK p : p = Normal(<<u>>, g)
  OBVIOUS
<1>3. p \in Seq(Names)
  BY <1>1, <1>2, NormalIn
<1>4. Resolve(Workspace(u), g) = p /\ Under(<<u>>, p)
  BY <1>2 DEF Resolve, Workspace
<1>5. PICK s : s = <<u>>
  OBVIOUS
<1>6. Len(s) <= Len(p) /\ \A i \in 1..Len(s) : s[i] = p[i]
  <2>1. s \in Seq(Names) /\ Under(s, p)
    BY <1>1, <1>4, <1>5
  <2> QED
    BY <1>3, <2>1, UnderFacts
<1>7. Len(p) >= 1 /\ p[1] = u
  BY <1>1, <1>3, <1>5, <1>6
<1> QED
  BY <1>3, <1>4, <1>7 DEF Paths

(***************************************************************************)
(* The users' files: the inductive invariant                               *)
(***************************************************************************)
Contents == 1..Len(writes)
SlotRecords == [at : {"idle", "write", "batch"}, user : Users \cup {Nothing},
                path : Seq(Names), mode : Modes, todo : Seq(Names), since : Nat]
FilesTyped ==
  /\ Files \subseteq Paths /\ \A p \in Files : tree[p] \in Contents
  /\ dirs \subseteq Paths
  /\ writes \in Seq(Users \cup {Starting})
  /\ marker \in BOOLEAN /\ server \in {"down", "moving", "up"}
  /\ slot \in [Slots -> SlotRecords]
  /\ asked \subseteq Contents /\ seen \in [Users -> SUBSET Contents]
  /\ does \in Workloads /\ restarts \in Nat

TreeShape ==
  /\ \A p \in Files \cup dirs : Above(p) \subseteq dirs
  /\ dirs \cap Files = {}

(* A request is below its own workspace.  What a plain write did not find    *)
(* when it looked was written since.                                         *)
SlotOK(s) ==
  slot[s].at # "idle" =>
    /\ slot[s].path \in Paths /\ slot[s].user \in Users /\ slot[s].path[1] = slot[s].user
    /\ slot[s].since <= Len(writes)
    /\ slot[s].at = "write" /\ slot[s].mode = "plain" /\ slot[s].path \in Files =>
         tree[slot[s].path] > slot[s].since

(* Until the accounts are served there is nothing of theirs, and no entry of *)
(* the root has the name of one that was moved.                              *)
BeforeAccounts ==
  /\ \A p \in Files \cup dirs : p[1] \notin Members
  /\ \A p, q \in Files \cup dirs : p[1] = Admin /\ Len(p) > 1 => q[1] # p[2]
  /\ \A p \in Files : writes[tree[p]] = Starting /\ (p[1] = Admin => Len(p) > 1)

MoveOK ==
  /\ server # "up" => \A s \in Slots : slot[s] = Idle
  /\ server # "moving" => to_move = {}
  /\ to_move \subseteq Entries \ {<<Admin>>}
  /\ server = "moving" => /\ ~marker
                          /\ to_move # {} => <<Admin>> \in dirs
                          /\ \A p \in Files : p[1] = Admin \/ <<p[1]>> \in to_move \cup failed
  /\ failed # {} => does.moves_may_fail
  /\ server = "up" /\ ~marker => does.moves_may_fail
  /\ ~marker /\ server # "up" => BeforeAccounts

Owns(u, c) == writes[c] = u \/ (u = Admin /\ writes[c] = Starting)
Ownership ==
  /\ \A p \in Files : p[1] \in Users => Len(p) > 1 /\ Owns(p[1], tree[p])
  /\ marker => \A p \in Files : p[1] \in Users
  /\ \A u \in Users : \A c \in seen[u] : Owns(u, c)

FilesInv == FilesTyped /\ TreeShape /\ (\A s \in Slots : SlotOK(s)) /\ MoveOK /\ Ownership

LEMMA AdminFacts ==
  /\ Admin \in Users /\ Admin \in Names /\ Users \subseteq Names /\ Members \subseteq Users
  /\ Users = {Admin} \cup Members
  /\ Starting \notin Users /\ Idle \in SlotRecords /\ Idle.at = "idle"
  /\ <<Admin>> \in Paths /\ Len(<<Admin>>) = 1 /\ <<Admin>>[1] = Admin
<1>1. /\ Admin \in Users /\ Admin \in Names /\ Users \subseteq Names /\ Members \subseteq Users
      /\ Users = {Admin} \cup Members /\ Starting \notin Users
  BY WorkspaceAssumption DEF Users
<1>2. <<>> \in Seq(Names)
  OBVIOUS
<1>3. Idle \in SlotRecords /\ Idle.at = "idle"
  BY <1>2 DEF Idle, SlotRecords, Modes
<1>4. <<Admin>> \in Seq(Names) /\ Len(<<Admin>>) = 1 /\ <<Admin>>[1] = Admin /\ <<Admin>> # <<>>
  BY <1>1
<1> QED
  BY <1>1, <1>3, <1>4 DEF Paths

LEMMA FilesInitially == ASSUME MovesOnce, FilesInit PROVE FilesInv
<1>0. /\ does \in Workloads /\ does.legacy \subseteq DOMAIN Legacy
      /\ Legacy \in Seq(Paths)
      /\ \A i \in DOMAIN Legacy : Legacy[i] \in Paths /\ i \in 1..Len(Legacy)
  BY WorkspaceAssumption DEF FilesInit, Paths
<1>1. /\ Files = {Legacy[i] : i \in does.legacy}
      /\ \A p \in Files : tree[p] = CHOOSE i \in does.legacy : Legacy[i] = p
  BY DEF FilesInit, Files
<1>2. \A p \in Files : tree[p] \in does.legacy /\ tree[p] \in 1..Len(Legacy)
  <2> TAKE p \in Files
  <2>1. \E i \in does.legacy : Legacy[i] = p
    BY <1>1
  <2>2. tree[p] \in does.legacy
    BY <1>1, <2>1
  <2> QED
    BY <1>0, <2>2
<1>3. /\ writes = [i \in DOMAIN Legacy |-> Starting] /\ Len(writes) = Len(Legacy)
      /\ writes \in Seq(Users \cup {Starting})
      /\ \A i \in 1..Len(Legacy) : writes[i] = Starting
  BY <1>0 DEF FilesInit
<1>4. Files \subseteq Paths /\ \A p \in Files : p[1] \notin Users
  BY <1>0, <1>1 DEF MovesOnce
<1>5. /\ dirs = UNION {Above(Legacy[i]) : i \in does.legacy}
      /\ \A d \in dirs : \E i \in does.legacy : d \in Above(Legacy[i])
  BY DEF FilesInit
<1>6. ASSUME NEW d \in dirs
      PROVE  d \in Paths /\ d[1] \notin Users /\ Above(d) \subseteq dirs /\ d \notin Files
  <2>1. PICK i \in does.legacy : d \in Above(Legacy[i])
    BY <1>5
  <2>2. Legacy[i] \in Paths /\ Legacy[i][1] \notin Users
    BY <1>0, <2>1 DEF MovesOnce
  <2>3. d \in Paths /\ d[1] = Legacy[i][1] /\ Above(d) \subseteq Above(Legacy[i])
    BY <2>1, <2>2, AboveFacts
  <2>4. d \notin Files
    <3>1. \A j \in does.legacy : Legacy[j] \notin Above(Legacy[i])
      BY <1>0, <2>1, WorkspaceAssumption
    <3> QED
      BY <1>1, <2>1, <3>1
  <2> QED
    BY <1>5, <2>1, <2>2, <2>3, <2>4
<1>7. /\ marker = FALSE /\ server = "down" /\ to_move = {} /\ failed = {}
      /\ slot = [s \in Slots |-> Idle] /\ restarts = 0 /\ asked = {}
      /\ seen = [u \in Users |-> {}]
  BY DEF FilesInit
<1>8. FilesTyped
  BY <1>0, <1>2, <1>3, <1>4, <1>6, <1>7, AdminFacts DEF FilesTyped, Contents
<1>9. TreeShape
  BY <1>1, <1>5, <1>6 DEF TreeShape
<1>10. \A s \in Slots : SlotOK(s)
  BY <1>7, AdminFacts DEF SlotOK
<1>11. BeforeAccounts
  BY <1>2, <1>3, <1>4, <1>6, AdminFacts DEF BeforeAccounts
<1>12. MoveOK
  BY <1>7, <1>11 DEF MoveOK
<1>13. Ownership
  BY <1>4, <1>7 DEF Ownership
<1> QED
  BY <1>8, <1>9, <1>10, <1>12, <1>13 DEF FilesInv

(***************************************************************************)
(* The users' files: requests keep it                                      *)
(***************************************************************************)
LEMMA BusyIsUp ==
  ASSUME FilesInv, NEW s \in Slots, slot[s].at # "idle"
  PROVE  server = "up"
BY AdminFacts DEF FilesInv, MoveOK

LEMMA UpStays ==
  ASSUME FilesInv, server = "up", Quiet
  PROVE  MoveOK'
<1>1. to_move = {}
  BY DEF FilesInv, MoveOK
<1> QED
  BY <1>1 DEF FilesInv, MoveOK, Quiet

LEMMA OpenedFacts ==
  ASSUME FilesInv, NEW u \in Users
  PROVE  /\ Opened(u) \subseteq Paths /\ dirs \subseteq Opened(u) /\ <<u>> \in Opened(u)
         /\ \A d \in Opened(u) : Above(d) \subseteq dirs
         /\ Opened(u) \cap Files = {}
<1>1. <<u>> \in Paths /\ Len(<<u>>) = 1 /\ <<u>>[1] = u
  BY AdminFacts, UnderOne
<1>2. Above(<<u>>) = {}
  BY <1>1, AboveFacts
<1>3. <<u>> \notin Files
  <2>1. PICK p : p = <<u>>
    OBVIOUS
  <2>2. p \in Files => Len(p) > 1
    BY <1>1, <2>1 DEF FilesInv, Ownership
  <2>3. Len(p) = 1
    BY <1>1, <2>1
  <2> QED
    BY <2>1, <2>2, <2>3
<1>4. Opened(u) = dirs \cup {<<u>>}
  BY DEF Opened, Workspace
<1> QED
  BY <1>1, <1>2, <1>3, <1>4 DEF FilesInv, FilesTyped, TreeShape

LEMMA GrowFacts ==
  ASSUME FilesTyped, NEW u \in Users, writes' = Append(writes, u)
  PROVE  /\ writes' \in Seq(Users \cup {Starting})
         /\ Len(writes) \in Nat /\ Len(writes') = Len(writes) + 1
         /\ writes'[Len(writes) + 1] = u
         /\ \A c \in Contents : c \in Contents' /\ writes'[c] = writes[c] /\ c <= Len(writes)
         /\ Len(writes) + 1 \in Contents'
<1>1. writes \in Seq(Users \cup {Starting}) /\ Len(writes) \in Nat
  BY DEF FilesTyped
<1> QED
  BY <1>1 DEF Contents

(* A new content, in a directory that is there.                              *)
Room(p, ds) ==
  /\ ds \subseteq Paths /\ dirs \subseteq ds /\ \A d \in ds : Above(d) \subseteq ds
  /\ Above(p) \subseteq ds /\ p \notin ds /\ ds \cap Files = {}

LEMMA WrittenFacts ==
  ASSUME FilesInv, NEW p \in Paths, NEW u \in Users, p[1] = u, Len(p) > 1,
         WriteAt(p, u), Room(p, dirs'), UNCHANGED <<marker, seen>>
  PROVE  /\ Files' = Files \cup {p} /\ Files' \subseteq Paths
         /\ \A q \in Files' : tree'[q] \in Contents'
         /\ \A q \in Files' : tree'[q] = IF q = p THEN Len(writes) + 1 ELSE tree[q]
         /\ TreeShape' /\ Ownership'
<1>1. /\ writes' = Append(writes, u)
      /\ tree' = [q \in Files \cup {p} |-> IF q = p THEN Len(writes) + 1 ELSE tree[q]]
  BY DEF WriteAt, Written, NextContent
<1>2. Files' = Files \cup {p} /\ Files \subseteq Paths /\ \A q \in Files : tree[q] \in Contents
  BY <1>1 DEF Files, FilesInv, FilesTyped
<1>3. \A q \in Files' : tree'[q] = IF q = p THEN Len(writes) + 1 ELSE tree[q]
  BY <1>1, <1>2
<1>4. /\ Len(writes) + 1 \in Contents' /\ writes'[Len(writes) + 1] = u
      /\ \A c \in Contents : c \in Contents' /\ writes'[c] = writes[c]
  BY <1>1, GrowFacts DEF FilesInv
<1>5. \A q \in Files' : tree'[q] \in Contents'
  BY <1>2, <1>3, <1>4
<1>6. TreeShape'
  <2>1. \A q \in Files : Above(q) \subseteq dirs
    BY DEF FilesInv, TreeShape
  <2> QED
    BY <1>2, <2>1 DEF TreeShape, Room
<1>7. Ownership'
  <2>1. ASSUME NEW q \in Files', q[1] \in Users
        PROVE  Len(q) > 1 /\ Owns(q[1], tree[q])'
    <3>1. CASE q = p
      BY <1>3, <1>4, <2>1, <3>1 DEF Owns
    <3>2. CASE q # p
      <4>1. q \in Files /\ Len(q) > 1 /\ Owns(q[1], tree[q]) /\ tree[q] \in Contents
        BY <1>2, <2>1, <3>2 DEF FilesInv, Ownership
      <4>2. tree'[q] = tree[q]
        BY <1>3, <2>1, <3>2
      <4> QED
        BY <1>4, <4>1, <4>2 DEF Owns
    <3> QED
      BY <3>1, <3>2
  <2>2. marker' => \A q \in Files' : q[1] \in Users
    BY <1>2 DEF FilesInv, Ownership
  <2>3. \A v \in Users : \A c \in seen'[v] : Owns(v, c)'
    <3> TAKE v \in Users
    <3> TAKE c \in seen'[v]
    <3>1. c \in seen[v] /\ c \in Contents /\ Owns(v, c)
      BY DEF FilesInv, FilesTyped, Ownership
    <3> QED
      BY <1>4, <3>1 DEF Owns
  <2> QED
    BY <2>1, <2>2, <2>3 DEF Ownership
<1> QED
  BY <1>2, <1>3, <1>5, <1>6, <1>7

(* What a slot knows of what it found survives a write.                      *)
LEMMA SlotGrown ==
  ASSUME FilesTyped, NEW s \in Slots, SlotOK(s), NEW p, NEW u \in Users,
         writes' = Append(writes, u), Files' = Files \cup {p},
         \A q \in Files' : tree'[q] = IF q = p THEN Len(writes) + 1 ELSE tree[q],
         slot[s].at # "idle", slot'[s].at = slot[s].at, slot'[s].user = slot[s].user,
         slot'[s].path = slot[s].path, slot'[s].mode = slot[s].mode,
         slot'[s].since = slot[s].since
  PROVE  SlotOK(s)'
<1>1. /\ slot[s].path \in Paths /\ slot[s].user \in Users /\ slot[s].path[1] = slot[s].user
      /\ slot[s].since <= Len(writes) /\ slot[s].since \in Nat
      /\ slot[s].at = "write" /\ slot[s].mode = "plain" /\ slot[s].path \in Files =>
           tree[slot[s].path] > slot[s].since
  BY DEF SlotOK, FilesTyped, SlotRecords
<1>2. Len(writes') = Len(writes) + 1 /\ Len(writes) \in Nat
  BY GrowFacts
<1>3. ASSUME slot'[s].at = "write", slot'[s].mode = "plain", slot'[s].path \in Files'
      PROVE  tree'[slot'[s].path] > slot'[s].since
  <2>1. CASE slot[s].path = p
    BY <1>1, <1>2, <1>3, <2>1
  <2>2. CASE slot[s].path # p
    BY <1>1, <1>3, <2>2
  <2> QED
    BY <2>1, <2>2
<1> QED
  BY <1>1, <1>2, <1>3 DEF SlotOK

LEMMA WriteCheckStep ==
  ASSUME FilesInv, NEW s \in Slots, NEW u \in Users, NEW g \in Given, NEW mode \in Modes,
         WriteCheck(s, u, g, mode)
  PROVE  FilesInv'
<1>1. PICK p : p = Resolve(Workspace(u), g)
  OBVIOUS
<1>2. p \in Paths /\ p[1] = u /\ server = "up" /\ ~Refused(u, p, g, mode)
  BY <1>1, ResolveFacts DEF WriteCheck, Serving
<1>3. /\ slot' = [slot EXCEPT ![s] = [Idle EXCEPT !.at = "write", !.user = u,
                   !.path = p, !.mode = mode, !.since = Len(writes)]]
      /\ asked' = IF mode = "overwrite" /\ p \in Files THEN asked \cup {tree[p]} ELSE asked
      /\ dirs' = Opened(u) /\ UNCHANGED <<tree, writes, seen>> /\ Quiet
  BY <1>1 DEF WriteCheck
<1>4. Files' = Files /\ Contents' = Contents /\ UNCHANGED <<marker, server, does, restarts>>
  BY <1>3 DEF Files, Contents, Quiet
<1>5. PICK new : new = [Idle EXCEPT !.at = "write", !.user = u, !.path = p, !.mode = mode,
                                    !.since = Len(writes)]
  OBVIOUS
<1>6. /\ new \in SlotRecords /\ new.at = "write" /\ new.user = u /\ new.path = p
      /\ new.mode = mode /\ new.since = Len(writes)
  <2>1. Len(writes) \in Nat
    BY DEF FilesInv, FilesTyped
  <2>2. p \in Seq(Names) /\ <<>> \in Seq(Names)
    BY <1>2 DEF Paths
  <2>3. new = [at |-> "write", user |-> u, path |-> p, mode |-> mode, todo |-> <<>>,
               since |-> Len(writes)]
    BY <1>5 DEF Idle
  <2> QED
    BY <2>1, <2>2, <2>3 DEF SlotRecords
<1>7. /\ slot' \in [Slots -> SlotRecords] /\ slot'[s] = new
      /\ \A t \in Slots : t # s => slot'[t] = slot[t]
  BY <1>3, <1>5, <1>6 DEF FilesInv, FilesTyped
<1>8. FilesTyped'
  <2>1. asked' \subseteq Contents
    BY <1>3 DEF FilesInv, FilesTyped
  <2>2. dirs' \subseteq Paths
    BY <1>3, OpenedFacts
  <2> QED
    BY <1>3, <1>4, <1>7, <2>1, <2>2 DEF FilesInv, FilesTyped
<1>9. TreeShape'
  <2>1. \A q \in Files : Above(q) \subseteq dirs
    BY DEF FilesInv, TreeShape
  <2> QED
    BY <1>3, <1>4, <2>1, OpenedFacts DEF TreeShape
<1>10. ASSUME NEW t \in Slots PROVE SlotOK(t)'
  <2>1. CASE t = s
    <3>1. ~(mode = "plain" /\ p \in Files)
      BY <1>2 DEF Refused
    <3>2. Len(writes) <= Len(writes)
      BY DEF FilesInv, FilesTyped
    <3> QED
      BY <1>2, <1>3, <1>4, <1>6, <1>7, <2>1, <3>1, <3>2 DEF SlotOK
  <2>2. CASE t # s
    BY <1>3, <1>4, <1>7, <2>2 DEF FilesInv, SlotOK
  <2> QED
    BY <2>1, <2>2
<1>11. Ownership'
  BY <1>3, <1>4 DEF FilesInv, Ownership, Owns
<1> QED
  BY <1>2, <1>3, <1>8, <1>9, <1>10, <1>11, UpStays DEF FilesInv

LEMMA WriteFileStep ==
  ASSUME FilesInv, NEW s \in Slots, WriteFile(s)
  PROVE  FilesInv'
<1>1. PICK p, u : p = slot[s].path /\ u = slot[s].user
  OBVIOUS
<1>2. p \in Paths /\ u \in Users /\ p[1] = u /\ server = "up"
  BY <1>1, BusyIsUp DEF WriteFile, FilesInv, SlotOK
<1>3. /\ dirs' = IF Above(p) \cap Files = {} THEN dirs \cup Above(p) ELSE dirs
      /\ slot' = [slot EXCEPT ![s] = Idle] /\ UNCHANGED seen /\ Quiet
      /\ \/ UNCHANGED <<tree, writes, asked>>
         \/ /\ p \notin dirs /\ DirectoryOf(p) \in dirs' /\ WriteAt(p, u)
            /\ asked' = IF slot[s].mode = "overwrite" /\ p \in Files
                        THEN asked \cup {tree[p]} ELSE asked
  BY <1>1 DEF WriteFile
<1>4. /\ slot' \in [Slots -> SlotRecords] /\ slot'[s].at = "idle"
      /\ \A t \in Slots : t # s => slot'[t] = slot[t]
  BY <1>3, AdminFacts DEF FilesInv, FilesTyped
<1>5. UNCHANGED <<marker, server, does, restarts>>
  BY <1>3 DEF Quiet
<1>6. /\ dirs' \subseteq Paths /\ dirs \subseteq dirs' /\ dirs' \cap Files = {}
      /\ \A d \in dirs' : Above(d) \subseteq dirs'
      /\ \A d \in dirs' : d \in dirs \/ d \in Above(p)
  <2>1. \A a \in Above(p) : a \in Paths /\ Above(a) \subseteq Above(p)
    BY <1>2, AboveFacts
  <2> QED
    BY <1>3, <2>1 DEF FilesInv, FilesTyped, TreeShape
<1>7. CASE UNCHANGED <<tree, writes, asked>>
  <2>1. Files' = Files /\ Contents' = Contents
    BY <1>7 DEF Files, Contents
  <2>2. FilesTyped'
    BY <1>3, <1>4, <1>5, <1>6, <1>7, <2>1 DEF FilesInv, FilesTyped
  <2>3. TreeShape'
    BY <1>6, <2>1 DEF FilesInv, TreeShape
  <2>4. \A t \in Slots : SlotOK(t)'
    BY <1>4, <1>7, <2>1 DEF FilesInv, SlotOK
  <2>5. Ownership'
    BY <1>3, <1>5, <1>7, <2>1 DEF FilesInv, Ownership, Owns
  <2> QED
    BY <1>2, <1>3, <2>2, <2>3, <2>4, <2>5, UpStays DEF FilesInv
<1>8. CASE /\ p \notin dirs /\ DirectoryOf(p) \in dirs' /\ WriteAt(p, u)
           /\ asked' = IF slot[s].mode = "overwrite" /\ p \in Files
                       THEN asked \cup {tree[p]} ELSE asked
  <2>1. Len(p) > 1
    <3>1. DirectoryOf(p) # <<>>
      BY <1>6, <1>8 DEF Paths
    <3>2. Len(p) \in Nat /\ Len(p) >= 1
      BY <1>2 DEF Paths
    <3>3. Len(p) # 1
      <4> SUFFICES ASSUME Len(p) = 1 PROVE FALSE
        OBVIOUS
      <4>1. Len(p) - 1 = 0 /\ SubSeq(p, 1, 0) = <<>>
        BY <1>2 DEF Paths
      <4>2. DirectoryOf(p) = SubSeq(p, 1, Len(p) - 1)
        BY DEF DirectoryOf, Front
      <4>3. DirectoryOf(p) = SubSeq(p, 1, 0)
        BY <4>1, <4>2
      <4> QED
        BY <3>1, <4>1, <4>3
    <3>4. \A n \in Nat : n >= 1 /\ n # 1 => n > 1
      OBVIOUS
    <3> QED
      BY <3>2, <3>3, <3>4
  <2>2. Room(p, dirs')
    <3>1. p \notin Above(p)
      BY <1>2, AboveFacts
    <3>2. Above(p) = Above(DirectoryOf(p)) \cup {DirectoryOf(p)}
      BY <1>2, <2>1, AboveFacts
    <3> QED
      BY <1>6, <1>8, <3>1, <3>2 DEF Room
  <2>3. UNCHANGED <<marker, seen>>
    BY <1>3, <1>5
  <2>4. /\ Files' = Files \cup {p} /\ Files' \subseteq Paths
        /\ \A q \in Files' : tree'[q] \in Contents'
        /\ \A q \in Files' : tree'[q] = IF q = p THEN Len(writes) + 1 ELSE tree[q]
        /\ TreeShape' /\ Ownership'
    BY <1>2, <1>8, <2>1, <2>2, <2>3, WrittenFacts
  <2>5. writes' = Append(writes, u)
    BY <1>8 DEF WriteAt
  <2>6. writes' \in Seq(Users \cup {Starting}) /\ \A c \in Contents : c \in Contents'
    BY <1>2, <2>5, GrowFacts DEF FilesInv
  <2>7. FilesTyped'
    <3>1. asked' \subseteq Contents' /\ seen' \in [Users -> SUBSET Contents']
      BY <1>3, <1>8, <2>6 DEF FilesInv, FilesTyped
    <3> QED
      BY <1>4, <1>5, <1>6, <2>4, <2>6, <3>1 DEF FilesInv, FilesTyped
  <2>8. ASSUME NEW t \in Slots PROVE SlotOK(t)'
    <3>1. CASE t = s \/ slot[t].at = "idle"
      BY <1>4, <3>1 DEF SlotOK
    <3>2. CASE t # s /\ slot[t].at # "idle"
      BY <1>2, <1>4, <2>4, <2>5, <3>2, SlotGrown DEF FilesInv
    <3> QED
      BY <3>1, <3>2
  <2> QED
    BY <1>2, <1>3, <2>4, <2>7, <2>8, UpStays DEF FilesInv
<1> QED
  BY <1>3, <1>7, <1>8

LEMMA UploadStep ==
  ASSUME FilesInv, NEW s \in Slots, NEW u \in Users, NEW name \in Names, Upload(s, u, name)
  PROVE  FilesInv'
<1>1. PICK p : p = Append(Workspace(u), name)
  OBVIOUS
<1>2. /\ p \notin Files \cup dirs /\ dirs' = Opened(u) /\ WriteAt(p, u) /\ server = "up"
      /\ UNCHANGED <<slot, asked, seen>> /\ Quiet
  BY <1>1 DEF Upload, Serving
<1>3. /\ <<u>> \in Paths /\ <<u>>[1] = u /\ p \in Paths /\ p[1] = u /\ Len(p) > 1
      /\ DirectoryOf(p) = <<u>>
  <2>1. <<u>> \in Paths /\ <<u>>[1] = u
    BY AdminFacts, UnderOne
  <2> QED
    BY <1>1, <2>1, AppendFacts DEF Workspace
<1>4. Room(p, dirs')
  <2>1. Above(p) = Above(<<u>>) \cup {<<u>>}
    BY <1>3, AboveFacts
  <2>2. <<u>> \in Opened(u) /\ Above(<<u>>) \subseteq dirs /\ dirs \subseteq Opened(u)
    BY OpenedFacts
  <2>3. p \notin Opened(u)
    <3>1. p # <<u>>
      <4>1. PICK q : q = <<u>>
        OBVIOUS
      <4>2. Len(q) = 1
        BY <4>1
      <4>3. Len(p) \in Nat /\ Len(p) > 1
        BY <1>3 DEF Paths
      <4>4. \A n \in Nat : n > 1 => n # 1
        OBVIOUS
      <4>5. Len(p) # 1
        BY <4>3, <4>4
      <4> QED
        BY <4>1, <4>2, <4>5
    <3> QED
      BY <1>2, <3>1 DEF Opened, Workspace
  <2> QED
    BY <1>2, <2>1, <2>2, <2>3, OpenedFacts DEF Room
<1>5. UNCHANGED <<marker, server, seen, does, restarts>>
  BY <1>2 DEF Quiet
<1>6. /\ Files' = Files \cup {p} /\ Files' \subseteq Paths
      /\ \A q \in Files' : tree'[q] \in Contents'
      /\ \A q \in Files' : tree'[q] = IF q = p THEN Len(writes) + 1 ELSE tree[q]
      /\ TreeShape' /\ Ownership'
  BY <1>2, <1>3, <1>4, <1>5, WrittenFacts
<1>7. writes' = Append(writes, u)
  BY <1>2 DEF WriteAt
<1>8. writes' \in Seq(Users \cup {Starting}) /\ \A c \in Contents : c \in Contents'
  BY <1>7, GrowFacts DEF FilesInv
<1>9. FilesTyped'
  <2>1. asked' \subseteq Contents' /\ seen' \in [Users -> SUBSET Contents']
    BY <1>2, <1>8 DEF FilesInv, FilesTyped
  <2> QED
    BY <1>2, <1>4, <1>5, <1>6, <1>8, <2>1 DEF FilesInv, FilesTyped, Room
<1>10. ASSUME NEW t \in Slots PROVE SlotOK(t)'
  <2>1. CASE slot[t].at = "idle"
    BY <1>2, <2>1 DEF SlotOK
  <2>2. CASE slot[t].at # "idle"
    BY <1>2, <1>6, <1>7, <2>2, SlotGrown DEF FilesInv
  <2> QED
    BY <2>1, <2>2
<1> QED
  BY <1>2, <1>6, <1>9, <1>10, UpStays DEF FilesInv

LEMMA BatchStartStep ==
  ASSUME FilesInv, NEW s \in Slots, NEW u \in Users, NEW b \in Batches, BatchStart(s, u, b)
  PROVE  FilesInv'
<1>1. PICK p : p = Append(Workspace(u), b.folder)
  OBVIOUS
<1>2. /\ p \notin Files /\ dirs' = Opened(u) \cup {p} /\ server = "up"
      /\ slot' = [slot EXCEPT ![s] = [Idle EXCEPT !.at = "batch", !.user = u,
                   !.path = p, !.todo = b.names]]
      /\ UNCHANGED <<tree, writes, asked, seen>> /\ Quiet
  BY <1>1 DEF BatchStart, Serving
<1>3. /\ <<u>> \in Paths /\ p \in Paths /\ p[1] = u /\ Len(p) > 1 /\ DirectoryOf(p) = <<u>>
  <2>1. <<u>> \in Paths /\ <<u>>[1] = u
    BY AdminFacts, UnderOne
  <2>2. b.folder \in Names
    BY WorkspaceAssumption
  <2> QED
    BY <1>1, <2>1, <2>2, AppendFacts DEF Workspace
<1>4. Files' = Files /\ Contents' = Contents /\ UNCHANGED <<marker, server, does, restarts>>
  BY <1>2 DEF Files, Contents, Quiet
<1>5. PICK new : new = [Idle EXCEPT !.at = "batch", !.user = u, !.path = p, !.todo = b.names]
  OBVIOUS
<1>6. new \in SlotRecords /\ new.at = "batch" /\ new.user = u /\ new.path = p /\ new.since = 0
  <2>1. p \in Seq(Names) /\ b.names \in Seq(Names)
    BY <1>3, WorkspaceAssumption DEF Paths
  <2>2. new = [at |-> "batch", user |-> u, path |-> p, mode |-> "plain", todo |-> b.names,
               since |-> 0]
    BY <1>5 DEF Idle
  <2> QED
    BY <2>1, <2>2 DEF SlotRecords, Modes
<1>7. /\ slot' \in [Slots -> SlotRecords] /\ slot'[s] = new
      /\ \A t \in Slots : t # s => slot'[t] = slot[t]
  BY <1>2, <1>5, <1>6 DEF FilesInv, FilesTyped
<1>8. FilesTyped'
  <2>1. dirs' \subseteq Paths
    BY <1>2, <1>3, OpenedFacts
  <2> QED
    BY <1>2, <1>4, <1>7, <2>1 DEF FilesInv, FilesTyped
<1>9. TreeShape'
  <2>1. Above(p) = Above(<<u>>) \cup {<<u>>}
    BY <1>3, AboveFacts
  <2>2. /\ <<u>> \in Opened(u) /\ dirs \subseteq Opened(u)
        /\ \A d \in Opened(u) : Above(d) \subseteq dirs
        /\ Opened(u) \cap Files = {}
    BY OpenedFacts
  <2>3. \A q \in Files : Above(q) \subseteq dirs
    BY DEF FilesInv, TreeShape
  <2> QED
    BY <1>2, <1>4, <2>1, <2>2, <2>3 DEF TreeShape
<1>10. ASSUME NEW t \in Slots PROVE SlotOK(t)'
  <2>1. CASE t = s
    <3>1. 0 <= Len(writes)
      BY DEF FilesInv, FilesTyped
    <3> QED
      BY <1>2, <1>3, <1>6, <1>7, <2>1, <3>1 DEF SlotOK
  <2>2. CASE t # s
    BY <1>2, <1>4, <1>7, <2>2 DEF FilesInv, SlotOK
  <2> QED
    BY <2>1, <2>2
<1>11. Ownership'
  BY <1>2, <1>4 DEF FilesInv, Ownership, Owns
<1> QED
  BY <1>2, <1>8, <1>9, <1>10, <1>11, UpStays DEF FilesInv

LEMMA BatchOneStep ==
  ASSUME FilesInv, NEW s \in Slots, BatchOne(s)
  PROVE  FilesInv'
<1>1. PICK folder, u, p : /\ folder = slot[s].path /\ u = slot[s].user
                          /\ p = Append(slot[s].path, Head(slot[s].todo))
  OBVIOUS
<1>2. /\ slot[s] \in SlotRecords /\ slot[s].todo \in Seq(Names) /\ slot[s].todo # <<>>
      /\ slot[s].at = "batch" /\ server = "up"
      /\ folder \in Paths /\ u \in Users /\ folder[1] = u
  BY <1>1, BusyIsUp DEF BatchOne, FilesInv, FilesTyped, SlotOK, SlotRecords
<1>3. p \in Paths /\ p[1] = u /\ Len(p) > 1 /\ DirectoryOf(p) = folder
  <2>1. Head(slot[s].todo) \in Names
    BY <1>2
  <2> QED
    BY <1>1, <1>2, <2>1, AppendFacts
<1>4. /\ slot' = [slot EXCEPT ![s].todo = Tail(@)] /\ UNCHANGED <<dirs, seen>> /\ Quiet
      /\ \/ UNCHANGED <<tree, writes, asked>>
         \/ /\ p \notin dirs /\ DirectoryOf(p) \in dirs /\ WriteAt(p, u)
            /\ asked' = IF p \in Files THEN asked \cup {tree[p]} ELSE asked
  BY <1>1 DEF BatchOne, Opens
<1>5. /\ slot' \in [Slots -> SlotRecords]
      /\ \A t \in Slots : /\ slot'[t].at = slot[t].at /\ slot'[t].user = slot[t].user
                          /\ slot'[t].path = slot[t].path /\ slot'[t].mode = slot[t].mode
                          /\ slot'[t].since = slot[t].since
  <2>0. PICK l \in Seq(Names) : l = slot[s].todo /\ l # <<>>
    BY <1>2
  <2>1. PICK todo \in Seq(Names) : todo = Tail(slot[s].todo)
    <3>1. Tail(l) \in Seq(Names)
      BY <2>0
    <3> QED
      BY <2>0, <3>1
  <2>2. slot' = [slot EXCEPT ![s].todo = todo]
    BY <1>4, <2>1
  <2> QED
    BY <1>2, <2>2 DEF FilesInv, FilesTyped, SlotRecords
<1>6. UNCHANGED <<marker, server, does, restarts>>
  BY <1>4 DEF Quiet
<1>7. CASE UNCHANGED <<tree, writes, asked>>
  <2>1. Files' = Files /\ Contents' = Contents
    BY <1>7 DEF Files, Contents
  <2>2. FilesTyped'
    BY <1>4, <1>5, <1>6, <1>7, <2>1 DEF FilesInv, FilesTyped
  <2>3. TreeShape'
    BY <1>4, <2>1 DEF FilesInv, TreeShape
  <2>4. \A t \in Slots : SlotOK(t)'
    BY <1>5, <1>7, <2>1 DEF FilesInv, SlotOK
  <2>5. Ownership'
    BY <1>4, <1>6, <1>7, <2>1 DEF FilesInv, Ownership, Owns
  <2> QED
    BY <1>2, <1>4, <2>2, <2>3, <2>4, <2>5, UpStays DEF FilesInv
<1>8. CASE /\ p \notin dirs /\ DirectoryOf(p) \in dirs /\ WriteAt(p, u)
           /\ asked' = IF p \in Files THEN asked \cup {tree[p]} ELSE asked
  <2>1. Room(p, dirs')
    <3>1. Above(p) = Above(DirectoryOf(p)) \cup {DirectoryOf(p)}
      BY <1>3, AboveFacts
    <3> QED
      BY <1>4, <1>8, <3>1 DEF Room, FilesInv, FilesTyped, TreeShape
  <2>2. UNCHANGED <<marker, seen>>
    BY <1>4, <1>6
  <2>3. /\ Files' = Files \cup {p} /\ Files' \subseteq Paths
        /\ \A q \in Files' : tree'[q] \in Contents'
        /\ \A q \in Files' : tree'[q] = IF q = p THEN Len(writes) + 1 ELSE tree[q]
        /\ TreeShape' /\ Ownership'
    BY <1>2, <1>3, <1>8, <2>1, <2>2, WrittenFacts
  <2>4. writes' = Append(writes, u)
    BY <1>8 DEF WriteAt
  <2>5. writes' \in Seq(Users \cup {Starting}) /\ \A c \in Contents : c \in Contents'
    BY <1>2, <2>4, GrowFacts DEF FilesInv
  <2>6. FilesTyped'
    <3>1. asked' \subseteq Contents' /\ seen' \in [Users -> SUBSET Contents']
      BY <1>4, <1>8, <2>5 DEF FilesInv, FilesTyped
    <3> QED
      BY <1>4, <1>5, <1>6, <2>3, <2>5, <3>1 DEF FilesInv, FilesTyped
  <2>7. ASSUME NEW t \in Slots PROVE SlotOK(t)'
    <3>1. CASE slot[t].at = "idle"
      BY <1>5, <3>1 DEF SlotOK
    <3>2. CASE slot[t].at # "idle"
      BY <1>2, <1>5, <2>3, <2>4, <3>2, SlotGrown DEF FilesInv
    <3> QED
      BY <3>1, <3>2
  <2> QED
    BY <1>2, <1>4, <2>3, <2>6, <2>7, UpStays DEF FilesInv
<1> QED
  BY <1>4, <1>7, <1>8

LEMMA BatchDoneStep ==
  ASSUME FilesInv, NEW s \in Slots, BatchDone(s)
  PROVE  FilesInv'
<1>1. server = "up"
  BY BusyIsUp DEF BatchDone
<1>2. /\ slot' = [slot EXCEPT ![s] = Idle]
      /\ UNCHANGED <<tree, dirs, writes, asked, seen>> /\ Quiet
  BY DEF BatchDone
<1>3. /\ slot' \in [Slots -> SlotRecords] /\ slot'[s].at = "idle"
      /\ \A t \in Slots : t # s => slot'[t] = slot[t]
  BY <1>2, AdminFacts DEF FilesInv, FilesTyped
<1>4. Files' = Files /\ Contents' = Contents /\ UNCHANGED <<marker, server, does, restarts>>
  BY <1>2 DEF Files, Contents, Quiet
<1>5. FilesTyped' /\ TreeShape'
  BY <1>2, <1>3, <1>4 DEF FilesInv, FilesTyped, TreeShape
<1>6. \A t \in Slots : SlotOK(t)'
  BY <1>2, <1>3, <1>4 DEF FilesInv, SlotOK
<1>7. Ownership'
  BY <1>2, <1>4 DEF FilesInv, Ownership, Owns
<1> QED
  BY <1>1, <1>2, <1>5, <1>6, <1>7, UpStays DEF FilesInv

LEMMA DeleteStep ==
  ASSUME FilesInv, NEW s \in Slots, NEW u \in Users, NEW g \in Given, Delete(s, u, g)
  PROVE  FilesInv'
<1>1. PICK p : p = Resolve(Workspace(u), g)
  OBVIOUS
<1>2. PICK gone : gone = {q \in Files : Under(p, q)}
  OBVIOUS
<1>3. /\ asked' = asked \cup {tree[q] : q \in gone}
      /\ tree' = Without(gone) /\ dirs' = {d \in Opened(u) : ~Under(p, d)}
      /\ UNCHANGED <<slot, writes, seen>> /\ Quiet /\ server = "up"
  BY <1>1, <1>2 DEF Delete, Serving
<1>4. p \in Paths
  BY <1>1, ResolveFacts DEF Delete
<1>5. /\ Files' = Files \ gone /\ \A q \in Files' : tree'[q] = tree[q] /\ q \in Files
      /\ Contents' = Contents /\ UNCHANGED <<marker, server, does, restarts>>
  BY <1>3 DEF Files, Without, Contents, Quiet
<1>6. FilesTyped'
  <2>1. asked' \subseteq Contents
    BY <1>2, <1>3 DEF FilesInv, FilesTyped
  <2>2. dirs' \subseteq Paths
    BY <1>3, OpenedFacts
  <2> QED
    BY <1>3, <1>5, <2>1, <2>2 DEF FilesInv, FilesTyped
<1>7. TreeShape'
  <2>1. ASSUME NEW q \in Files' \cup dirs', NEW a \in Above(q) PROVE a \in dirs'
    <3>1. q \in Paths /\ ~Under(p, q) /\ Above(q) \subseteq dirs
      BY <1>2, <1>3, <1>5, OpenedFacts DEF FilesInv, FilesTyped, TreeShape
    <3>2. a \in Paths /\ Under(a, q)
      BY <3>1, AboveFacts
    <3>3. ~Under(p, a)
      BY <1>4, <3>1, <3>2, UnderTrans
    <3>4. a \in Opened(u)
      BY <3>1, OpenedFacts
    <3> QED
      BY <1>3, <3>3, <3>4
  <2>2. dirs' \cap Files' = {}
    BY <1>3, <1>5, OpenedFacts
  <2> QED
    BY <2>1, <2>2 DEF TreeShape
<1>8. \A t \in Slots : SlotOK(t)'
  BY <1>3, <1>5 DEF FilesInv, SlotOK
<1>9. Ownership'
  BY <1>3, <1>5 DEF FilesInv, Ownership, Owns
<1> QED
  BY <1>3, <1>6, <1>7, <1>8, <1>9, UpStays DEF FilesInv

LEMMA ReadFileStep ==
  ASSUME FilesInv, NEW s \in Slots, NEW u \in Users, NEW g \in Given, ReadFile(s, u, g)
  PROVE  FilesInv'
<1>1. PICK p : p = Resolve(Workspace(u), g)
  OBVIOUS
<1>2. PICK shown : shown = {tree[q] : q \in {f \in Files : Under(p, f)}}
  OBVIOUS
<1>3. /\ seen' = [seen EXCEPT ![u] = @ \cup shown] /\ dirs' = Opened(u)
      /\ UNCHANGED <<tree, slot, writes, asked>> /\ Quiet /\ server = "up"
  BY <1>1, <1>2 DEF ReadFile, Serving
<1>4. p \in Paths /\ p[1] = u
  BY <1>1, ResolveFacts DEF ReadFile
<1>5. Files' = Files /\ Contents' = Contents /\ UNCHANGED <<marker, server, does, restarts>>
  BY <1>3 DEF Files, Contents, Quiet
<1>6. ASSUME NEW c \in shown PROVE c \in Contents /\ Owns(u, c)
  <2>1. PICK q \in Files : c = tree[q] /\ Under(p, q)
    BY <1>2
  <2>2. q \in Paths
    BY DEF FilesInv, FilesTyped
  <2>3. q[1] = u
    <3>1. Len(p) >= 1 /\ Len(p) \in Nat /\ \A i \in 1..Len(p) : p[i] = q[i]
      BY <1>4, <2>1, <2>2, UnderFacts DEF Paths
    <3> QED
      BY <1>4, <3>1
  <2> QED
    BY <2>1, <2>3 DEF FilesInv, FilesTyped, Ownership
<1>7. /\ seen' \in [Users -> SUBSET Contents]
      /\ \A v \in Users : \A c \in seen'[v] : Owns(v, c)
  <2>1. seen \in [Users -> SUBSET Contents] /\ \A v \in Users : \A c \in seen[v] : Owns(v, c)
    BY DEF FilesInv, FilesTyped, Ownership
  <2>2. \A v \in Users : seen'[v] = IF v = u THEN seen[u] \cup shown ELSE seen[v]
    BY <1>3, <2>1
  <2>3. seen' \in [Users -> SUBSET Contents]
    BY <1>3, <1>6, <2>1
  <2> QED
    BY <1>6, <2>1, <2>2, <2>3
<1>8. FilesTyped'
  <2>1. dirs' \subseteq Paths
    BY <1>3, OpenedFacts
  <2> QED
    BY <1>3, <1>5, <1>7, <2>1 DEF FilesInv, FilesTyped
<1>9. TreeShape'
  <2>1. \A q \in Files : Above(q) \subseteq dirs
    BY DEF FilesInv, TreeShape
  <2> QED
    BY <1>3, <1>5, <2>1, OpenedFacts DEF TreeShape
<1>10. \A t \in Slots : SlotOK(t)'
  BY <1>3, <1>5 DEF FilesInv, SlotOK
<1>11. Ownership'
  BY <1>3, <1>5, <1>7 DEF FilesInv, Ownership, Owns
<1> QED
  BY <1>3, <1>8, <1>9, <1>10, <1>11, UpStays DEF FilesInv

(***************************************************************************)
(* The users' files: the server starts, moves what was there and stops     *)
(***************************************************************************)
LEMMA BeforeOwned ==
  ASSUME BeforeAccounts, NEW p \in Files, p[1] \in Users
  PROVE  Len(p) > 1 /\ Owns(p[1], tree[p])
BY AdminFacts DEF BeforeAccounts, Owns

LEMMA StartStep ==
  ASSUME FilesInv, StartServer
  PROVE  FilesInv'
<1>1. /\ server = "down" /\ failed' = {} /\ to_move = {}
      /\ UNCHANGED <<tree, marker, slot, restarts, does, writes, asked, seen>>
  BY DEF StartServer, history, FilesInv, MoveOK
<1>2. Files' = Files /\ Contents' = Contents
  BY <1>1 DEF Files, Contents
<1>3. \A s \in Slots : slot[s] = Idle
  BY <1>1 DEF FilesInv, MoveOK
<1>4. \A s \in Slots : SlotOK(s)'
  BY <1>1, <1>3, AdminFacts DEF SlotOK
<1>5. Ownership'
  BY <1>1, <1>2 DEF FilesInv, Ownership, Owns
<1>6. CASE marker
  <2>1. server' = "up" /\ UNCHANGED <<dirs, to_move>>
    BY <1>6 DEF StartServer
  <2>2. FilesTyped' /\ TreeShape'
    BY <1>1, <1>2, <2>1 DEF FilesInv, FilesTyped, TreeShape
  <2>3. MoveOK'
    BY <1>1, <1>3, <1>6, <2>1 DEF MoveOK
  <2> QED
    BY <1>4, <1>5, <2>2, <2>3 DEF FilesInv
<1>7. CASE ~marker
  <2>1. /\ server' = "moving" /\ to_move' = ToMove
        /\ dirs' = IF ToMove = {} THEN dirs ELSE dirs \cup {<<Admin>>}
    BY <1>7 DEF StartServer
  <2>2. BeforeAccounts
    BY <1>1, <1>7 DEF FilesInv, MoveOK
  <2>3. PICK a : a = <<Admin>>
    OBVIOUS
  <2>4. a \in Paths /\ Len(a) = 1 /\ a[1] = Admin /\ Above(a) = {}
    BY <2>3, AdminFacts, AboveFacts
  <2>5. \A d \in dirs' : d \in dirs \/ d = a
    BY <2>1, <2>3
  <2>6. a \notin Files
    BY <2>2, <2>4 DEF BeforeAccounts
  <2>7. FilesTyped'
    <3>1. dirs' \subseteq Paths
      BY <2>4, <2>5 DEF FilesInv, FilesTyped
    <3> QED
      BY <1>1, <1>2, <2>1, <3>1 DEF FilesInv, FilesTyped
  <2>8. TreeShape'
    BY <1>2, <2>1, <2>4, <2>5, <2>6 DEF FilesInv, TreeShape
  <2>9. BeforeAccounts'
    <3>1. \A p \in Files' \cup dirs' : p[1] \notin Members
      BY <1>2, <2>2, <2>4, <2>5, WorkspaceAssumption DEF BeforeAccounts
    <3>2. ASSUME NEW p \in Files' \cup dirs', NEW q \in Files' \cup dirs',
                 p[1] = Admin, Len(p) > 1
          PROVE  q[1] # p[2]
      <4>0. p # a
        <5>1. Len(a) \in Nat /\ ~(Len(a) > 1)
          BY <2>4
        <5>2. p = a => Len(p) = Len(a)
          OBVIOUS
        <5> QED
          BY <3>2, <5>1, <5>2, Zenon
      <4>1. p \in Files \cup dirs
        BY <1>2, <2>5, <4>0
      <4>2. p[2] # Admin
        BY <2>2, <3>2, <4>1 DEF BeforeAccounts
      <4> QED
        BY <1>2, <2>2, <2>4, <2>5, <3>2, <4>1, <4>2 DEF BeforeAccounts
    <3>3. \A p \in Files' : writes'[tree'[p]] = Starting /\ (p[1] = Admin => Len(p) > 1)
      BY <1>1, <1>2, <2>2 DEF BeforeAccounts
    <3> QED
      BY <3>1, <3>2, <3>3 DEF BeforeAccounts
  <2>10. Entries \subseteq Entries'
    BY <1>2, <2>1 DEF Entries
  <2>11. to_move' \subseteq Entries' \ {<<Admin>>}
    BY <2>1, <2>10 DEF ToMove
  <2>12. to_move' # {} => <<Admin>> \in dirs'
    BY <2>1
  <2>13. ASSUME NEW p \in Files', p[1] # Admin
         PROVE  <<p[1]>> \in to_move'
    <3>1. <<p[1]>> \in Entries
      BY <1>2 DEF Entries
    <3>2. <<p[1]>> # <<Admin>>
      BY <2>13
    <3> QED
      BY <2>1, <3>1, <3>2 DEF ToMove
  <2>14. MoveOK'
    BY <1>1, <1>3, <1>7, <2>1, <2>9, <2>11, <2>12, <2>13 DEF MoveOK
  <2> QED
    BY <1>4, <1>5, <2>7, <2>8, <2>14 DEF FilesInv
<1> QED
  BY <1>6, <1>7

(* An entry that is to be moved: its place below the administrator is free.  *)
EntryOf(e, x) ==
  /\ x \in Names /\ x # Admin /\ e = <<x>> /\ \E q \in Files \cup dirs : q[1] = x
  /\ \A p \in Paths : Under(e, p) <=> p[1] = x
  /\ \A p \in Files \cup dirs : ~(p[1] = Admin /\ Len(p) > 1 /\ p[2] = x)

LEMMA EntryFacts ==
  ASSUME FilesInv, server = "moving", NEW e \in to_move
  PROVE  /\ \E x : EntryOf(e, x)
         /\ <<Admin>> \o e \notin Files \cup dirs
<1>1. BeforeAccounts /\ e \in Entries /\ e # <<Admin>>
  BY DEF FilesInv, MoveOK
<1>2. PICK q \in Files \cup dirs : e = <<q[1]>>
  BY <1>1 DEF Entries
<1>3. q \in Paths
  BY DEF FilesInv, FilesTyped
<1>4. PICK x : x = q[1]
  OBVIOUS
<1>5. x \in Names /\ x # Admin /\ e = <<x>>
  BY <1>1, <1>2, <1>3, <1>4, AdminFacts, UnderOne
<1>6. \A p \in Paths : Under(e, p) <=> p[1] = x
  BY <1>5, UnderOne
<1>7. \A p \in Files \cup dirs : ~(p[1] = Admin /\ Len(p) > 1 /\ p[2] = x)
  BY <1>1, <1>4 DEF BeforeAccounts
<1>8. EntryOf(e, x)
  BY <1>4, <1>5, <1>6, <1>7 DEF EntryOf
<1>9. <<Admin>> \o e \notin Files \cup dirs
  <2>1. PICK f : f = <<x>>
    OBVIOUS
  <2>2. f \in Paths /\ Len(f) = 1 /\ f[1] = x
    BY <1>5, <2>1, AdminFacts, UnderOne
  <2>3. PICK t : t = <<Admin>> \o f
    OBVIOUS
  <2>4. t[1] = Admin /\ t[2] = x /\ Len(t) = 1 + 1
    BY <2>2, <2>3, AdminFacts, JoinFacts
  <2>5. t \notin Files \cup dirs
    BY <1>7, <2>4
  <2> QED
    BY <1>5, <2>1, <2>3, <2>5
<1> QED
  BY <1>8, <1>9

(* Where a path goes, and that no two go to one place.                       *)
LEMMA MovedFacts ==
  ASSUME NEW e, NEW x, EntryOf(e, x), NEW p \in Paths
  PROVE  /\ Moved(e, p) \in Paths
         /\ p[1] # x => Moved(e, p) = p
         /\ p[1] = x => /\ Moved(e, p) = <<Admin>> \o p /\ Moved(e, p)[1] = Admin
                        /\ Moved(e, p)[2] = x /\ Len(Moved(e, p)) > 1
<1>1. Under(e, p) <=> p[1] = x
  BY DEF EntryOf
<1>2. p[1] # x => Moved(e, p) = p
  BY <1>1 DEF Moved
<1>3. CASE p[1] = x
  <2>1. Moved(e, p) = <<Admin>> \o p
    BY <1>1, <1>3 DEF Moved
  <2>2. PICK t : t = <<Admin>> \o p
    OBVIOUS
  <2>3. t \in Paths /\ t[1] = Admin /\ t[2] = x /\ Len(t) = Len(p) + 1
    BY <1>3, <2>2, AdminFacts, JoinFacts
  <2>4. Len(p) \in Nat /\ Len(p) >= 1
    BY DEF Paths
  <2>5. Len(t) > 1
    BY <2>3, <2>4
  <2> QED
    BY <1>3, <2>1, <2>2, <2>3, <2>5
<1> QED
  BY <1>2, <1>3

LEMMA MovedOnce ==
  ASSUME NEW e, NEW x, EntryOf(e, x), Files \cup dirs \subseteq Paths,
         NEW p \in Files \cup dirs, NEW q \in Files \cup dirs, Moved(e, p) = Moved(e, q)
  PROVE  p = q
<1>1. p \in Paths /\ q \in Paths
  OBVIOUS
<1>2. \A r \in Files \cup dirs : ~(r[1] = Admin /\ Len(r) > 1 /\ r[2] = x)
  BY DEF EntryOf
<1>3. CASE p[1] # x /\ q[1] # x
  BY <1>1, <1>3, MovedFacts
<1>4. CASE p[1] = x /\ q[1] = x
  <2>1. <<Admin>> \o p = <<Admin>> \o q
    BY <1>1, <1>4, MovedFacts
  <2> QED
    BY <1>1, <2>1, AdminFacts, JoinOnce
<1>5. CASE p[1] = x /\ q[1] # x
  BY <1>1, <1>2, <1>5, MovedFacts
<1>6. CASE p[1] # x /\ q[1] = x
  BY <1>1, <1>2, <1>6, MovedFacts
<1> QED
  BY <1>3, <1>4, <1>5, <1>6

(* The move of an entry is one of paths: nothing is replaced.                *)
LEMMA RenameFacts ==
  ASSUME FilesInv, NEW e \in to_move, NEW x, EntryOf(e, x), Rename(e)
  PROVE  /\ Files' = {Moved(e, p) : p \in Files} /\ dirs' = {Moved(e, d) : d \in dirs}
         /\ \A p \in Files : tree'[Moved(e, p)] = tree[p]
<1>1. PICK gone : gone = {p \in Files : Under(<<Admin>> \o e, p)}
  OBVIOUS
<1>2. Files \subseteq Paths /\ Files \cup dirs \subseteq Paths
  BY DEF FilesInv, FilesTyped
<1>3. gone = {}
  <2> SUFFICES ASSUME NEW p \in Files, Under(<<Admin>> \o e, p) PROVE FALSE
    BY <1>1
  <2>1. PICK f : f = <<x>>
    OBVIOUS
  <2>2. f \in Paths /\ Len(f) = 1 /\ f[1] = x /\ e = f
    BY <2>1, AdminFacts, UnderOne DEF EntryOf
  <2>3. PICK t : t = <<Admin>> \o f
    OBVIOUS
  <2>4. t \in Paths /\ t[1] = Admin /\ t[2] = x /\ Len(t) = 1 + 1
    BY <2>2, <2>3, AdminFacts, JoinFacts
  <2>5. Under(t, p)
    BY <2>2, <2>3
  <2>6. t \in Seq(Names) /\ p \in Seq(Names)
    BY <1>2, <2>4 DEF Paths
  <2>7. Len(t) <= Len(p) /\ \A i \in 1..Len(t) : t[i] = p[i]
    BY <2>5, <2>6, UnderFacts
  <2>8. Len(p) \in Nat /\ Len(t) = 2
    BY <2>4, <2>6
  <2>9. p[1] = Admin /\ p[2] = x /\ Len(p) > 1
    BY <2>4, <2>7, <2>8
  <2> QED
    BY <2>9 DEF EntryOf
<1>4. PICK stays : stays = Files \ gone
  OBVIOUS
<1>5. stays = Files
  BY <1>3, <1>4
<1>6. /\ tree' = [q \in {Moved(e, p) : p \in stays} |->
                    tree[CHOOSE p \in stays : Moved(e, p) = q]]
      /\ dirs' = {Moved(e, d) : d \in dirs}
  BY <1>1, <1>4 DEF Rename
<1>7. Files' = {Moved(e, p) : p \in Files}
  BY <1>5, <1>6 DEF Files
<1>8. ASSUME NEW p \in Files PROVE tree'[Moved(e, p)] = tree[p]
  <2>1. PICK r : r = CHOOSE q \in stays : Moved(e, q) = Moved(e, p)
    OBVIOUS
  <2>2. r \in Files /\ Moved(e, r) = Moved(e, p)
    BY <1>5, <2>1
  <2>3. r = p
    BY <1>2, <2>2, MovedOnce
  <2> QED
    BY <1>5, <1>6, <2>1, <2>3
<1> QED
  BY <1>6, <1>7, <1>8

LEMMA MoveStep ==
  ASSUME FilesInv, NEW e \in to_move, MoveEntry(e)
  PROVE  FilesInv'
<1>1. /\ server = "moving" /\ Rename(e) /\ to_move' = to_move \ {e}
      /\ UNCHANGED <<marker, server, failed, slot, restarts, does, writes, asked, seen>>
  BY DEF MoveEntry
<1>2. PICK x : EntryOf(e, x)
  BY <1>1, EntryFacts
<1>3. /\ Files' = {Moved(e, p) : p \in Files} /\ dirs' = {Moved(e, d) : d \in dirs}
      /\ \A p \in Files : tree'[Moved(e, p)] = tree[p]
  BY <1>1, <1>2, RenameFacts
<1>4. /\ Files \subseteq Paths /\ dirs \subseteq Paths /\ Files \cup dirs \subseteq Paths
      /\ \A p \in Files : tree[p] \in Contents
  BY DEF FilesInv, FilesTyped
<1>5. BeforeAccounts /\ ~marker /\ (\A s \in Slots : slot[s] = Idle) /\ <<Admin>> \in dirs
  BY <1>1 DEF FilesInv, MoveOK
<1>6. x # Admin /\ x \in Names /\ e = <<x>>
  BY <1>2 DEF EntryOf
<1>7. Contents' = Contents
  BY <1>1 DEF Contents
<1>8. FilesTyped'
  <2>1. \A q \in Files' : q \in Paths /\ tree'[q] \in Contents
    BY <1>2, <1>3, <1>4, MovedFacts
  <2>2. dirs' \subseteq Paths
    BY <1>2, <1>3, <1>4, MovedFacts
  <2> QED
    BY <1>1, <1>7, <2>1, <2>2 DEF FilesInv, FilesTyped
<1>9. TreeShape'
  <2>1. ASSUME NEW p \in Files \cup dirs, NEW a \in Above(Moved(e, p)) PROVE a \in dirs'
    <3>1. p \in Paths /\ Above(p) \subseteq dirs
      BY <1>4 DEF FilesInv, TreeShape
    <3>2. CASE p[1] # x
      <4>1. a \in Above(p)
        BY <1>2, <2>1, <3>1, <3>2, MovedFacts
      <4>2. a \in Paths /\ a[1] = p[1] /\ a \in dirs
        BY <3>1, <4>1, AboveFacts
      <4>3. Moved(e, a) = a
        BY <1>2, <3>2, <4>2, MovedFacts
      <4> QED
        BY <1>3, <4>2, <4>3
    <3>3. CASE p[1] = x
      <4>1. a \in Above(<<Admin>> \o p)
        BY <1>2, <2>1, <3>1, <3>3, MovedFacts
      <4>2. a = <<Admin>> \/ \E b \in Above(p) : a = <<Admin>> \o b
        BY <3>1, <4>1, AdminFacts, JoinAbove
      <4>3. CASE a = <<Admin>>
        <5>1. a \in Paths /\ a[1] = Admin /\ a \in dirs
          BY <1>5, <4>3, AdminFacts
        <5>2. Moved(e, a) = a
          BY <1>2, <1>6, <5>1, MovedFacts
        <5> QED
          BY <1>3, <5>1, <5>2
      <4>4. ASSUME NEW b \in Above(p), a = <<Admin>> \o b PROVE a \in dirs'
        <5>1. b \in Paths /\ b[1] = x /\ b \in dirs
          BY <3>1, <3>3, AboveFacts
        <5>2. Moved(e, b) = a
          BY <1>2, <4>4, <5>1, MovedFacts
        <5> QED
          BY <1>3, <5>1, <5>2
      <4> QED
        BY <4>2, <4>3, <4>4
    <3> QED
      BY <3>2, <3>3
  <2>2. \A q \in Files' \cup dirs' : \E p \in Files \cup dirs : q = Moved(e, p)
    BY <1>3
  <2>3. \A q \in Files' \cup dirs' : Above(q) \subseteq dirs'
    BY <2>1, <2>2
  <2>4. dirs' \cap Files' = {}
    <3> SUFFICES ASSUME NEW d \in dirs, NEW p \in Files, Moved(e, d) = Moved(e, p)
                 PROVE  FALSE
      BY <1>3
    <3>1. d = p
      BY <1>2, <1>4, MovedOnce
    <3> QED
      BY <3>1 DEF FilesInv, TreeShape
  <2> QED
    BY <2>3, <2>4 DEF TreeShape
<1>10. \A s \in Slots : SlotOK(s)'
  BY <1>1, <1>5, AdminFacts DEF SlotOK
<1>11. \A q \in Files' \cup dirs' : \E p \in Files \cup dirs :
         /\ p \in Paths /\ q = Moved(e, p)
         /\ (p[1] # x /\ q = p) \/ (p[1] = x /\ q[1] = Admin /\ q[2] = x /\ Len(q) > 1)
  <2> TAKE q \in Files' \cup dirs'
  <2>1. PICK p \in Files \cup dirs : q = Moved(e, p)
    BY <1>3
  <2>2. p \in Paths
    BY <1>4
  <2> QED
    BY <1>2, <2>1, <2>2, MovedFacts
<1>12. BeforeAccounts'
  <2>1. \A q \in Files' \cup dirs' : q[1] \notin Members
    BY <1>5, <1>11, WorkspaceAssumption DEF BeforeAccounts
  <2>2. ASSUME NEW q \in Files' \cup dirs', NEW r \in Files' \cup dirs',
               q[1] = Admin, Len(q) > 1
        PROVE  r[1] # q[2]
    <3>1. r[1] # x /\ (r[1] = Admin \/ r \in Files \cup dirs)
      BY <1>6, <1>11
    <3>2. q[2] = x \/ q \in Files \cup dirs
      BY <1>11
    <3>3. CASE q[2] = x
      BY <3>1, <3>3
    <3>4. CASE q \in Files \cup dirs
      <4>1. q[1] # q[2]
        BY <1>5, <2>2, <3>4 DEF BeforeAccounts
      <4> QED
        BY <1>5, <2>2, <3>1, <3>4, <4>1 DEF BeforeAccounts
    <3> QED
      BY <3>2, <3>3, <3>4
  <2>3. ASSUME NEW q \in Files'
        PROVE  writes'[tree'[q]] = Starting /\ (q[1] = Admin => Len(q) > 1)
    <3>1. PICK p \in Files : q = Moved(e, p)
      BY <1>3
    <3>2. writes[tree[p]] = Starting /\ (p[1] = Admin => Len(p) > 1) /\ p \in Paths
      BY <1>4, <1>5 DEF BeforeAccounts
    <3>3. tree'[q] = tree[p]
      BY <1>3, <3>1
    <3>4. q[1] = Admin => Len(q) > 1
      BY <1>2, <3>1, <3>2, MovedFacts
    <3> QED
      BY <1>1, <3>2, <3>3, <3>4
  <2> QED
    BY <2>1, <2>2, <2>3 DEF BeforeAccounts
<1>13. \A p \in Files \cup dirs : p[1] # x => p \in Files' \cup dirs'
  <2> TAKE p \in Files \cup dirs
  <2>1. p[1] # x => Moved(e, p) = p
    BY <1>2, <1>4, MovedFacts
  <2> QED
    BY <1>3, <2>1
<1>14. to_move' \subseteq Entries' \ {<<Admin>>}
  <2> SUFFICES ASSUME NEW f \in to_move, f # e PROVE f \in Entries' \ {<<Admin>>}
    BY <1>1
  <2>1. f \in Entries /\ f # <<Admin>>
    BY DEF FilesInv, MoveOK
  <2>2. PICK p \in Files \cup dirs : f = <<p[1]>>
    BY <2>1 DEF Entries
  <2>3. p[1] # x
    BY <1>6, <2>2
  <2> QED
    BY <1>13, <2>1, <2>2, <2>3 DEF Entries
<1>15. <<Admin>> \in dirs'
  <2>1. PICK a : a = <<Admin>>
    OBVIOUS
  <2>2. a \in Paths /\ a[1] = Admin /\ a \in dirs
    BY <1>5, <2>1, AdminFacts
  <2>3. Moved(e, a) = a
    BY <1>2, <1>6, <2>2, MovedFacts
  <2> QED
    BY <1>3, <2>1, <2>2, <2>3
<1>16. ASSUME NEW q \in Files', q[1] # Admin PROVE <<q[1]>> \in to_move' \cup failed'
  <2>1. PICK p \in Files : q = Moved(e, p)
    BY <1>3
  <2>2. p \in Paths /\ p[1] # x /\ q = p
    BY <1>2, <1>4, <1>16, <2>1, MovedFacts
  <2>3. <<p[1]>> \in to_move \cup failed
    BY <1>1, <1>16, <2>2 DEF FilesInv, MoveOK
  <2>4. <<p[1]>> # <<x>>
    BY <2>2
  <2> QED
    BY <1>1, <1>6, <2>2, <2>3, <2>4
<1>17. MoveOK'
  <2>1. failed # {} => does.moves_may_fail
    BY DEF FilesInv, MoveOK
  <2> QED
    BY <1>1, <1>5, <1>12, <1>14, <1>15, <1>16, <2>1 DEF MoveOK
<1>18. Ownership'
  <2>1. ASSUME NEW q \in Files', q[1] \in Users PROVE Len(q) > 1 /\ Owns(q[1], tree[q])'
    <3>1. q[1] = Admin
      BY <1>12, <2>1, AdminFacts DEF BeforeAccounts
    <3>2. writes'[tree'[q]] = Starting /\ Len(q) > 1
      BY <1>12, <3>1 DEF BeforeAccounts
    <3> QED
      BY <3>1, <3>2 DEF Owns
  <2>2. \A u \in Users : \A c \in seen'[u] : Owns(u, c)'
    BY <1>1 DEF FilesInv, Ownership, Owns
  <2> QED
    BY <1>1, <1>5, <2>1, <2>2 DEF Ownership
<1> QED
  BY <1>8, <1>9, <1>10, <1>17, <1>18 DEF FilesInv

LEMMA MoveFailsStep ==
  ASSUME FilesInv, NEW e \in to_move, MoveFails(e)
  PROVE  FilesInv'
<1>1. /\ server = "moving" /\ to_move' = to_move \ {e} /\ failed' = failed \cup {e}
      /\ UNCHANGED <<tree, dirs, marker, server, slot, restarts, does, writes, asked, seen>>
  BY DEF MoveFails, disk, history
<1>2. Files' = Files /\ Contents' = Contents /\ Entries' = Entries
  BY <1>1 DEF Files, Contents, Entries
<1>3. does.moves_may_fail
  <2>1. <<Admin>> \o e \notin Files \cup dirs
    BY <1>1, EntryFacts
  <2>2. CanRename(e)
    BY <2>1 DEF CanRename
  <2> QED
    BY <2>2 DEF MoveFails
<1>4. FilesTyped' /\ TreeShape'
  BY <1>1, <1>2 DEF FilesInv, FilesTyped, TreeShape
<1>5. \A s \in Slots : SlotOK(s)'
  BY <1>1, <1>2 DEF FilesInv, SlotOK
<1>6. Ownership'
  BY <1>1, <1>2 DEF FilesInv, Ownership, Owns
<1>7. MoveOK'
  <2>1. BeforeAccounts /\ ~marker /\ (\A s \in Slots : slot[s] = Idle) /\ <<Admin>> \in dirs
    BY <1>1 DEF FilesInv, MoveOK
  <2>2. BeforeAccounts'
    BY <1>1, <1>2, <2>1 DEF BeforeAccounts
  <2>3. to_move' \subseteq Entries' \ {<<Admin>>}
    BY <1>1, <1>2 DEF FilesInv, MoveOK
  <2>4. \A p \in Files' : p[1] = Admin \/ <<p[1]>> \in to_move' \cup failed'
    BY <1>1, <1>2 DEF FilesInv, MoveOK
  <2> QED
    BY <1>1, <1>3, <2>1, <2>2, <2>3, <2>4 DEF MoveOK
<1> QED
  BY <1>4, <1>5, <1>6, <1>7 DEF FilesInv

LEMMA FinishStep ==
  ASSUME FilesInv, FinishMove
  PROVE  FilesInv'
<1>1. /\ server = "moving" /\ to_move = {} /\ marker' = (failed = {}) /\ server' = "up"
      /\ UNCHANGED <<tree, dirs, to_move, failed, slot, restarts, does, writes, asked, seen>>
  BY DEF FinishMove, history
<1>2. Files' = Files /\ Contents' = Contents
  BY <1>1 DEF Files, Contents
<1>3. marker' \in BOOLEAN
  BY <1>1
<1>4. FilesTyped' /\ TreeShape'
  BY <1>1, <1>2, <1>3 DEF FilesInv, FilesTyped, TreeShape
<1>5. \A s \in Slots : SlotOK(s)'
  BY <1>1, <1>2 DEF FilesInv, SlotOK
<1>6. Ownership'
  <2>1. marker' => \A p \in Files : p[1] = Admin
    BY <1>1 DEF FilesInv, MoveOK
  <2>2. marker' => \A p \in Files : p[1] \in Users
    BY <2>1, AdminFacts
  <2> QED
    BY <1>1, <1>2, <2>2 DEF FilesInv, Ownership, Owns
<1>7. MoveOK'
  <2>1. failed # {} => does.moves_may_fail
    BY DEF FilesInv, MoveOK
  <2> QED
    BY <1>1, <2>1 DEF MoveOK
<1> QED
  BY <1>4, <1>5, <1>6, <1>7 DEF FilesInv

LEMMA CrashStep ==
  ASSUME FilesInv, MovesOnce, Crash
  PROVE  FilesInv'
<1>1. /\ server # "down" /\ restarts < does.restarts /\ server' = "down"
      /\ restarts' = restarts + 1 /\ slot' = [s \in Slots |-> Idle] /\ to_move' = {}
      /\ UNCHANGED <<tree, dirs, marker, failed, does, writes, asked, seen>>
  BY DEF Crash, disk, history
<1>2. Files' = Files /\ Contents' = Contents
  BY <1>1 DEF Files, Contents
<1>3. does \in Workloads /\ restarts \in Nat
  BY DEF FilesInv, FilesTyped
<1>4. ~does.moves_may_fail
  BY <1>1, <1>3 DEF MovesOnce
<1>5. ~marker => BeforeAccounts
  BY <1>1, <1>4 DEF FilesInv, MoveOK, FilesTyped
<1>6. slot' \in [Slots -> SlotRecords] /\ \A s \in Slots : slot'[s] = Idle
  BY <1>1, AdminFacts
<1>7. FilesTyped'
  BY <1>1, <1>2, <1>3, <1>6 DEF FilesInv, FilesTyped
<1>8. TreeShape'
  BY <1>1, <1>2 DEF FilesInv, TreeShape
<1>9. \A s \in Slots : SlotOK(s)'
  BY <1>6, AdminFacts DEF SlotOK
<1>10. Ownership'
  BY <1>1, <1>2 DEF FilesInv, Ownership, Owns
<1>11. MoveOK'
  <2>1. failed # {} => does.moves_may_fail
    BY DEF FilesInv, MoveOK
  <2>2. ~marker => BeforeAccounts'
    BY <1>1, <1>2, <1>5 DEF BeforeAccounts
  <2> QED
    BY <1>1, <1>6, <2>1, <2>2 DEF MoveOK
<1> QED
  BY <1>7, <1>8, <1>9, <1>10, <1>11 DEF FilesInv

(***************************************************************************)
(* The users' files: a step loses nothing that was not asked for           *)
(***************************************************************************)
(* What a plain write puts its own in the place of was not there when it    *)
(* looked.                                                                  *)
Raced(c) == \E s \in Slots : slot[s].at = "write" /\ slot[s].mode = "plain"
                             /\ slot'[s] = Idle /\ c > slot[s].since
Stays(p) == tree[p] \in asked' \/ (\E q \in Files' : tree'[q] = tree[p]) \/ Raced(tree[p])
Kept == \A p \in Files : Stays(p)

LEMMA TreeStays ==
  ASSUME UNCHANGED tree
  PROVE  Kept
BY DEF Kept, Stays, Files

LEMMA MigrationKeeps ==
  ASSUME FilesInv,
         \/ StartServer \/ FinishMove \/ Crash
         \/ \E e \in to_move : MoveEntry(e) \/ MoveFails(e)
  PROVE  Kept
<1>1. CASE StartServer \/ FinishMove \/ Crash
  BY <1>1, TreeStays DEF StartServer, FinishMove, Crash, disk
<1>2. ASSUME NEW e \in to_move, MoveFails(e) PROVE Kept
  BY <1>2, TreeStays DEF MoveFails, disk
<1>3. ASSUME NEW e \in to_move, MoveEntry(e) PROVE Kept
  <2>1. server = "moving" /\ Rename(e)
    BY <1>3 DEF MoveEntry
  <2>2. PICK x : EntryOf(e, x)
    BY <2>1, EntryFacts
  <2>3. /\ Files' = {Moved(e, p) : p \in Files}
        /\ \A p \in Files : tree'[Moved(e, p)] = tree[p]
    BY <2>1, <2>2, RenameFacts
  <2> QED
    BY <2>3 DEF Kept, Stays
<1> QED
  BY <1>1, <1>2, <1>3

LEMMA WrittenKeeps ==
  ASSUME NEW p, NEW u, WriteAt(p, u), p \in Files => Stays(p)
  PROVE  Kept
<1>1. tree' = [q \in Files \cup {p} |-> IF q = p THEN NextContent ELSE tree[q]]
  BY DEF WriteAt, Written
<1>2. Files' = Files \cup {p} /\ \A q \in Files : q # p => tree'[q] = tree[q]
  BY <1>1 DEF Files
<1> QED
  BY <1>2 DEF Kept, Stays

LEMMA WriteFileKeeps ==
  ASSUME FilesInv, NEW s \in Slots, WriteFile(s)
  PROVE  Kept
<1>1. PICK p, u : p = slot[s].path /\ u = slot[s].user
  OBVIOUS
<1>2. /\ slot[s].at = "write" /\ slot' = [slot EXCEPT ![s] = Idle]
      /\ \/ UNCHANGED tree
         \/ /\ ~(slot[s].mode = "append" /\ p \in Files) /\ WriteAt(p, u)
            /\ asked' = IF slot[s].mode = "overwrite" /\ p \in Files
                        THEN asked \cup {tree[p]} ELSE asked
  BY <1>1 DEF WriteFile
<1>3. CASE UNCHANGED tree
  BY <1>3, TreeStays
<1>4. CASE /\ ~(slot[s].mode = "append" /\ p \in Files) /\ WriteAt(p, u)
           /\ asked' = IF slot[s].mode = "overwrite" /\ p \in Files
                       THEN asked \cup {tree[p]} ELSE asked
  <2>1. ASSUME p \in Files PROVE Stays(p)
    <3>1. slot[s].mode \in {"plain", "overwrite"} /\ slot'[s] = Idle
      BY <1>2, <1>4, <2>1 DEF FilesInv, FilesTyped, SlotRecords, Modes
    <3>2. CASE slot[s].mode = "overwrite"
      BY <1>4, <2>1, <3>2 DEF Stays
    <3>3. CASE slot[s].mode = "plain"
      <4>1. tree[p] > slot[s].since
        BY <1>1, <1>2, <2>1, <3>3 DEF FilesInv, SlotOK
      <4> QED
        BY <1>2, <3>1, <3>3, <4>1 DEF Stays, Raced
    <3> QED
      BY <3>1, <3>2, <3>3
  <2> QED
    BY <1>4, <2>1, WrittenKeeps
<1> QED
  BY <1>2, <1>3, <1>4

LEMMA RequestKeeps ==
  ASSUME FilesInv, NEW s \in Slots, Request(s)
  PROVE  Kept
<1>1. ASSUME NEW u \in Users, NEW g \in Given, NEW mode \in Modes, WriteCheck(s, u, g, mode)
      PROVE  Kept
  BY <1>1, TreeStays DEF WriteCheck
<1>2. ASSUME NEW u \in Users, NEW g \in Given, Delete(s, u, g)
      PROVE  Kept
  <2>1. PICK gone : /\ gone \subseteq Files /\ tree' = Without(gone)
                    /\ asked' = asked \cup {tree[q] : q \in gone}
    BY <1>2 DEF Delete
  <2>2. Files' = Files \ gone /\ \A q \in Files \ gone : tree'[q] = tree[q]
    BY <2>1 DEF Without, Files
  <2> QED
    BY <2>1, <2>2 DEF Kept, Stays
<1>3. ASSUME NEW u \in Users, NEW g \in Given, ReadFile(s, u, g)
      PROVE  Kept
  BY <1>3, TreeStays DEF ReadFile
<1>4. ASSUME NEW u \in Users, NEW name, Upload(s, u, name)
      PROVE  Kept
  <2>1. PICK p : p \notin Files /\ WriteAt(p, u)
    BY <1>4 DEF Upload
  <2> QED
    BY <2>1, WrittenKeeps
<1>5. ASSUME NEW u \in Users, NEW b \in Batches, BatchStart(s, u, b)
      PROVE  Kept
  BY <1>5, TreeStays DEF BatchStart
<1>6. CASE BatchOne(s)
  <2>1. PICK p, u : /\ p = Append(slot[s].path, Head(slot[s].todo)) /\ u = slot[s].user
    OBVIOUS
  <2>2. \/ UNCHANGED tree
        \/ WriteAt(p, u) /\ asked' = IF p \in Files THEN asked \cup {tree[p]} ELSE asked
    BY <1>6, <2>1 DEF BatchOne
  <2>3. CASE UNCHANGED tree
    BY <2>3, TreeStays
  <2>4. CASE WriteAt(p, u) /\ asked' = IF p \in Files THEN asked \cup {tree[p]} ELSE asked
    <3>1. p \in Files => Stays(p)
      BY <2>4 DEF Stays
    <3> QED
      BY <2>4, <3>1, WrittenKeeps
  <2> QED
    BY <2>2, <2>3, <2>4
<1>7. CASE BatchDone(s)
  BY <1>7, TreeStays DEF BatchDone
<1>8. CASE WriteFile(s)
  BY <1>8, WriteFileKeeps
<1> QED
  BY <1>1, <1>2, <1>3, <1>4, <1>5, <1>6, <1>7, <1>8 DEF Request

(***************************************************************************)
(* The users' files: the theorems                                          *)
(***************************************************************************)
LEMMA RequestStep ==
  ASSUME FilesInv, NEW s \in Slots, Request(s)
  PROVE  FilesInv'
<1>1. ASSUME NEW u \in Users, NEW g \in Given, NEW mode \in Modes, WriteCheck(s, u, g, mode)
      PROVE  FilesInv'
  BY <1>1, WriteCheckStep
<1>2. ASSUME NEW u \in Users, NEW g \in Given, Delete(s, u, g) \/ ReadFile(s, u, g)
      PROVE  FilesInv'
  BY <1>2, DeleteStep, ReadFileStep
<1>3. ASSUME NEW u \in Users,
             NEW name \in {g.names[1] : g \in {h \in Given : Len(h.names) = 1}},
             Upload(s, u, name)
      PROVE  FilesInv'
  <2>1. PICK g \in Given : Len(g.names) = 1 /\ name = g.names[1]
    BY <1>3
  <2>2. g.names \in Seq(Names)
    BY WorkspaceAssumption
  <2>3. name \in Names
    BY <2>1, <2>2
  <2> QED
    BY <1>3, <2>3, UploadStep
<1>4. ASSUME NEW u \in Users, NEW b \in Batches, BatchStart(s, u, b)
      PROVE  FilesInv'
  BY <1>4, BatchStartStep
<1>5. CASE WriteFile(s) \/ BatchOne(s) \/ BatchDone(s)
  BY <1>5, WriteFileStep, BatchOneStep, BatchDoneStep
<1> QED
  BY <1>1, <1>2, <1>3, <1>4, <1>5 DEF Request

LEMMA FilesStutter == ASSUME FilesInv, UNCHANGED file_vars PROVE FilesInv'
<1>1. UNCHANGED <<tree, dirs, marker, server, to_move, failed, slot, restarts, does, writes,
                  asked, seen>>
  BY DEF file_vars, disk, history
<1>2. Files' = Files /\ Contents' = Contents /\ Entries' = Entries
  BY <1>1 DEF Files, Contents, Entries
<1>3. FilesTyped' /\ TreeShape'
  BY <1>1, <1>2 DEF FilesInv, FilesTyped, TreeShape
<1>4. \A s \in Slots : SlotOK(s)'
  BY <1>1, <1>2 DEF FilesInv, SlotOK
<1>5. BeforeAccounts => BeforeAccounts'
  BY <1>1, <1>2 DEF BeforeAccounts
<1>6. MoveOK'
  BY <1>1, <1>2, <1>5 DEF FilesInv, MoveOK
<1>7. Ownership'
  BY <1>1, <1>2 DEF FilesInv, Ownership, Owns
<1> QED
  BY <1>3, <1>4, <1>6, <1>7 DEF FilesInv

LEMMA FilesStep == ASSUME FilesInv, MovesOnce, [FilesNext]_file_vars PROVE FilesInv' /\ Kept
<1>1. CASE StartServer \/ FinishMove \/ Crash
  BY <1>1, StartStep, FinishStep, CrashStep, MigrationKeeps
<1>2. ASSUME NEW e \in to_move, MoveEntry(e) \/ MoveFails(e) PROVE FilesInv' /\ Kept
  BY <1>2, MoveStep, MoveFailsStep, MigrationKeeps
<1>3. ASSUME NEW s \in Slots, Request(s) PROVE FilesInv' /\ Kept
  BY <1>3, RequestStep, RequestKeeps
<1>4. CASE UNCHANGED file_vars
  BY <1>4, FilesStutter, TreeStays DEF file_vars, disk
<1> QED
  BY <1>1, <1>2, <1>3, <1>4 DEF FilesNext

LEMMA FilesInvariant == ASSUME MovesOnce PROVE FilesSpec => []FilesInv
<1>1. FilesInit => FilesInv
  BY FilesInitially
<1>2. FilesInv /\ [FilesNext]_file_vars => FilesInv'
  BY FilesStep
<1> QED
  BY <1>1, <1>2, PTL DEF FilesSpec

LEMMA FilesImply == ASSUME FilesInv PROVE TreeOK /\ SeenIsOwn
<1>1. TreeOK
  <2>1. /\ \A p \in Files : tree[p] \in 1..Len(writes) /\ Above(p) \subseteq dirs
        /\ dirs \cap Files = {} /\ \A d \in dirs : Above(d) \subseteq dirs
    BY DEF FilesInv, FilesTyped, TreeShape, Contents
  <2>2. marker \in BOOLEAN /\ server \in {"down", "moving", "up"}
    BY DEF FilesInv, FilesTyped
  <2>3. to_move \subseteq Entries \ {<<Admin>>}
    BY DEF FilesInv, MoveOK
  <2>4. \A s \in Slots : slot[s].at \in {"idle", "write", "batch"}
    BY DEF FilesInv, FilesTyped, SlotRecords
  <2>5. asked \cup UNION {seen[u] : u \in Users} \subseteq 1..Len(writes)
    BY DEF FilesInv, FilesTyped, Contents
  <2> QED
    BY <2>1, <2>2, <2>3, <2>4, <2>5 DEF TreeOK
<1>2. SeenIsOwn
  <2>1. ASSUME marker, NEW p \in Files
        PROVE  p[1] \in Users /\ (writes[tree[p]] = Starting => p[1] = Admin)
    <3>1. p[1] \in Users /\ Owns(p[1], tree[p])
      BY <2>1 DEF FilesInv, Ownership
    <3> QED
      BY <3>1, AdminFacts DEF Owns
  <2> QED
    BY <2>1 DEF FilesInv, Ownership, Owns, SeenIsOwn
<1> QED
  BY <1>1, <1>2

(* The tree the file routes work on is one: every file and every directory  *)
(* is below directories that exist, and no path is both.                    *)
THEOREM TreeHolds == ASSUME MovesOnce PROVE FilesSpec => []TreeOK
BY FilesInvariant, FilesImply, PTL

(* No account is ever shown a file that another account wrote: the paths of *)
(* a request stay below its own workspace, whatever ".." they hold, and     *)
(* once the marker is written every file is in one account's workspace.     *)
THEOREM SeenHolds == ASSUME MovesOnce PROVE FilesSpec => []SeenIsOwn
BY FilesInvariant, FilesImply, PTL

(* No file is lost but by a request that asked for it, or by a plain write   *)
(* that raced with the one that made it: not in the migration, wherever it   *)
(* is interrupted.                                                           *)
THEOREM KeptHolds == ASSUME MovesOnce PROVE FilesSpec => KeptUntilAsked
<1>1. ASSUME Kept
      PROVE  LET held == {tree[p] : p \in Files}
                 holds == {tree'[p] : p \in DOMAIN tree'}
             IN \A c \in held \ (holds \cup asked') :
                  \E s \in Slots : slot[s].at = "write" /\ slot[s].mode = "plain"
                                   /\ slot'[s] = Idle /\ c > slot[s].since
  <2>1. Files' = DOMAIN tree'
    BY DEF Files
  <2> QED
    BY <1>1, <2>1 DEF Kept, Stays, Raced
<1>2. ASSUME FilesInv, [FilesNext]_file_vars
      PROVE  [LET held == {tree[p] : p \in Files}
                  holds == {tree'[p] : p \in DOMAIN tree'}
              IN \A c \in held \ (holds \cup asked') :
                   \E s \in Slots : slot[s].at = "write" /\ slot[s].mode = "plain"
                                    /\ slot'[s] = Idle /\ c > slot[s].since]_file_vars
  <2>1. Kept
    BY <1>2, FilesStep
  <2> QED
    BY <1>1, <2>1
<1> QED
  BY <1>2, FilesInvariant, PTL DEF FilesSpec, KeptUntilAsked
==============================================================================
