----------------------------- MODULE MCProcesses -----------------------------
(* Processes with a few scripts, calls and misbehaving programs.             *)
EXTENDS Processes

Param(name, type, required, choices) ==
  [name |-> name, type |-> type, required |-> required, choices |-> choices]
Script(has_file, json, params) == [has_file |-> has_file, json |-> json, params |-> params]
Value(kind, word) == [kind |-> kind, word |-> word]

Report == <<Param("n", "number", TRUE, {}), Param("mode", "string", FALSE, {"x", "y"}),
            Param("dry", "boolean", FALSE, {})>>
Own == [report |-> Script(TRUE, TRUE, Report), notes |-> Script(TRUE, FALSE, <<>>)]
MCLibraries ==
  {<<Own>>, <<Own, [report |-> Script(TRUE, TRUE, Report)]>>,
   <<Own, [report |-> Script(FALSE, TRUE, Report)]>>}

MkCall(tool, name, args, doc, writes, helps, granted, permitted) ==
  [tool |-> tool, name |-> name, args |-> args, doc |-> doc, writes |-> writes,
   helper |-> helps, granted |-> granted, permitted |-> permitted]
Good == [n |-> Value("string", "7"), dry |-> Value("boolean", "true")]
Bad == {[n |-> Value("string", "x")], [mode |-> Value("string", "x")],
        [n |-> Value("number", "7"), other |-> Value("string", "x")],
        [n |-> Value("number", "7"), mode |-> Value("string", "7")],
        [n |-> Value("number", "7"), dry |-> Value("object", "x")],
        [n |-> Value("null", "x")]}
MCCalls ==
  {MkCall("run_script", "report", Good, doc, 3, FALSE, TRUE, TRUE) : doc \in {1, 2}}
  \cup {MkCall("run_script", "report", args, 1, 1, FALSE, TRUE, TRUE) : args \in Bad}
  \cup {MkCall("run_script", "notes", <<>>, 1, 3, TRUE, TRUE, TRUE),
        MkCall("run_script", "absent", <<>>, 1, 1, FALSE, TRUE, TRUE),
        MkCall("run_script", "notes", <<>>, 1, 1, FALSE, FALSE, TRUE),
        MkCall("run_script", "notes", <<>>, 1, 1, FALSE, TRUE, FALSE),
        MkCall("execute_shell", None, <<>>, 1, 3, TRUE, TRUE, TRUE),
        MkCall("execute_shell", None, <<>>, 1, 1, FALSE, FALSE, TRUE)}
(* A command that writes for ever, as `yes` does.                            *)
Flooding == {MkCall("execute_shell", None, <<>>, 1, Forever, FALSE, TRUE, TRUE)}
=============================================================================
