------------------------------ MODULE LLMClient ------------------------------
(***************************************************************************)
(* One request to a language model: LLMClient and EmbeddingClient of       *)
(* src/core/llm_client.cpp.  The history of a run, trimmed to the window,  *)
(* is turned into the wire messages of the provider and posted, with       *)
(* retries of failed connections; the reply, a whole body or a stream of   *)
(* server-sent events cut anywhere by the network, becomes a               *)
(* CompletionResponse.                                                     *)
(*                                                                         *)
(* Texts and call arguments are sequences of the fragments the model sends *)
(* them in.  An event is one line, and a line is two pieces: what matters  *)
(* of the network is only that it may cut a line in two.                   *)
(***************************************************************************)
EXTENDS ContextBudget

CONSTANTS
  Ids,           (* call ids the server gives                              *)
  Names,         (* tool names                                             *)
  Texts,         (* text fragments                                         *)
  Args,          (* fragments of a call's arguments                        *)
  Images,
  None,
  Jobs,          (* the requests asked of the client                       *)
  Replies,       (* what the model may have said                           *)
  JsonTexts,     (* the arguments that parse as JSON                       *)
  Prose,         (* [texts that spell calls -> form and calls]             *)
  MaxConnectRetries

Positional(k) == <<"call_", k>>
AnyId == Ids \cup {None} \cup {Positional(k) : k \in 0..3}

ToolCall == [id : AnyId, name : Names, args : Seq(Args)]
Reply == [text : Seq(Texts), calls : Seq(ToolCall)]
ChatMessage ==
  [role : {"system", "user", "assistant", "tool"}, id : Ids \cup {None},
   calls : Seq(Ids), images : Seq(Images), size : Nat, args : Seq(Nat)]
Job ==
  [kind : {"chat", "embed", "models"}, provider : {"openai", "anthropic"},
   qwen : BOOLEAN, stream : BOOLEAN, choice : {"auto", "required", "none"},
   tools : BOOLEAN, history : Seq(ChatMessage), budget : Int]

ASSUME JobsAssumption == Jobs \subseteq Job /\ Replies \subseteq Reply
ASSUME RetriesAssumption == MaxConnectRetries \in Nat

VARIABLES
  job,
  pc,           (* new, connect, reading, done or thrown                   *)
  request,      (* the body sent                                           *)
  attempt,
  asked,        (* how often a server has accepted the request             *)
  reply,        (* what the model said                                     *)
  wire,         (* pieces of the stream on their way                       *)
  buffer,       (* pieces of an unfinished line                            *)
  acc,          (* content, deltas shown to the caller, partial calls      *)
  response

vars == <<job, pc, request, attempt, asked, reply, wire, buffer, acc, response>>
-----------------------------------------------------------------------------
(* The request.  Every wire message is a role, the tool results it answers   *)
(* with, the calls it makes and the images it shows.                         *)

Entry(role, results, calls, images) ==
  [role |-> role, results |-> results, calls |-> calls, images |-> images]
Plain(msg) == Entry(msg.role, <<>>, msg.calls, msg.images)

(* A run of tool messages is one message of the user for Qwen and Anthropic. *)
InRun(h, i) == i > 1 /\ h[i].role = "tool" /\ h[i - 1].role = "tool"
RunEnd(h, i) ==
  CHOOSE j \in i..Len(h) :
    /\ \A k \in i..j : h[k].role = "tool"
    /\ j < Len(h) => h[j + 1].role # "tool"
RunOf(h, i) == SubSeq(h, i, RunEnd(h, i))
Merged(h, i) ==
  LET run == RunOf(h, i)
  IN IF InRun(h, i) THEN <<>>
     ELSE <<Entry("user", [k \in DOMAIN run |-> run[k].id], <<>>,
                  FlattenSeq([k \in DOMAIN run |-> run[k].images]))>>

(* OpenAI takes text-only tool messages: the images follow in a user message. *)
WithImages(msg) ==
  <<Entry("tool", <<msg.id>>, <<>>, <<>>)>>
    \o IF msg.images = <<>> THEN <<>> ELSE <<Entry("user", <<>>, <<>>, msg.images)>>

OpenAIMessages(j) ==
  FlattenSeq([i \in DOMAIN j.history |->
    LET msg == j.history[i]
    IN CASE msg.role # "tool" -> <<Plain(msg)>>
         [] msg.role = "tool" /\ j.qwen -> Merged(j.history, i)
         [] OTHER -> WithImages(msg)])

AnthropicMessages(j) ==
  FlattenSeq([i \in DOMAIN j.history |->
    LET msg == j.history[i]
    IN CASE msg.role = "system" -> <<>>
         [] msg.role = "tool"   -> Merged(j.history, i)
         [] OTHER -> <<Plain(msg)>>])

(* Tools that may not be used are not sent: a model cannot ask for what it   *)
(* does not see.                                                             *)
SendsTools(j) == j.tools /\ j.choice # "none"

OpenAIBody(j) ==
  [messages |-> OpenAIMessages(j), system |-> FALSE, tools |-> SendsTools(j)]
AnthropicBody(j) ==
  [messages |-> AnthropicMessages(j),
   system   |-> \E i \in DOMAIN j.history : j.history[i].role = "system",
   tools    |-> SendsTools(j)]

NoBody == [messages |-> <<>>, system |-> FALSE, tools |-> FALSE]
Body(j) ==
  CASE j.kind # "chat" -> NoBody
    [] j.kind = "chat" /\ j.provider = "anthropic" -> AnthropicBody(j)
    [] OTHER -> OpenAIBody(j)
-----------------------------------------------------------------------------
(* The reply on the wire (the server, as stream_openai and stream_anthropic  *)
(* expect it): the text, then the calls.  OpenAI fragments carry the index   *)
(* of their call and may be interleaved, the first has the id and the name.  *)

TextEvent(t) == [kind |-> "text", index |-> 0, id |-> None, name |-> None, args |-> <<>>, text |-> <<t>>]
CallEvent(kind, k, c, head, args) ==
  [kind |-> kind, index |-> k, id |-> IF head THEN c.id ELSE None,
   name |-> IF head THEN c.name ELSE None, args |-> args, text |-> <<>>]

TextEvents(r) == [i \in DOMAIN r.text |-> TextEvent(r.text[i])]

Fragments(c, k) ==
  IF c.args = <<>> THEN <<CallEvent("fragment", k, c, TRUE, <<>>)>>
  ELSE [i \in DOMAIN c.args |-> CallEvent("fragment", k, c, i = 1, <<c.args[i]>>)]

(* The ways to send sequences a and b on one stream.                         *)
Interleavings(a, b) ==
  LET n == Len(a) + Len(b)
  IN {[p \in 1..n |-> LET before == Cardinality({q \in places : q <= p})
                      IN IF p \in places THEN a[before] ELSE b[p - before]] :
      places \in {s \in SUBSET (1..n) : Cardinality(s) = Len(a)}}

OpenAIEvents(r) ==
  LET f(k) == IF k <= Len(r.calls) THEN Fragments(r.calls[k], k) ELSE <<>>
  IN {TextEvents(r) \o s : s \in Interleavings(f(1), f(2))}

(* Anthropic sends block after block, the text being the first.              *)
AnthropicEvents(r) ==
  LET first == IF r.text = <<>> THEN 0 ELSE 1
      block(k) ==
        LET c == r.calls[k]
        IN <<CallEvent("start", k + first, c, TRUE, <<>>)>>
             \o [i \in DOMAIN c.args |-> CallEvent("json", k + first, c, FALSE, <<c.args[i]>>)]
  IN {TextEvents(r) \o FlattenSeq([k \in DOMAIN r.calls |-> block(k)])}

Events(j, r) == IF j.provider = "anthropic" THEN AnthropicEvents(r) ELSE OpenAIEvents(r)

(* The two pieces of every line; the second ends it.                         *)
Pieces(events) ==
  [p \in 1..2 * Len(events) |-> [event |-> events[(p + 1) \div 2], ends |-> p % 2 = 0]]
-----------------------------------------------------------------------------
(* Reading the stream.                                                       *)

NoCall == [id |-> None, name |-> None, args |-> <<>>]
NoAcc == [content |-> <<>>, shown |-> <<>>, partials |-> <<>>]

(* SseLineParser::feed: lines are taken as they end, the rest is kept.       *)
RestNothing(pieces) == <<>>
Rest(pieces) ==
  LET ends == {p \in DOMAIN pieces : pieces[p].ends}
      last == CHOOSE p \in ends \cup {0} : \A q \in ends : q <= p
  IN SubSeq(pieces, last + 1, Len(pieces))
(* A line without its beginning does not parse, and is passed over.          *)
WholeLine(pieces, p) == pieces[p].ends /\ p > 1 /\ pieces[p - 1].event = pieces[p].event
Lines(pieces) ==
  LET whole == SelectSeq([p \in DOMAIN pieces |-> p], LAMBDA p : WholeLine(pieces, p))
  IN [i \in DOMAIN whole |-> pieces[whole[i]].event]

(* on_data: text goes to the caller at once, calls are collected by index.   *)
OnText(a, ev) == [a EXCEPT !.content = @ \o ev.text, !.shown = @ \o ev.text]
OnCall(a, ev) ==
  LET known(i) == IF i \in DOMAIN a.partials THEN a.partials[i] ELSE NoCall
      old == known(ev.index)
      new == [id   |-> IF ev.id # None THEN ev.id ELSE old.id,
              name |-> IF ev.name # None THEN ev.name ELSE old.name,
              args |-> old.args \o ev.args]
      size == IF ev.index > Len(a.partials) THEN ev.index ELSE Len(a.partials)
  IN [a EXCEPT !.partials = [i \in 1..size |-> IF i = ev.index THEN new ELSE known(i)]]
OnData(a, ev) == IF ev.kind = "text" THEN OnText(a, ev) ELSE OnCall(a, ev)
-----------------------------------------------------------------------------
(* The response.                                                             *)

NoResponse == [text |-> <<>>, calls |-> <<>>]
(* Arguments that do not parse are an empty object.                          *)
Parsed(args) == IF args \in JsonTexts THEN args ELSE <<>>

(* recover_tool_calls_from_content: a call written as text, JSON or the      *)
(* XML-ish form, is a call, and no call at all when tools were withheld.     *)
RecoveredId(form, c, i) ==
  CASE form = "xml" -> Positional(i - 1)
    [] form = "json" /\ c.id = None -> Positional(0)
    [] OTHER -> c.id
RecoverAlways(out, withheld) ==
  IF out.calls # <<>> \/ out.text \notin DOMAIN Prose THEN out
  ELSE [text |-> <<>>, calls |-> Prose[out.text].calls]
Recover(out, withheld) ==
  IF out.calls # <<>> \/ out.text \notin DOMAIN Prose THEN out
  ELSE LET found == Prose[out.text]
           calls == [i \in DOMAIN found.calls |->
                       [found.calls[i] EXCEPT !.id = RecoveredId(found.form, found.calls[i], i)]]
       IN [text |-> <<>>, calls |-> IF withheld THEN <<>> ELSE calls]

(* The calls a stream leaves: partial calls without a name were never begun. *)
StreamedCalls(j, partials) ==
  LET named == SelectSeq(partials, LAMBDA p : p.name # None)
  IN [i \in DOMAIN named |->
       [named[i] EXCEPT !.id = IF @ = None /\ j.provider = "openai" THEN Positional(i - 1) ELSE @,
                        !.args = Parsed(@)]]
Streamed(j, a) ==
  LET calls == StreamedCalls(j, a.partials)
      out == [text |-> IF calls = <<>> THEN a.content ELSE <<>>, calls |-> calls]
  IN IF j.provider = "openai" THEN Recover(out, j.choice = "none") ELSE out

(* A whole body: OpenAI's content is only read when there are no calls.      *)
WholeCalls(r) == [i \in DOMAIN r.calls |-> [r.calls[i] EXCEPT !.args = Parsed(@)]]
Whole(j, r) ==
  IF j.provider = "anthropic" THEN [text |-> r.text, calls |-> WholeCalls(r)]
  ELSE Recover([text  |-> IF r.calls = <<>> THEN r.text ELSE <<>>,
                calls |-> WholeCalls(r)], j.choice = "none")
-----------------------------------------------------------------------------
Init ==
  /\ job \in Jobs
  /\ pc = "new" /\ request = NoBody /\ attempt = 0 /\ asked = 0 /\ reply = NoResponse
  /\ wire = <<>> /\ buffer = <<>> /\ acc = NoAcc /\ response = NoResponse

(* keep_in_window of the run loop: what of the history is sent.              *)
Kept == TrimToFit(job.history, job.budget)

(* complete, embed and fetch_default_model: build the request.               *)
Build ==
  /\ pc = "new"
  /\ request' = Body([job EXCEPT !.history = Kept])
  /\ pc' = "connect"
  /\ UNCHANGED <<job, attempt, asked, reply, wire, buffer, acc, response>>

(* A request whose connection was never made is tried again after a pause,   *)
(* MaxConnectRetries times; the discovery of a model tries once.             *)
ConnectErrors == {"Connection", "ConnectionTimeout", "ProxyConnection"}
ReadErrors == {"Read", "Status", "Body"}   (* also timeouts, refusals, no JSON *)
IsTransient(error) == error \in ConnectErrors
ReceivedAny == acc # NoAcc \/ buffer # <<>>
Retry(error) ==
  /\ job.kind # "models" /\ IsTransient(error)
  /\ ~ReceivedAny /\ attempt < MaxConnectRetries

(* Otherwise complete and embed throw, fetch_default_model returns no name.  *)
Failed == IF job.kind = "models" THEN "done" ELSE "thrown"
Fails ==
  /\ pc \in {"connect", "reading"}
  /\ \E error \in IF pc = "connect" THEN ConnectErrors ELSE ReadErrors :
       IF Retry(error)
       THEN pc' = "connect" /\ attempt' = attempt + 1 /\ wire' = <<>>
       ELSE pc' = Failed /\ UNCHANGED <<attempt, wire>>
  /\ UNCHANGED <<job, request, asked, reply, buffer, acc, response>>

(* The server reads the request and answers; it makes calls of the tools it  *)
(* was shown.                                                                *)
Accept ==
  /\ pc = "connect"
  /\ asked' = asked + 1
  /\ \E r \in Replies :
       /\ r.calls # <<>> => request.tools
       /\ reply' = r
       /\ IF job.kind = "chat" /\ job.stream
          THEN \E events \in Events(job, r) : wire' = Pieces(events)
          ELSE wire' = <<>>
  /\ pc' = "reading"
  /\ UNCHANGED <<job, request, attempt, buffer, acc, response>>

(* do_post_stream's receiver: a chunk of any length.                         *)
Receive ==
  /\ pc = "reading"
  /\ \E k \in DOMAIN wire :
       LET pieces == buffer \o SubSeq(wire, 1, k)
       IN /\ acc' = FoldLeft(OnData, acc, Lines(pieces))
          /\ buffer' = Rest(pieces)
          /\ wire' = SubSeq(wire, k + 1, Len(wire))
  /\ UNCHANGED <<job, pc, request, attempt, asked, reply, response>>

(* The body has arrived.                                                     *)
Complete ==
  /\ pc = "reading" /\ wire = <<>>
  /\ pc' = "done"
  /\ response' = CASE job.kind # "chat" -> NoResponse
                   [] job.kind = "chat" /\ job.stream -> Streamed(job, acc)
                   [] OTHER -> Whole(job, reply)
  /\ UNCHANGED <<job, request, attempt, asked, reply, wire, buffer, acc>>

Next == Build \/ Fails \/ Accept \/ Receive \/ Complete
Spec == Init /\ [][Next]_vars
-----------------------------------------------------------------------------
(* Every variable has its type; the attempts are bounded.                    *)
TypeOK ==
  /\ job \in Jobs
  /\ pc \in {"new", "connect", "reading", "done", "thrown"}
  /\ attempt \in 0..MaxConnectRetries
  /\ asked \in Nat
  /\ reply \in Reply /\ response \in Reply
  /\ acc.content \in Seq(Texts) /\ acc.shown \in Seq(Texts)
  /\ Len(buffer) <= 1
  /\ request.tools => job.tools

(* What the model said is what the run gets: however the network cut the     *)
(* stream and the server interleaved its calls, the response has the reply's *)
(* calls, each with its own id, name and arguments, or else its text, and    *)
(* the client was shown that text in order and once.  No server is asked a    *)
(* second time for what it may already be writing (SseLineParser, on_data,   *)
(* the retries of do_post and do_post_stream).                               *)
Matches(call, said) ==
  /\ call.name = said.name
  /\ call.args = Parsed(said.args)
  /\ said.id # None => call.id = said.id
AnswerIsTheReply ==
  /\ asked <= 1
  /\ IsPrefix(acc.shown, reply.text)
  /\ pc = "done" /\ job.kind = "chat" =>
       \/ job.provider = "openai" /\ reply.text \in DOMAIN Prose
       \/ /\ Len(response.calls) = Len(reply.calls)
          /\ \A i \in DOMAIN reply.calls : Matches(response.calls[i], reply.calls[i])
          /\ reply.calls = <<>> => response.text = reply.text
          /\ job.stream => acc.shown = reply.text

(* A completion asked for without tools returns no call, not even one the    *)
(* model wrote as text, and such a text is not handed on as an answer either *)
(* (build_*_body and the end of recover_tool_calls_from_content).            *)
WithheldMeansNoCall ==
  pc = "done" /\ job.choice = "none" =>
    /\ response.calls = <<>>
    /\ job.provider = "openai" => response.text \notin DOMAIN Prose

(* Trimming takes no more than it must, and the newest of each tool last:    *)
(* a history that fits is sent as it is; what is sent fits the window unless *)
(* nothing is left to take but what is protected; the newest result of a     *)
(* tool is shortened only when every older one is (trim_to_fit).             *)
Protected(h, i) ==
  h[i].role \in {"system", "user"} \/ \A k \in DOMAIN h : h[k].role = "assistant" => k <= i
Result(h, i) == h[i].role = "tool"
Superseded(h, i) ==
  Result(h, i) /\ \E k \in DOMAIN h : k > i /\ Result(h, k) /\ NameOf[h[k].id] = NameOf[h[i].id]
Untouched(h, i) ==
  /\ h[i].role \notin {"tool", "assistant"} \/ h[i].size < MinShrinkable
  /\ h[i].images = <<>> /\ \A k \in DOMAIN h[i].args : h[i].args[k] < MinShrinkable
TrimmedInOrder ==
  LET h == job.history
      old == {i \in DOMAIN h : ~Protected(h, i)}
      shortened == {i \in old : Result(h, i) /\ Kept[i].size # h[i].size}
  IN /\ Estimate(h) <= job.budget => Kept = h
     /\ Estimate(Kept) <= job.budget \/ \A i \in old : Untouched(Kept, i)
     /\ (\E i \in shortened : ~Superseded(h, i)) =>
          \A k \in old : Superseded(h, k) /\ h[k].size >= MinShrinkable => k \in shortened

(* What the run knows reaches the model: whatever the provider's form and    *)
(* however far the history was trimmed, the request holds every result of a  *)
(* tool once and in order, after the message that made the call, and every   *)
(* image that was kept; instructions, the user's words and the step in       *)
(* progress are whole, and the rest is trimmed in order                      *)
(* (build_messages_json, build_anthropic_messages, trim_to_fit).             *)
Results(h) == LET tool == SelectSeq(h, LAMBDA m : m.role = "tool")
              IN [i \in DOMAIN tool |-> tool[i].id]
ImagesOf(h) == FlattenSeq([i \in DOMAIN h |-> h[i].images])
CallBefore(sent, id) ==
  \E i, j \in DOMAIN sent : i < j /\ Contains(sent[i].calls, id) /\ Contains(sent[j].results, id)
ResultsReachModel ==
  pc # "new" /\ job.kind = "chat" =>
    LET sent == request.messages
        h == job.history
    IN /\ FlattenSeq([i \in DOMAIN sent |-> sent[i].results]) = Results(h)
       /\ ImagesOf(sent) = ImagesOf(Kept)
       /\ \A id \in ToSet(Results(h)) : CallBefore(sent, id)
       /\ \A i \in DOMAIN h : Protected(h, i) => Kept[i] = h[i]
       /\ TrimmedInOrder
=============================================================================
