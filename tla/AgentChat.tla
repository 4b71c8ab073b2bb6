----------------------------- MODULE AgentChat -----------------------------
(***************************************************************************)
(* Conversation turns of one agent (src/agent/runtime.rs) over the         *)
(* default in-process session store (src/session/memory.rs).               *)
(*                                                                         *)
(* Any number of requests run concurrently against one Arc<Agent>.  Each   *)
(* is chat, chat_with_tools or chat_stream.  An action is what a handler   *)
(* does between two of its await points, so everything another request     *)
(* can see of it is visible between two actions.  The model provider is    *)
(* external: it answers with text, with tool calls, or fails.              *)
(*                                                                         *)
(* Messages are those of module Turns; their text is not modelled.         *)
(***************************************************************************)
EXTENDS Turns, FiniteSets

CONSTANTS
  Sessions,        \* session ids
  ToolRequests,    \* the non-empty lists of tool calls one answer may hold
  MaxRounds,       \* the caller's max_rounds (0 is taken as 1)
  HasSystemPrompt, \* does the manifest have a system prompt?
  ReportsUsage     \* does the provider report usage with each completion?

ASSUME ToolRequestsAssumption == ToolRequests \subseteq Seq(CallIds) \ {<<>>}
ASSUME MaxRoundsAssumption == MaxRounds \in Nat
ASSUME FlagsAssumption == HasSystemPrompt \in BOOLEAN /\ ReportsUsage \in BOOLEAN

VARIABLES
  history,     \* the session store: the messages of each session
  task,        \* what each request asks: a kind of turn in a session
  pc,          \* the await point a request has reached, or how it ended
  messages,    \* what the next completion is asked with
  transcript,  \* what the turn will add to the session
  calls,       \* tool calls of the last answer that have not run yet
  rounds,      \* completions received by the turn
  usage,       \* usage_totals.requests: completions that reported usage
  uncleared    \* history variable: loaded, and the session not cleared since

vars == <<history, task, pc, messages, transcript, calls, rounds, usage, uncleared>>

-----------------------------------------------------------------------------
Kinds    == {"chat", "tools", "stream"}
Waiting  == {"llm", "tools", "stream", "commit"}
Terminal == {"ok", "err", "dropped"}

SystemPrompt == IF HasSystemPrompt THEN <<System>> ELSE <<>>

\* for _ in 0..max_rounds.max(1)
RoundLimit == IF MaxRounds = 0 THEN 1 ELSE MaxRounds

Bill(n) == IF ReportsUsage THEN n + 1 ELSE n

Session(r) == task[r].session

-----------------------------------------------------------------------------
Init ==
  /\ history = [s \in Sessions |-> <<>>]
  /\ task \in [Requests -> [kind : Kinds, session : Sessions]]
  /\ pc = [r \in Requests |-> "idle"]
  /\ messages = [r \in Requests |-> <<>>]
  /\ transcript = [r \in Requests |-> <<>>]
  /\ calls = [r \in Requests |-> <<>>]
  /\ rounds = [r \in Requests |-> 0]
  /\ usage = 0
  /\ uncleared = {}

\* Altered: the user message is stored as soon as it arrives.
LoadStoresUser(r) ==
  /\ pc[r] = "idle"
  /\ messages' = [messages EXCEPT ![r] = SystemPrompt \o history[Session(r)] \o <<User(r)>>]
  /\ transcript' = [transcript EXCEPT ![r] = <<User(r)>>]
  /\ history' = [history EXCEPT ![Session(r)] = Append(@, User(r))]
  /\ pc' = [pc EXCEPT ![r] = "llm"]
  /\ uncleared' = uncleared \cup {r}
  /\ UNCHANGED <<task, calls, rounds, usage>>

\* conversation(): system prompt, the history as it is now, the user message.
\* The store's lock is released before the provider is asked.
Load(r) ==
  /\ pc[r] = "idle"
  /\ messages' = [messages EXCEPT ![r] = SystemPrompt \o history[Session(r)] \o <<User(r)>>]
  /\ transcript' = [transcript EXCEPT ![r] = <<User(r)>>]
  /\ pc' = [pc EXCEPT ![r] = "llm"]
  /\ uncleared' = uncleared \cup {r}
  /\ UNCHANGED <<history, task, calls, rounds, usage>>

\* The completion is an answer in text: the turn is ready to be stored.  chat
\* takes every answer as text, chat_with_tools one that calls no tool.
AnswerText(r) ==
  /\ pc[r] = "llm"
  /\ task[r].kind \in {"chat", "tools"}
  /\ usage' = Bill(usage)
  /\ rounds' = [rounds EXCEPT ![r] = @ + 1]
  /\ transcript' = [transcript EXCEPT ![r] = Append(@, Reply(r))]
  /\ pc' = [pc EXCEPT ![r] = "commit"]
  /\ UNCHANGED <<history, task, messages, calls, uncleared>>

\* Altered: the tool calls reach the transcript but not the next prompt.
AnswerCallsUnsent(r, ids) ==
  /\ pc[r] = "llm"
  /\ task[r].kind = "tools"
  /\ usage' = Bill(usage)
  /\ rounds' = [rounds EXCEPT ![r] = @ + 1]
  /\ transcript' = [transcript EXCEPT ![r] = Append(@, ToolCalls(r, ids))]
  /\ calls' = [calls EXCEPT ![r] = ids]
  /\ pc' = [pc EXCEPT ![r] = "tools"]
  /\ UNCHANGED <<history, task, messages, uncleared>>

\* Altered: usage is recorded only for the answer that ends the turn.
AnswerCallsUnbilled(r, ids) ==
  /\ pc[r] = "llm"
  /\ task[r].kind = "tools"
  /\ rounds' = [rounds EXCEPT ![r] = @ + 1]
  /\ messages' = [messages EXCEPT ![r] = Append(@, ToolCalls(r, ids))]
  /\ transcript' = [transcript EXCEPT ![r] = Append(@, ToolCalls(r, ids))]
  /\ calls' = [calls EXCEPT ![r] = ids]
  /\ pc' = [pc EXCEPT ![r] = "tools"]
  /\ UNCHANGED <<history, task, usage, uncleared>>

\* The completion calls tools: the assistant message goes both to the next
\* prompt and to the transcript, and the calls are executed one by one.
AnswerCalls(r, ids) ==
  /\ pc[r] = "llm"
  /\ task[r].kind = "tools"
  /\ usage' = Bill(usage)
  /\ rounds' = [rounds EXCEPT ![r] = @ + 1]
  /\ messages' = [messages EXCEPT ![r] = Append(@, ToolCalls(r, ids))]
  /\ transcript' = [transcript EXCEPT ![r] = Append(@, ToolCalls(r, ids))]
  /\ calls' = [calls EXCEPT ![r] = ids]
  /\ pc' = [pc EXCEPT ![r] = "tools"]
  /\ UNCHANGED <<history, task, uncleared>>

\* Altered: the result goes to the next prompt but not to the transcript.
RunSkillUnrecorded(r) ==
  /\ pc[r] = "tools"
  /\ messages' = [messages EXCEPT ![r] = Append(@, ToolResult(r, Head(calls[r])))]
  /\ calls' = [calls EXCEPT ![r] = Tail(@)]
  /\ pc' = [pc EXCEPT ![r] = IF Tail(calls[r]) # <<>> THEN "tools"
                             ELSE IF rounds[r] < RoundLimit THEN "llm" ELSE "err"]
  /\ UNCHANGED <<history, task, transcript, rounds, usage, uncleared>>

\* Altered: 0..=max_rounds instead of 0..max_rounds.
RunSkillExtraRound(r) ==
  /\ pc[r] = "tools"
  /\ messages' = [messages EXCEPT ![r] = Append(@, ToolResult(r, Head(calls[r])))]
  /\ transcript' = [transcript EXCEPT ![r] = Append(@, ToolResult(r, Head(calls[r])))]
  /\ calls' = [calls EXCEPT ![r] = Tail(@)]
  /\ pc' = [pc EXCEPT ![r] = IF Tail(calls[r]) # <<>> THEN "tools"
                             ELSE IF rounds[r] <= RoundLimit THEN "llm" ELSE "err"]
  /\ UNCHANGED <<history, task, rounds, usage, uncleared>>

\* execute_skill returned for the first pending call, with a value or with an
\* error that becomes the {"error": ...} result.  After the last call the loop
\* asks the provider again, or gives up when the rounds are used up: the
\* transcript of the turn is then lost.
RunSkill(r) ==
  /\ pc[r] = "tools"
  /\ messages' = [messages EXCEPT ![r] = Append(@, ToolResult(r, Head(calls[r])))]
  /\ transcript' = [transcript EXCEPT ![r] = Append(@, ToolResult(r, Head(calls[r])))]
  /\ calls' = [calls EXCEPT ![r] = Tail(@)]
  /\ pc' = [pc EXCEPT ![r] = IF Tail(calls[r]) # <<>> THEN "tools"
                             ELSE IF rounds[r] < RoundLimit THEN "llm" ELSE "err"]
  /\ UNCHANGED <<history, task, rounds, usage, uncleared>>

\* llm.chat_stream returned a stream; the chunks it yields change no state
\* that another request can see.
OpenStream(r) ==
  /\ pc[r] = "llm"
  /\ task[r].kind = "stream"
  /\ pc' = [pc EXCEPT ![r] = "stream"]
  /\ UNCHANGED <<history, task, messages, transcript, calls, rounds, usage, uncleared>>

\* The terminal chunk arrived: the accumulated reply is ready to be stored.
\* Streams report no usage.
StreamDone(r) ==
  /\ pc[r] = "stream"
  /\ transcript' = [transcript EXCEPT ![r] = Append(@, Reply(r))]
  /\ pc' = [pc EXCEPT ![r] = "commit"]
  /\ UNCHANGED <<history, task, messages, calls, rounds, usage, uncleared>>

\* The provider failed (llm.chat(..)?, llm.chat_stream(..)?, chunk?), or the
\* stream ended without a terminal chunk: the turn ends and leaves no trace.
ProviderFails(r) ==
  /\ pc[r] \in {"llm", "stream"}
  /\ pc' = [pc EXCEPT ![r] = "err"]
  /\ UNCHANGED <<history, task, messages, transcript, calls, rounds, usage, uncleared>>

\* Altered: the turn writes back the history it loaded with its own messages.
CommitWritesBack(r) ==
  /\ pc[r] = "commit"
  /\ history' = [history EXCEPT ![Session(r)] =
       SubSeq(messages[r], Len(SystemPrompt) + 1, Len(messages[r])) \o <<Reply(r)>>]
  /\ pc' = [pc EXCEPT ![r] = "ok"]
  /\ UNCHANGED <<task, messages, transcript, calls, rounds, usage, uncleared>>

\* Altered: the session must exist already (get_mut for entry().or_default()).
CommitExistingOnly(r) ==
  /\ pc[r] = "commit"
  /\ history[Session(r)] # <<>>
  /\ history' = [history EXCEPT ![Session(r)] = @ \o transcript[r]]
  /\ pc' = [pc EXCEPT ![r] = "ok"]
  /\ UNCHANGED <<task, messages, transcript, calls, rounds, usage, uncleared>>

\* sessions.append(..): one write lock for the whole batch, creating the
\* session if needed; the reply (or the terminal chunk) is handed out in the
\* same poll.
Commit(r) ==
  /\ pc[r] = "commit"
  /\ history' = [history EXCEPT ![Session(r)] = @ \o transcript[r]]
  /\ pc' = [pc EXCEPT ![r] = "ok"]
  /\ UNCHANGED <<task, messages, transcript, calls, rounds, usage, uncleared>>

\* Altered: the append goes on in a task of its own when the caller is gone.
DropStillStores(r) ==
  /\ pc[r] \in Waiting
  /\ pc' = [pc EXCEPT ![r] = "dropped"]
  /\ history' = IF pc[r] = "commit"
                THEN [history EXCEPT ![Session(r)] = @ \o transcript[r]]
                ELSE history
  /\ UNCHANGED <<task, messages, transcript, calls, rounds, usage, uncleared>>

\* The server drops the future or the stream of a client that went away, at
\* whatever await it had reached.
Drop(r) ==
  /\ pc[r] \in Waiting
  /\ pc' = [pc EXCEPT ![r] = "dropped"]
  /\ UNCHANGED <<history, task, messages, transcript, calls, rounds, usage, uncleared>>

\* clear_session, at any time, whatever turns are under way.
ClearSession(s) ==
  /\ history' = [history EXCEPT ![s] = <<>>]
  /\ uncleared' = {r \in uncleared : Session(r) # s}
  /\ UNCHANGED <<task, pc, messages, transcript, calls, rounds, usage>>

Step(r) ==
  \/ AnswerText(r)
  \/ \E ids \in ToolRequests : AnswerCalls(r, ids)
  \/ RunSkill(r)
  \/ OpenStream(r)
  \/ StreamDone(r)
  \/ ProviderFails(r)
  \/ Commit(r)

Next ==
  \/ \E r \in Requests : Load(r) \/ Step(r) \/ Drop(r)
  \/ \E s \in Sessions : ClearSession(s)

Spec == Init /\ [][Next]_vars

\* A turn that was started goes on as long as its caller waits: the provider's
\* HTTP client has a timeout, a skill has the policy's, and the store's lock is
\* held across no await.  Nothing forces a request, a drop or a clear.
FairSpec == Spec /\ \A r \in Requests : WF_vars(Step(r))

-----------------------------------------------------------------------------
(* Properties *)

\* Every variable has its type.
TypeOK ==
  /\ history \in [Sessions -> Seq(Message)]
  /\ task \in [Requests -> [kind : Kinds, session : Sessions]]
  /\ pc \in [Requests -> {"idle"} \cup Waiting \cup Terminal]
  /\ messages \in [Requests -> Seq(Message)]
  /\ transcript \in [Requests -> Seq(Message)]
  /\ calls \in [Requests -> Seq(CallIds)]
  /\ rounds \in [Requests -> Nat]
  /\ usage \in Nat
  /\ uncleared \subseteq Requests

\* A session holds whole turns, each from its user message to its final answer
\* with every tool call answered in between, and no system prompt -- whatever
\* was running, failed, was dropped or was cleared meanwhile (chat,
\* chat_with_tools, chat_stream, clear_session).
HistoryIsWholeTurns == \A s \in Sessions : WholeTurns(history[s])

\* A session holds messages only of requests that returned Ok in that session,
\* and each of those turns once: a failed or dropped turn leaves nothing.
RecordedOnce ==
  \A s \in Sessions :
    /\ \A i \in 1..Len(history[s]) :
         LET r == history[s][i].by
         IN  r \in Requests /\ pc[r] = "ok" /\ Session(r) = s
    /\ \A i, j \in 1..Len(history[s]) :
         history[s][i].role = "user" /\ history[s][j] = history[s][i] => i = j

\* A turn that returned Ok is in its session, unless the session was cleared
\* since the turn read it.
OkIsRecorded ==
  \A r \in uncleared : pc[r] = "ok" =>
    \E i \in 1..Len(history[Session(r)]) : history[Session(r)][i] = User(r)

\* A message as it goes to the provider (NvidiaClient::wire_message): with the ids
\* of the calls it makes, or of the one it answers.
Wire(m) ==
  [role |-> m.role,
   tool_calls   |-> IF m.role = "assistant" THEN m.ids ELSE <<>>,
   tool_call_id |-> IF m.role = "tool" THEN {m.ids[1]} ELSE {}]

\* The request of a completion.
ChatBody(r) ==
  [messages |-> [i \in 1..Len(messages[r]) |-> Wire(messages[r][i])],
   stream   |-> task[r].kind = "stream"]

\* What a provider takes for a conversation: every call is answered by its id, in
\* order and at once, and every answer is one to a call.
Acceptable(wire) ==
  \A i \in 1..Len(wire) :
    /\ \A k \in 1..Len(wire[i].tool_calls) :
         i + k <= Len(wire) /\ wire[i + k].tool_call_id = {wire[i].tool_calls[k]}
    /\ wire[i].role = "tool" => \E j \in 1..i - 1 : i - j <= Len(wire[j].tool_calls)

\* What the provider is asked with is the prompt the turn started from followed
\* by exactly what the turn will store, and every tool call in it is answered where
\* the provider looks for the answer: the two lists chat_with_tools extends in
\* parallel never drift apart.
PromptInSync ==
  \A r \in Requests : pc[r] = "llm" =>
    /\ Acceptable(ChatBody(r).messages)
    /\ \E n \in 0..Len(messages[r]) :
         /\ SubSeq(messages[r], n + 1, Len(messages[r])) = transcript[r]
         /\ Ordered(SubSeq(messages[r], Len(SystemPrompt) + 1, n))

\* Concurrent turns never rewrite what a turn has seen: the history it loaded is
\* still the beginning of the session when it stores its own, unless the session
\* was cleared.
LoadedIsPrefix ==
  \A r \in uncleared : pc[r] \in {"llm", "tools"} =>
    LET known == Len(messages[r]) - Len(transcript[r]) - Len(SystemPrompt)
    IN  /\ known \in 0..Len(history[Session(r)])
        /\ \A i \in 1..known :
             messages[r][Len(SystemPrompt) + i] = history[Session(r)][i]

\* No turn asks the provider more often than max_rounds allows, and one that
\* asks again still has a round left.
RoundsBounded ==
  \A r \in Requests :
    /\ rounds[r] <= RoundLimit
    /\ pc[r] = "llm" => rounds[r] < RoundLimit

\* Every completion that reported usage is accounted for, those of turns that
\* failed, were dropped or were cleared included (record_usage).
EveryCompletionBilled ==
  ReportsUsage =>
    usage = Cardinality({x \in Requests \X (1..RoundLimit) : x[2] <= rounds[x[1]]})

\* A request whose caller stays ends: the tool loop does not go on for ever and
\* no request waits for another one.
TurnsEnd == \A r \in Requests : pc[r] \in Waiting ~> pc[r] \in Terminal

-----------------------------------------------------------------------------
(* What makes these invariants inductive *)

Results(r, ids) == [k \in 1..Len(ids) |-> ToolResult(r, ids[k])]

\* The transcript with the answers that the pending calls will get.
Anticipated(r) == transcript[r] \o Results(r, calls[r])

\* A turn under way has everything but its end: with its pending calls answered
\* it is ordered and paired, and it awaits its final answer until it is ready
\* to be stored (the body of the loop in chat_with_tools).
InProgress(r) ==
  /\ pc[r] = "idle" => rounds[r] = 0 /\ calls[r] = <<>>
  /\ pc[r] \in Waiting =>
       /\ transcript[r] # <<>>
       /\ transcript[r][1] = User(r)
       /\ \A i \in 2..Len(transcript[r]) : transcript[r][i].role # "user"
       /\ AllBy(transcript[r], r)
       /\ Ordered(transcript[r])
       /\ Paired(Anticipated(r))
       /\ calls[r] # <<>> <=> pc[r] = "tools"
       /\ IsFinal(transcript[r][Len(transcript[r])]) <=> pc[r] = "commit"

TurnInProgress == \A r \in Requests : InProgress(r)

-----------------------------------------------------------------------------
(* The abstract specification *)

\* How a request looks from outside while it runs and after.
Status(p) == IF p \in Terminal THEN IF p = "ok" THEN "ok" ELSE "failed" ELSE "open"

Log == INSTANCE ConversationLog WITH
         log <- history, status <- [r \in Requests |-> Status(pc[r])]

\* The agent implements the log of whole turns: a turn is recorded in one step,
\* at the end of the session, by the request that then returns Ok.
ImplementsLog == Log!LogSpec
=============================================================================
