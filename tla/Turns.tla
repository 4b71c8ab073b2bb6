------------------------------- MODULE Turns -------------------------------
(***************************************************************************)
(* Chat messages and the grammar of a conversation.  A message             *)
(* (ChatMessage, src/llm/types.rs) is reduced to its role, the request     *)
(* that produced it, and the ids of the tool calls it makes or answers.    *)
(***************************************************************************)
EXTENDS Integers, Sequences

CONSTANTS
  Requests,  \* the chat requests made of the agent
  CallIds,   \* tool call ids the model may choose
  Nobody     \* author of the system prompt

ASSUME NobodyAssumption == Nobody \notin Requests

Message ==
  [role : {"system", "user", "assistant", "tool"},
   by   : Requests \cup {Nobody},
   ids  : Seq(CallIds)]

System            == [role |-> "system",    by |-> Nobody, ids |-> <<>>]
User(r)           == [role |-> "user",      by |-> r, ids |-> <<>>]
Reply(r)          == [role |-> "assistant", by |-> r, ids |-> <<>>]
ToolCalls(r, ids) == [role |-> "assistant", by |-> r, ids |-> ids]
ToolResult(r, id) == [role |-> "tool",      by |-> r, ids |-> <<id>>]

-----------------------------------------------------------------------------
\* Every tool call in h is answered, in call order, right after the message
\* that makes it.
Paired(h) ==
  \A i \in 1..Len(h) : h[i].role = "assistant" =>
    /\ i + Len(h[i].ids) <= Len(h)
    /\ \A k \in 1..Len(h[i].ids) : h[i + k] = ToolResult(h[i].by, h[i].ids[k])

IsFinal(m) == m.role = "assistant" /\ m.ids = <<>>

\* May m come right after l?  Only a user message follows a final answer; within
\* a turn everything has the same author and nobody but the first is the user.
Follows(l, m) ==
  IF IsFinal(l)
  THEN m.role = "user"
  ELSE m.by = l.by /\ m.role \in {"assistant", "tool"}

Ordered(h) ==
  \A i \in 1..Len(h) - 1 : Follows(h[i], h[i + 1])

\* A list of turns, none of them cut at either end.
WholeTurns(h) ==
  /\ h # <<>> => h[1].role = "user" /\ IsFinal(h[Len(h)])
  /\ Ordered(h)
  /\ Paired(h)

AllBy(h, r) == \A i \in 1..Len(h) : h[i].by = r

\* The one turn of request r.
IsTurn(h, r) ==
  /\ h # <<>>
  /\ WholeTurns(h)
  /\ AllBy(h, r)
  /\ \A i \in 1..Len(h) : h[i].role = "user" => i = 1
=============================================================================
