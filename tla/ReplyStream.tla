----------------------------- MODULE ReplyStream -----------------------------
(***************************************************************************)
(* A streamed reply on its way from the provider's response body to the    *)
(* client: NvidiaClient::chat_stream (src/llm/nvidia.rs) takes the body    *)
(* apart, Agent::chat_stream (src/agent/runtime.rs) collects the reply and *)
(* stores the turn, and the WebSocket handler (src/server/ws.rs) or the    *)
(* gRPC service (src/grpc/mod.rs) hands it on.                             *)
(*                                                                         *)
(* The body comes in pieces that are cut anywhere.  It is a sequence of    *)
(* symbols: a character of a reply is two bytes, its head and its tail; the*)
(* JSON around it is not modelled.  One connection is followed; the client *)
(* may leave at any time or stop to read, and the provider and the store   *)
(* may fail.                                                               *)
(***************************************************************************)
EXTENDS Naturals, Sequences, FiniteSets, SequencesExt

CONSTANTS
  Bodies,   \* response bodies to consider
  Texts,    \* replies that come whole
  Inboxes   \* what a WebSocket client may send, in order

VARIABLES
  front,   \* "ws", or "call": one call over REST or gRPC
  inbox,   \* the messages of the client
  at,      \* how many of them have been taken up
  state,   \* what the handler awaits
  alive,   \* is the client still there?
  body,    \* history variable: the response body of the message being answered
  wire,    \* the part of it that has not arrived
  buffer,  \* chat_stream's buffer
  reply,   \* the reply collected so far
  split,   \* history variable: was a character cut in two by the pieces?
  out,     \* the frames sent to the client
  stored   \* the session: the turns in it, or what is there of them

streamVars == <<front, inbox, at, state, alive, body, wire, buffer, reply, split, out, stored>>
connection == <<front, inbox, alive>>
stream == <<body, wire, buffer, reply, split>>

-----------------------------------------------------------------------------
(* Bodies *)

HeadOf(k) == <<"head", k>>
TailOf(k) == <<"tail", k>>
Newline  == <<"newline", 0>>
Done     == <<"[DONE]", 0>>     \* the line "data: [DONE]"
Quiet    == <<"quiet", 0>>      \* a line without content: a comment, a role, a finish reason
Garbled  == <<"garbled", 0>>    \* a data line that is no completion
Cut      == <<"cut", 0>>
Unknown  == 0                   \* the replacement character U+FFFD

Symbols == {"head", "tail", "newline", "[DONE]", "quiet", "garbled"} \X Nat

ASSUME StreamAssumption == Bodies \subseteq Seq(Symbols) /\ Texts \subseteq Seq(Nat)

\* String::from_utf8_lossy of one piece: half a character at its edge is lost.
Decode(piece) ==
  [i \in 1..Len(piece) |->
     IF \/ piece[i][1] = "head" /\ (i = Len(piece) \/ piece[i + 1][1] # "tail")
        \/ piece[i][1] = "tail" /\ (i = 1 \/ piece[i - 1][1] # "head")
     THEN Cut ELSE piece[i]]

\* The character a symbol stands for, if any.
Says(symbol) ==
  CASE symbol[1] = "head" -> <<symbol[2]>>
    [] symbol[1] = "cut"  -> <<Unknown>>
    [] OTHER              -> <<>>

\* The text in a line.
Delta(line) == FlattenSeq([i \in 1..Len(line) |-> Says(line[i])])

Has(line, kind) == \E i \in 1..Len(line) : line[i][1] = kind

\* Up to the first newline, and after it.
FirstLine(s) == SubSeq(s, 1, SelectInSeq(s, LAMBDA x : x[1] = "newline") - 1)
AfterLine(s) == SubSeq(s, SelectInSeq(s, LAMBDA x : x[1] = "newline") + 1, Len(s))

\* Where lines end before [DONE] or anything garbled.
LineEnds(s) ==
  {n \in 0..Len(s) : /\ n = 0 \/ s[n][1] = "newline"
                     /\ \A i \in 1..n : s[i][1] \notin {"[DONE]", "garbled"}}

\* What a body says, however it arrives.
Text(s) == Delta(SubSeq(s, 1, Max(LineEnds(s))))

-----------------------------------------------------------------------------
(* The connection *)

Frame(kind, text) == [to |-> at, kind |-> kind, text |-> text]

StreamInit ==
  /\ front \in {"ws", "call"}
  /\ inbox \in IF front = "ws" THEN Inboxes ELSE {<<"stream">>, <<"once">>}
  /\ at = 0
  /\ state = "recv"
  /\ alive = TRUE
  /\ body = <<>> /\ wire = <<>> /\ buffer = <<>> /\ reply = <<>>
  /\ split = FALSE
  /\ out = <<>>
  /\ stored = <<>>

\* A call is one message; a WebSocket takes up the next one.
Rest == IF front = "ws" THEN "recv" ELSE "closed"

\* A frame is sent and the handler goes on in next.  To a client that has left the
\* send may fail, which ends the connection and drops what it was at; with one that
\* stays and reads no more it does not return.
Send(frame, next) ==
  \/ out' = Append(out, frame) /\ state' = next
  \/ out' = out /\ state' = IF alive THEN "stuck" ELSE "closed"

\* What there is of a turn: all of it, or messages before the reply.
Turn(m, text) == [by |-> m, text |-> text, whole |-> TRUE]
Beginning(m)  == [by |-> m, text |-> <<>>, whole |-> FALSE]

\* An append that fails may have stored the turn, or the beginning of it.
AppendFails(text) ==
  stored' \in {stored, Append(stored, Beginning(at)), Append(stored, Turn(at, text))}

\* handle: the next message, one at a time.  What is no text is ignored; after a
\* message that does not parse the connection goes on whether or not the error
\* could be sent.
Take ==
  /\ state = "recv" /\ at < Len(inbox)
  /\ at' = at + 1
  /\ LET message == inbox[at + 1]
         answer(kind) == [to |-> at + 1, kind |-> kind, text |-> <<>>]
     IN  \/ message = "binary" /\ state' = "recv" /\ out' = out
         \/ message = "close" /\ state' = "closed" /\ out' = out
         \/ /\ message = "invalid"
            /\ \/ out' = Append(out, answer("error")) /\ state' = "recv"
               \/ out' = out /\ state' = IF alive THEN "stuck" ELSE "recv"
         \/ message = "ping" /\ Send(answer("pong"), "recv")
         \/ message \in {"once", "stream"} /\ state' = message /\ out' = out
  /\ UNCHANGED <<connection, stream, stored>>

\* No more messages, or the connection broke.
Hangup ==
  /\ state = "recv"
  /\ ~alive \/ at = Len(inbox)
  /\ state' = "closed"
  /\ UNCHANGED <<connection, at, stream, out, stored>>


\* chat_once: the whole reply, stored by Agent::chat before it is sent.
Reply(text) ==
  /\ state = "once"
  /\ stored' = Append(stored, Turn(at, text))
  /\ Send(Frame("reply", text), Rest)
  /\ UNCHANGED <<connection, at, stream>>

\* Agent::chat or Agent::chat_stream returned an error: the former also when it could
\* not store the turn.
Fails ==
  /\ \/ state \in {"once", "stream"} /\ stored' = stored
     \/ state = "once" /\ \E text \in Texts : AppendFails(text)
  /\ Send(Frame("error", <<>>), Rest)
  /\ UNCHANGED <<connection, at, stream>>

-----------------------------------------------------------------------------
(* The stream *)

\* The provider's response has begun.
Begin(b) ==
  /\ state = "stream"
  /\ state' = "streaming"
  /\ body' = b /\ wire' = b
  /\ buffer' = <<>> /\ reply' = <<>> /\ split' = FALSE
  /\ UNCHANGED <<connection, at, out, stored>>

\* Altered: what is left of the last piece is forgotten when the next arrives.
ArriveAnew(n) ==
  /\ state = "streaming" /\ ~Has(buffer, "newline") /\ n \in 1..Len(wire)
  /\ LET piece == SubSeq(wire, 1, n)
     IN  /\ buffer' = Decode(piece)
         /\ split' = (split \/ Has(Decode(piece), "cut"))
  /\ wire' = SubSeq(wire, n + 1, Len(wire))
  /\ UNCHANGED <<connection, at, state, body, reply, out, stored>>

\* bytes.next(): the next piece, wherever it ends.
Arrive(n) ==
  /\ state = "streaming" /\ ~Has(buffer, "newline") /\ n \in 1..Len(wire)
  /\ LET piece == SubSeq(wire, 1, n)
     IN  /\ buffer' = buffer \o Decode(piece)
         /\ split' = (split \/ Has(Decode(piece), "cut"))
  /\ wire' = SubSeq(wire, n + 1, Len(wire))
  /\ UNCHANGED <<connection, at, state, body, reply, out, stored>>

\* bytes.next(): the connection to the provider broke.
Breaks ==
  /\ state = "streaming" /\ ~Has(buffer, "newline")
  /\ Send(Frame("error", <<>>), Rest)
  /\ UNCHANGED <<connection, at, stream, stored>>

\* The line at the head of the buffer.
Line == FirstLine(buffer)

\* Altered: a line is taken off the buffer only if it has content.
ChunkLeavesQuiet ==
  /\ state = "streaming" /\ Has(buffer, "newline")
  /\ ~Has(Line, "[DONE]") /\ ~Has(Line, "garbled")
  /\ Delta(Line) # <<>>
  /\ buffer' = AfterLine(buffer)
  /\ reply' = reply \o Delta(Line)
  /\ Send(Frame("chunk", Delta(Line)), "streaming")
  /\ UNCHANGED <<connection, at, body, wire, split, stored>>

\* A line with content becomes a chunk: added to the reply, and sent.
Chunk ==
  /\ state = "streaming" /\ Has(buffer, "newline")
  /\ ~Has(Line, "[DONE]") /\ ~Has(Line, "garbled")
  /\ buffer' = AfterLine(buffer)
  /\ reply' = reply \o Delta(Line)
  /\ IF Delta(Line) = <<>> THEN UNCHANGED <<out, state>>
     ELSE Send(Frame("chunk", Delta(Line)), "streaming")
  /\ UNCHANGED <<connection, at, body, wire, split, stored>>

\* The reply ends with the line [DONE], or with the body.
Ends ==
  IF Has(buffer, "newline") THEN Has(Line, "[DONE]") ELSE wire = <<>>

\* Altered: the client is told before the turn is stored.
CompleteThenStore ==
  /\ state = "streaming" /\ Ends
  /\ Send(Frame("done", <<>>), Rest)
  /\ stored' \in {stored, Append(stored, Turn(at, reply))}
  /\ UNCHANGED <<connection, at, stream>>

\* The terminal chunk: the turn is stored, then the client told.
Complete ==
  /\ state = "streaming" /\ Ends
  /\ stored' = Append(stored, Turn(at, reply))
  /\ Send(Frame("done", <<>>), Rest)
  /\ UNCHANGED <<connection, at, stream>>

\* Altered: an error is passed on and the next line taken.
SpoiltGoesOn ==
  /\ state = "streaming"
  /\ Ends \/ (Has(buffer, "newline") /\ Has(Line, "garbled"))
  /\ Send(Frame("error", <<>>), "streaming")
  /\ buffer' = AfterLine(buffer)
  /\ UNCHANGED <<connection, at, body, wire, reply, split, stored>>

\* A line is no completion, or the session store fails.
Spoilt ==
  /\ state = "streaming"
  /\ \/ Has(buffer, "newline") /\ Has(Line, "garbled") /\ stored' = stored
     \/ Ends /\ AppendFails(reply)
  /\ Send(Frame("error", <<>>), Rest)
  /\ UNCHANGED <<connection, at, stream>>

\* The client leaves.  A call is dropped with it, and an append under way takes its
\* course; a send that did not return fails, which an invalid message's answer may.
Leave ==
  /\ alive
  /\ alive' = FALSE
  /\ \/ front = "call" /\ state' = "closed"
        /\ \/ stored' = stored
           \/ state = "once" /\ \E text \in Texts : AppendFails(text)
           \/ state = "streaming" /\ Ends /\ AppendFails(reply)
     \/ front = "ws" /\ stored' = stored
        /\ state' = IF state # "stuck" THEN state
                    ELSE IF inbox[at] = "invalid" THEN "recv" ELSE "closed"
  /\ UNCHANGED <<front, inbox, at, stream, out>>

Respond ==
  \/ \E b \in Bodies : Begin(b)
  \/ \E text \in Texts : Reply(text)
  \/ Fails
  \/ \E n \in 1..Len(wire) : Arrive(n)
  \/ Breaks \/ Chunk \/ Complete \/ Spoilt

StreamNext == Take \/ Hangup \/ Leave \/ Respond

StreamSpec == StreamInit /\ [][StreamNext]_streamVars

\* The handler goes on as long as it is polled: the provider's client has a
\* timeout for the whole response.  Nothing forces the client to do anything, and
\* what is stuck in a send to it stays so.
FairStreamSpec == StreamSpec /\ WF_streamVars(Respond)

-----------------------------------------------------------------------------
(* Properties *)

StreamTypeOK ==
  /\ front \in {"ws", "call"} /\ alive \in BOOLEAN /\ split \in BOOLEAN
  /\ at \in 0..Len(inbox)
  /\ state \in {"recv", "once", "stream", "streaming", "stuck", "closed"}
  /\ \A i \in 1..Len(out) : out[i].to \in 1..at
  /\ \A i \in 1..Len(stored) : stored[i].by \in 1..at

Final(frame) == frame.kind # "chunk"

\* Every message is answered by chunks and then one final frame, or by that frame
\* alone; no frame of one message comes after or between those of a later one;
\* and none of a client that stays and reads is left without its final frame
\* (handle, chat_streaming, chat_once; the ChatChunk stream).
AnsweredInOrder ==
  /\ \A i, j \in 1..Len(out) : i < j =>
       /\ out[i].to <= out[j].to
       /\ out[i].to = out[j].to => ~Final(out[i])
  /\ alive => \A m \in 1..at :
       \/ inbox[m] \in {"binary", "close"}
       \/ m = at /\ state \in {"once", "stream", "streaming", "stuck"}
       \/ \E i \in 1..Len(out) : out[i].to = m /\ Final(out[i])

\* The text the client was sent for message m.
SentText(m) ==
  FlattenSeq([i \in 1..Len(out) |-> IF out[i].to = m THEN out[i].text ELSE <<>>])

\* The turn of the message at hand, once it is stored.
StreamedTurn == {t \in Range(stored) : t.by = at /\ t.whole /\ inbox[at] = "stream"}

\* A turn is stored once, in the order of the messages.  A client that is told "done"
\* or handed a reply finds exactly the text it was sent in the session.  One that is
\* told of an error may find the beginning of its turn, or all of it if the store
\* failed last, and then the text is that of the chunks it was sent; but no reply that
\* broke off before its end is stored as one (Agent::chat_stream stores, then yields
\* the terminal chunk).
StoredAsSent ==
  /\ \A i, j \in 1..Len(stored) : i < j => stored[i].by < stored[j].by
  /\ \A i \in 1..Len(out) :
       LET turn == {t \in Range(stored) : t.by = out[i].to}
       IN  /\ out[i].kind \in {"done", "reply"} =>
                turn = {Turn(out[i].to, SentText(out[i].to))}
           /\ out[i].kind = "error" =>
                \A t \in turn : t.whole =>
                  inbox[out[i].to] = "once" \/ t.text = SentText(out[i].to)
  /\ StreamedTurn # {} => Ends

\* However the body is cut into pieces, a streamed reply is the text of the
\* body's lines, as long as no cut falls inside a character (chat_stream's buffer).
CutsDoNotShow == ~split => \A t \in StreamedTurn : t.text = Text(body)

\* A message that is being answered is answered to the end, or the connection is
\* closed, unless its client stays and never reads on.
AnswersEnd ==
  state \in {"once", "stream", "streaming"} ~>
    (state \in {"recv", "closed"} \/ [](alive /\ state = "stuck"))
=============================================================================
