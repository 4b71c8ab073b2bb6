------------------------------ MODULE McpStdio ------------------------------
(***************************************************************************)
(* One MCP connection over a child process's stdin and stdout              *)
(* (src/mcp/client.rs, Transport::Stdio).  The calls of all tasks share    *)
(* the connection under one lock: a call writes its request and reads      *)
(* lines until one carries its id.  The server answers in any order and    *)
(* also sends messages of its own; it may die or be shut down, and any     *)
(* call may be dropped at any of its awaits.                               *)
(***************************************************************************)
EXTENDS Naturals, Sequences, FiniteSets

CONSTANTS
  Calls,        \* requests made on the connection
  Handshake,    \* the one connect makes, before the client is handed out
  ServerIds,    \* ids the server uses for requests of its own
  MaxUnasked,   \* bound on the lines the server sends unasked
  Nobody

ASSUME McpAssumption ==
  /\ Handshake \in Calls /\ Nobody \notin Calls
  /\ ServerIds \subseteq Nat
  /\ MaxUnasked \in Nat

VARIABLES
  phase,    \* "connecting", "ready", or "failed" (the client was dropped)
  nextId,   \* McpClient.next_id
  pc,       \* where each call is
  id,       \* the id of each call's request, or NoId
  holder,   \* who holds the lock on the pipes
  torn,     \* does stdin end in the middle of a line?
  stdin,    \* lines on their way to the server: each the id it asks with
  asked,    \* ids of the requests the server works on
  stdout,   \* lines on their way to the client
  unasked,  \* how many lines the server has sent unasked
  server,   \* "up" or "down"
  answer,   \* history variable: the line each call took for its response
  spoiled   \* history variable: was a call ever dropped inside a line?

vars == <<phase, nextId, pc, id, holder, torn, stdin, asked, stdout, unasked,
          server, answer, spoiled>>
clientVars == <<phase, nextId, pc, id, holder, answer, spoiled>>
serverVars == <<asked, unasked, server>>

\* A message without an id, or what is no message at all; ids start at 1.
NoId == 0

Kinds   == {"result", "error", "request", "notification", "garbled"}
Garbled == [kind |-> "garbled", id |-> NoId]

Holding == {"writing", "reading"}
Active  == {"waiting"} \cup Holding
Ended   == {"result", "error", "broken", "gone"}

Init ==
  /\ phase = "connecting"
  /\ nextId = 1
  /\ pc = [c \in Calls |-> "idle"]
  /\ id = [c \in Calls |-> NoId]
  /\ holder = Nobody
  /\ torn = FALSE
  /\ stdin = <<>>
  /\ asked = {}
  /\ stdout = <<>>
  /\ unasked = 0
  /\ server = "up"
  /\ answer = [c \in Calls |-> Garbled]
  /\ spoiled = FALSE

-----------------------------------------------------------------------------
(* The client *)

\* request: take an id, then wait for the lock.
Begin(c) ==
  /\ pc[c] = "idle"
  /\ phase = IF c = Handshake THEN "connecting" ELSE "ready"
  /\ id' = [id EXCEPT ![c] = nextId]
  /\ nextId' = nextId + 1
  /\ pc' = [pc EXCEPT ![c] = "waiting"]
  /\ UNCHANGED <<phase, holder, answer, spoiled, torn, stdin, stdout, serverVars>>

Lock(c) ==
  /\ pc[c] = "waiting"
  /\ holder = Nobody
  /\ holder' = c
  /\ pc' = [pc EXCEPT ![c] = "writing"]
  /\ UNCHANGED <<phase, nextId, id, answer, spoiled, torn, stdin, stdout, serverVars>>

\* write_message: the line reaches the server whole, unless it continues one that
\* a dropped call has left unfinished.
Write(c) ==
  /\ pc[c] = "writing"
  /\ server = "up"
  /\ stdin' = Append(stdin, IF torn THEN NoId ELSE id[c])
  /\ torn' = FALSE
  /\ pc' = [pc EXCEPT ![c] = "reading"]
  /\ UNCHANGED <<phase, nextId, id, holder, answer, spoiled, stdout, serverVars>>

\* The server is gone: the write fails, or the read finds the end of the stream.
Broken(c) ==
  /\ server = "down"
  /\ pc[c] = "writing" \/ (pc[c] = "reading" /\ stdout = <<>>)
  /\ pc' = [pc EXCEPT ![c] = "broken"]
  /\ holder' = Nobody
  /\ phase' = IF c = Handshake THEN "failed" ELSE phase
  /\ UNCHANGED <<nextId, id, answer, spoiled, torn, stdin, stdout, serverVars>>

\* Altered: the next JSON-RPC response is ours, whatever its id.
TakesNext(c) == stdout # <<>> /\ Head(stdout).kind \in {"result", "error"}

\* read_response_stdio: a line with our id is our response.
Takes(c) == stdout # <<>> /\ Head(stdout).id = id[c]

\* read_response_stdio: other lines are skipped.
Skip(c) ==
  /\ pc[c] = "reading"
  /\ stdout # <<>> /\ ~Takes(c)
  /\ stdout' = Tail(stdout)
  /\ UNCHANGED <<clientVars, torn, stdin, serverVars>>

\* read_line: a line that is not UTF-8, or no longer after a dropped call has read
\* into it, ends the call with an error.
Unreadable(c) ==
  /\ pc[c] = "reading"
  /\ stdout # <<>> /\ Head(stdout).kind = "garbled"
  /\ stdout' = Tail(stdout)
  /\ pc' = [pc EXCEPT ![c] = "broken"]
  /\ holder' = Nobody
  /\ phase' = IF c = Handshake THEN "failed" ELSE phase
  /\ UNCHANGED <<nextId, id, answer, spoiled, torn, stdin, serverVars>>

\* What a line amounts to: without an "error" member it is a result.
Result(line) == IF line.kind = "error" THEN "error" ELSE "result"

\* Altered: a response that is an error leaves the lock taken.
ReadHolding(c) ==
  /\ pc[c] = "reading"
  /\ Takes(c)
  /\ stdout' = Tail(stdout)
  /\ answer' = [answer EXCEPT ![c] = Head(stdout)]
  /\ pc' = [pc EXCEPT ![c] = Result(Head(stdout))]
  /\ holder' = IF Head(stdout).kind = "error" THEN holder ELSE Nobody
  /\ phase' = IF c # Handshake THEN phase
              ELSE IF Result(Head(stdout)) = "result" THEN "notifying" ELSE "failed"
  /\ UNCHANGED <<nextId, id, spoiled, torn, stdin, serverVars>>

\* The response ends the call.  The handshake's has connect go on, or fail.
Read(c) ==
  /\ pc[c] = "reading"
  /\ Takes(c)
  /\ stdout' = Tail(stdout)
  /\ answer' = [answer EXCEPT ![c] = Head(stdout)]
  /\ pc' = [pc EXCEPT ![c] = Result(Head(stdout))]
  /\ holder' = Nobody
  /\ phase' = IF c # Handshake THEN phase
              ELSE IF Result(Head(stdout)) = "result" THEN "notifying" ELSE "failed"
  /\ UNCHANGED <<nextId, id, spoiled, torn, stdin, serverVars>>

\* notify: connect says it is initialized, and hands the client out.
Notify ==
  /\ phase = "notifying"
  /\ \/ /\ server = "up"
        /\ stdin' = Append(stdin, NoId)
        /\ phase' = "ready"
     \/ /\ server = "down"
        /\ stdin' = stdin
        /\ phase' = "failed"
  /\ UNCHANGED <<nextId, pc, id, holder, answer, spoiled, torn, stdout, serverVars>>

\* Altered: the lock outlives the dropped call.
LeaveHolding(c) ==
  /\ pc[c] \in Active
  /\ c # Handshake
  /\ pc' = [pc EXCEPT ![c] = "gone"]
  /\ UNCHANGED <<phase, nextId, id, holder, answer, torn, spoiled, stdin, stdout, serverVars>>

\* A call is dropped at an await: in the middle of its line, or of the one it
\* reads, whose rest the next reader finds.
Leave(c) ==
  /\ pc[c] \in Active
  /\ c # Handshake
  /\ pc' = [pc EXCEPT ![c] = "gone"]
  /\ holder' = IF holder = c THEN Nobody ELSE holder
  /\ \/ UNCHANGED <<torn, spoiled, stdout>>
     \/ /\ pc[c] = "writing" /\ torn' = TRUE /\ spoiled' = TRUE
        /\ UNCHANGED stdout
     \/ /\ pc[c] = "reading" /\ stdout # <<>>
        /\ stdout' = <<Garbled>> \o Tail(stdout)
        /\ UNCHANGED <<torn, spoiled>>
  /\ UNCHANGED <<phase, nextId, id, answer, stdin, serverVars>>

\* shutdown kills the child, as does dropping a client that failed to connect.
Shutdown ==
  /\ phase \in {"ready", "failed"}
  /\ server' = "down"
  /\ UNCHANGED <<clientVars, torn, stdin, asked, stdout, unasked>>

-----------------------------------------------------------------------------
(* The server *)

\* It takes a line; what is not JSON, or no request, asks for nothing.
Accept ==
  /\ server = "up"
  /\ stdin # <<>>
  /\ stdin' = Tail(stdin)
  /\ asked' = IF Head(stdin) = NoId THEN asked ELSE asked \cup {Head(stdin)}
  /\ UNCHANGED <<clientVars, torn, stdout, unasked, server>>

Answer(i, kind) ==
  /\ server = "up"
  /\ i \in asked
  /\ asked' = asked \ {i}
  /\ stdout' = Append(stdout, [kind |-> kind, id |-> i])
  /\ UNCHANGED <<clientVars, torn, stdin, unasked, server>>

\* A notification, a line that is no message, or a request of the server's own with
\* an id of its own.
Unasked(line) ==
  /\ server = "up"
  /\ unasked < MaxUnasked
  /\ unasked' = unasked + 1
  /\ stdout' = Append(stdout, line)
  /\ UNCHANGED <<clientVars, torn, stdin, asked, server>>

Die ==
  /\ server = "up"
  /\ server' = "down"
  /\ UNCHANGED <<clientVars, torn, stdin, asked, stdout, unasked>>

Proceed(c) ==
  Begin(c) \/ Lock(c) \/ Write(c) \/ Broken(c) \/ Skip(c) \/ Unreadable(c) \/ Read(c)

ServerTurn == Accept \/ \E i \in asked, kind \in {"result", "error"} : Answer(i, kind)

Next ==
  \/ \E c \in Calls : Proceed(c) \/ Leave(c)
  \/ Notify
  \/ Shutdown
  \/ ServerTurn
  \/ \E kind \in {"notification", "garbled"} : Unasked([kind |-> kind, id |-> NoId])
  \/ \E i \in ServerIds : Unasked([kind |-> "request", id |-> i])
  \/ Die

Spec == Init /\ [][Next]_vars

\* The runtime polls what is ready; a server that is up reads its input and
\* answers each request it has understood.
FairSpec ==
  /\ Spec
  /\ \A c \in Calls : WF_vars(Lock(c)) /\ WF_vars(Proceed(c))
  /\ WF_vars(Notify)
  /\ WF_vars(Accept)
  /\ \A i \in 1..Cardinality(Calls) :
       WF_vars(\E kind \in {"result", "error"} : Answer(i, kind))

-----------------------------------------------------------------------------
(* Properties *)

\* Every variable has its type.
TypeOK ==
  /\ phase \in {"connecting", "notifying", "ready", "failed"}
  /\ nextId \in Nat \ {NoId}
  /\ pc \in [Calls -> {"idle"} \cup Active \cup Ended]
  /\ id \in [Calls -> Nat]
  /\ holder \in Calls \cup {Nobody}
  /\ torn \in BOOLEAN
  /\ stdin \in Seq(Nat)
  /\ asked \subseteq Nat
  /\ stdout \in Seq([kind : Kinds, id : Nat])
  /\ unasked \in 0..MaxUnasked
  /\ server \in {"up", "down"}
  /\ answer \in [Calls -> [kind : Kinds, id : Nat]]
  /\ spoiled \in BOOLEAN

\* The lock: whoever is between writing and reading is alone there.
OneAtATime == \A c \in Calls : pc[c] \in Holding <=> holder = c

\* A call ends with the server's answer to its own request, never with one to
\* another call, with the remains of one that was dropped, or with a message the
\* server sent unasked ("skipping notifications and unrelated messages").
OwnAnswer ==
  \A c \in Calls : pc[c] \in {"result", "error"} =>
    /\ answer[c].kind = pc[c]
    /\ \A d \in Calls : answer[c].id = id[d] => d = c

\* As long as no call is dropped inside the line it writes, every call ends: no
\* answer is skipped, eaten by a call that was dropped, or waited for in vain.
CallsEnd ==
  ([]~spoiled) => \A c \in Calls : pc[c] \in Active ~> pc[c] \in Ended

\* When the server dies or is shut down every call ends, whatever came before.
DeathFreesCallers ==
  \A c \in Calls : server = "down" /\ pc[c] \in Active ~> pc[c] \in Ended
=============================================================================
