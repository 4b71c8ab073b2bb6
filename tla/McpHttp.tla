------------------------------ MODULE McpHttp ------------------------------
(***************************************************************************)
(* The MCP servers an agent's manifest declares: connect_mcp_servers       *)
(* (src/agent/runtime.rs) connects them one after the other, and calls go  *)
(* to those that are connected.  This module follows the connections over  *)
(* HTTP (src/mcp/client.rs, Transport::Http), where every message is a     *)
(* POST of its own and the client echoes the session id that came last;    *)
(* those over stdio are in McpStdio and only succeed or fail here.         *)
(*                                                                         *)
(* A server has one session at a time for the agent, numbered, and replaces*)
(* it when it likes; it refuses what carries another.                      *)
(***************************************************************************)
EXTENDS Naturals, Sequences

CONSTANTS
  Declared,     \* the manifest's mcp_servers: [name, url, command], the last two BOOLEAN
  HttpCalls,    \* calls of tools, resources and prompts
  MaxSessions   \* bound on the sessions of a server

ASSUME HttpAssumption ==
  /\ Declared \in Seq([name : STRING, url : BOOLEAN, command : BOOLEAN])
  /\ "connect" \notin HttpCalls
  /\ MaxSessions \in Nat

VARIABLES
  next,      \* how many declared servers are connected
  stage,     \* connect_mcp_servers: "idle", "initializing", "notifying", "failed"
  clients,   \* Agent.mcp_clients: name -> the declared server, or 0
  session,   \* each client's session_id; 0 is None
  nextIds,   \* each client's next_id
  post,      \* each call's POST; connect_mcp_servers' own is post["connect"]
  serving,   \* each server's session
  arrivals,  \* history variable: how many responses each client has had
  latest,    \* history variable: the newest session each was ever told of
  raced      \* history variable: did a client have one between another's request
             \* and response?

httpVars == <<next, stage, clients, session, nextIds, post, serving, arrivals, latest, raced>>
connectVars == <<next, stage, clients>>
historyVars == <<arrivals, latest, raced>>

Servers == 1..Len(Declared)
Names   == {Declared[i].name : i \in Servers}
Posters == HttpCalls \cup {"connect"}

Idle == [pc |-> "idle", to |-> 0, carried |-> 0, seen |-> 0, reply |-> 0, body |-> ""]

HttpInit ==
  /\ next = 0 /\ stage = "idle"
  /\ clients = [n \in Names |-> 0]
  /\ session = [i \in Servers |-> 0]
  /\ nextIds = [i \in Servers |-> 1]
  /\ post = [p \in Posters |-> Idle]
  /\ serving = [i \in Servers |-> 1]
  /\ arrivals = [i \in Servers |-> 0]
  /\ latest = [i \in Servers |-> 0]
  /\ raced = [i \in Servers |-> FALSE]

-----------------------------------------------------------------------------
(* http_post *)

\* A POST carries the session id as it is now; a request takes the next id.
Send(p, i, isRequest) ==
  /\ post' = [post EXCEPT ![p] =
       [Idle EXCEPT !.pc = "sent", !.to = i, !.carried = session[i], !.seen = arrivals[i]]]
  /\ nextIds' = [nextIds EXCEPT ![i] = @ + (IF isRequest THEN 1 ELSE 0)]

Initializing(p) == p = "connect" /\ stage = "initializing"

\* The server answers, and may name its session.  What does not carry it is
\* refused, unless it is to begin one; an event stream may lack the response, and
\* the result may be a fault: an error of the tool, or without the list asked for.
Serve(p) ==
  LET i == post[p].to
  IN  /\ post[p].pc = "sent"
      /\ \E named \in {0, serving[i]}, body \in {"json", "fault", "events", "other events", "status"} :
           /\ body # "status" => Initializing(p) \/ post[p].carried = serving[i]
           /\ post' = [post EXCEPT ![p].pc = "served", ![p].reply = named, ![p].body = body]
      /\ UNCHANGED <<connectVars, session, nextIds, serving, historyVars>>

\* Altered: an id is taken only if there is none.
KeepFirst(i, named) == IF named = 0 \/ session[i] # 0 THEN session[i] ELSE named

\* Any response may replace the session id, that of an error too.
Adopt(i, named) == IF named = 0 THEN session[i] ELSE named

\* What a response comes to: a status or an event stream without our id is an
\* error, plain JSON is taken as it is, and a notification needs no body.
Succeeds(p) ==
  \/ post[p].body \in {"json", "events", "fault"}
  \/ post[p].body = "other events" /\ p = "connect" /\ stage = "notifying"

Receive(p) ==
  LET i == post[p].to
  IN  /\ session' = [session EXCEPT ![i] = Adopt(i, post[p].reply)]
      /\ arrivals' = [arrivals EXCEPT ![i] = @ + 1]
      /\ latest' = [latest EXCEPT ![i] = IF post[p].reply > @ THEN post[p].reply ELSE @]
      /\ raced' = [raced EXCEPT ![i] = @ \/ post[p].seen # arrivals[i]]

-----------------------------------------------------------------------------
(* connect_mcp_servers *)

Connecting == Declared[next + 1]

\* A url wins over a command; with neither there is nothing to connect to.
Connect ==
  /\ stage = "idle" /\ next < Len(Declared)
  /\ \/ /\ Connecting.url
        /\ stage' = "initializing"
        /\ Send("connect", next + 1, TRUE)
        /\ UNCHANGED <<next, clients>>
     \/ /\ ~Connecting.url /\ Connecting.command
        /\ stage' = "idle" /\ next' = next + 1
        /\ clients' = [clients EXCEPT ![Connecting.name] = next + 1]
        /\ UNCHANGED <<nextIds, post>>
     \/ /\ ~Connecting.url
        /\ stage' = "failed"
        /\ UNCHANGED <<next, clients, nextIds, post>>
  /\ UNCHANGED <<session, serving, historyVars>>

\* Altered: a server whose handshake fails is passed over.
HandshakeFailsOn ==
  /\ stage \in {"initializing", "notifying"}
  /\ stage' = "idle" /\ next' = next + 1
  /\ post' = [post EXCEPT !["connect"] = Idle]
  /\ UNCHANGED <<clients, nextIds, serving, session, historyVars>>

\* A handshake that fails is the end of connect_mcp_servers: what is connected
\* stays, what is left is not tried.
HandshakeFails ==
  /\ stage \in {"initializing", "notifying"}
  /\ \/ post["connect"].pc = "served" /\ ~Succeeds("connect") /\ Receive("connect")
     \/ UNCHANGED <<session, historyVars>>
  /\ stage' = "failed"
  /\ post' = [post EXCEPT !["connect"] = Idle]
  /\ UNCHANGED <<next, clients, nextIds, serving>>

\* The response to initialize: the server is told that the client is initialized.
Initialized ==
  /\ stage = "initializing"
  /\ post["connect"].pc = "served" /\ Succeeds("connect")
  /\ Receive("connect")
  /\ stage' = "notifying"
  /\ post' = [post EXCEPT !["connect"] =
       [Idle EXCEPT !.pc = "sent", !.to = next + 1, !.carried = session'[next + 1],
                    !.seen = arrivals'[next + 1]]]
  /\ UNCHANGED <<next, clients, nextIds, serving>>

\* The response to that: the client is registered, in place of one of its name.
Register ==
  /\ stage = "notifying"
  /\ post["connect"].pc = "served" /\ Succeeds("connect")
  /\ Receive("connect")
  /\ clients' = [clients EXCEPT ![Connecting.name] = next + 1]
  /\ next' = next + 1 /\ stage' = "idle"
  /\ post' = [post EXCEPT !["connect"] = Idle]
  /\ UNCHANGED <<nextIds, serving>>

-----------------------------------------------------------------------------
(* HttpCalls *)

\* list_tools, call_tool, ...: by a name that is connected, or not at all.
Call(c, n) ==
  /\ post[c].pc = "idle"
  /\ IF clients[n] # 0 /\ Declared[clients[n]].url
     THEN Send(c, clients[n], TRUE)
     ELSE post' = [post EXCEPT ![c].pc = "ended"] /\ UNCHANGED nextIds
  /\ UNCHANGED <<connectVars, session, serving, historyVars>>

\* list_tools, call_tool, list_resources, ...: a result that is a fault is an error.
Proper(c) == Succeeds(c) /\ post[c].body # "fault"

Return(c) ==
  /\ post[c].pc = "served"
  /\ Receive(c)
  /\ post' = [post EXCEPT ![c] = [Idle EXCEPT !.pc = IF Proper(c) THEN "answered" ELSE "ended"]]
  /\ UNCHANGED <<connectVars, nextIds, serving>>

\* No response came, or nobody waits for it any more.
Lost(c) ==
  /\ post[c].pc \in {"sent", "served"}
  /\ post' = [post EXCEPT ![c] = [Idle EXCEPT !.pc = "ended"]]
  /\ UNCHANGED <<connectVars, session, nextIds, serving, historyVars>>

\* A server begins another session.
Renew(i) ==
  /\ serving[i] < MaxSessions
  /\ serving' = [serving EXCEPT ![i] = @ + 1]
  /\ UNCHANGED <<connectVars, session, nextIds, post, historyVars>>

\* shutdown: the server is asked to end the session, if the client has one; what it
\* answers is not looked at, and the client keeps its id.
EndSession(n) ==
  /\ clients[n] # 0 /\ session[clients[n]] # 0
  /\ session[clients[n]] = serving[clients[n]] /\ Renew(clients[n])

HttpNext ==
  \/ Connect \/ HandshakeFails \/ Initialized \/ Register
  \/ \E p \in Posters : Serve(p)
  \/ \E c \in HttpCalls : (\E n \in Names : Call(c, n)) \/ Return(c) \/ Lost(c)
  \/ \E i \in Servers : Renew(i)
  \/ \E n \in Names : EndSession(n)

-----------------------------------------------------------------------------
(* Properties *)

\* A client carries no id but one that its server gave it, and, as long as none of
\* its responses came between the request and the response of another, the newest it
\* was told of (http_post).  When POSTs overlap an older id may come back.
SessionFollows ==
  \A i \in Servers :
    /\ session[i] <= serving[i]
    /\ ~raced[i] => session[i] = latest[i]

\* The clients that calls can reach are those of the first servers declared, the
\* last of each name, each with its handshake behind it; no server beyond the one
\* at which connect_mcp_servers is or failed has been asked anything.
ConnectedInOrder ==
  /\ \A n \in Names :
       LET connected == {i \in 1..next : Declared[i].name = n}
       IN  IF connected = {} THEN clients[n] = 0
           ELSE clients[n] \in connected /\ \A i \in connected : i <= clients[n]
  /\ \A i \in 1..next : Declared[i].url => arrivals[i] >= 2
  /\ \A i \in Servers : i > next + 1 => nextIds[i] = 1
  /\ \A c \in HttpCalls : post[c].to <= next
=============================================================================
