------------------------------- MODULE Server -------------------------------
(***************************************************************************)
(* One client of a server: its request passes the door (Gateway), and if   *)
(* it is for a chat its connection is then served (ReplyStream), while the *)
(* issuer goes on replacing its keys and the server fetching them.         *)
(***************************************************************************)
EXTENDS Gateway, ReplyStream

ASSUME ServerAssumption == WellFormed

serverVars == <<vars, streamVars>>

\* What the routes of a request lead to: a WebSocket, or one message.
Routed ==
  /\ front = IF request.call = "ws" THEN "ws" ELSE "call"
  /\ front = "call" => inbox = IF request.call = "chat_stream" THEN <<"stream">> ELSE <<"once">>

ServerInit == Init /\ StreamInit /\ Routed

Serving == door = "open" /\ request.call \in Chats

AtTheDoor == (KeyStep \/ DoorStep) /\ UNCHANGED streamVars
Connected == Serving /\ StreamNext /\ UNCHANGED vars

ServerNext == AtTheDoor \/ Connected

ServerSpec == ServerInit /\ [][ServerNext]_serverVars

\* The handlers go on as long as they are polled.
FairServerSpec ==
  ServerSpec /\ WF_serverVars(Serving /\ Respond /\ UNCHANGED vars)
=============================================================================
