-------------------------- MODULE ConversationLog --------------------------
(***************************************************************************)
(* What an agent promises of its sessions: a session is extended only at   *)
(* its end and only by the one whole turn of a request, which succeeds in  *)
(* that very step; a request that fails leaves nothing; a session may be   *)
(* emptied at any time.                                                    *)
(***************************************************************************)
EXTENDS Turns

CONSTANTS Sessions

VARIABLES
  log,    \* the messages of each session
  status  \* how each request ended: "open" until it does

logVars == <<log, status>>

LogInit ==
  /\ log = [s \in Sessions |-> <<>>]
  /\ status = [r \in Requests |-> "open"]

Record(r, s) ==
  LET turn == SubSeq(log'[s], Len(log[s]) + 1, Len(log'[s]))
  IN  /\ status[r] = "open"
      /\ status' = [status EXCEPT ![r] = "ok"]
      /\ log' = [log EXCEPT ![s] = @ \o turn]
      /\ IsTurn(turn, r)

GiveUp(r) ==
  /\ status[r] = "open"
  /\ status' = [status EXCEPT ![r] = "failed"]
  /\ UNCHANGED log

Forget(s) ==
  /\ log' = [log EXCEPT ![s] = <<>>]
  /\ UNCHANGED status

LogNext ==
  \/ \E r \in Requests, s \in Sessions : Record(r, s)
  \/ \E r \in Requests : GiveUp(r)
  \/ \E s \in Sessions : Forget(s)

LogSpec == LogInit /\ [][LogNext]_logVars
=============================================================================
