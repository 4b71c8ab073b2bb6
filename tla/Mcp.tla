-------------------------------- MODULE Mcp --------------------------------
(***************************************************************************)
(* McpClient (src/mcp/client.rs): a connection has the one transport or    *)
(* the other, its Transport::Stdio (McpStdio) or Transport::Http (McpHttp).*)
(***************************************************************************)
EXTENDS McpStdio, McpHttp

VARIABLE transport

allVars == <<transport, vars, httpVars>>

McpInit == transport \in {"stdio", "http"} /\ Init /\ HttpInit

Stdio == transport = "stdio" /\ UNCHANGED <<transport, httpVars>>
Http  == transport = "http" /\ UNCHANGED <<transport, vars>>

McpNext == (Next /\ Stdio) \/ (HttpNext /\ Http)

\* The fairness is that of FairSpec.
McpSpec ==
  /\ McpInit /\ [][McpNext]_allVars
  /\ \A c \in Calls : WF_allVars(Lock(c) /\ Stdio) /\ WF_allVars(Proceed(c) /\ Stdio)
  /\ WF_allVars(Notify /\ Stdio)
  /\ WF_allVars(Accept /\ Stdio)
  /\ \A i \in 1..Cardinality(Calls) :
       WF_allVars(\E kind \in {"result", "error"} : Answer(i, kind) /\ Stdio)
=============================================================================
