----------------------------- MODULE AgentCalls -----------------------------
(***************************************************************************)
(* What callers ask of an Agent (src/agent/runtime.rs) besides a chat: to  *)
(* execute one of its own skills (SkillExecution), or to delegate to a     *)
(* peer (Delegation).  The two share no state of the agent; the calls      *)
(* followed are of the one kind or of the other.                           *)
(***************************************************************************)
EXTENDS SkillExecution, Delegation

VARIABLE asked

callVars == <<asked, skillVars, vars>>

CallsInit == asked \in {"execute", "delegate"} /\ SkillInit /\ Init

Executing  == asked = "execute" /\ UNCHANGED <<asked, vars>>
Delegating == asked = "delegate" /\ UNCHANGED <<asked, skillVars>>

CallsNext == (SkillNext /\ Executing) \/ (Next /\ Delegating)

CallsSpec == CallsInit /\ [][CallsNext]_callVars

\* The fairness is that of FairSkillSpec and of Delegation's FairSpec.
FairCallsSpec ==
  /\ CallsSpec
  /\ \A i \in Invocations :
       /\ WF_callVars((Start(i) \/ Cancel(i)) /\ Executing)
       /\ WF_callVars(TimePasses(i) /\ Executing)
       /\ WF_callVars(~Saturated /\ Poll(i) /\ Executing)
  /\ \A c \in Calls : WF_callVars(Proceed(c) /\ Delegating)
=============================================================================
