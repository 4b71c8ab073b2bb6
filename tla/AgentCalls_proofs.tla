------------------------- MODULE AgentCalls_proofs -------------------------
(***************************************************************************)
(* What execute_skill answers is true, for every set of calls, skills,     *)
(* labels and policies and any number of workers; and what is proved of    *)
(* the calls on peers (Delegation_proofs) holds of an agent that is asked  *)
(* for the one and for the other.                                          *)
(***************************************************************************)
EXTENDS AgentCalls, Delegation_proofs

SkillInv == SkillTypeOK /\ AnswersAreTrue

LEMMA SkillInvInit == SkillInit => SkillInv
<1> SUFFICES ASSUME SkillInit
             PROVE  SkillInv
  OBVIOUS
<1>1. SkillTypeOK
  BY DEF SkillInit, SkillTypeOK
<1>2. AnswersAreTrue
  BY DEF SkillInit, AnswersAreTrue, Outcomes
<1> QED BY <1>1, <1>2 DEF SkillInv

LEMMA SkillInvStep == SkillInv /\ [SkillNext]_skillVars => SkillInv'
<1> SUFFICES ASSUME SkillInv, [SkillNext]_skillVars
             PROVE  SkillInv'
  OBVIOUS
<1> USE DEF SkillInv, SkillTypeOK, AnswersAreTrue, Outcomes, Answers
<1>1. ASSUME NEW i \in Invocations, NEW n \in SkillNames, Refuse(i, n)
      PROVE  SkillInv'
  BY <1>1 DEF Refuse
<1>2. ASSUME NEW i \in Invocations, NEW n \in SkillNames, Spawn(i, n)
      PROVE  SkillInv'
  BY <1>2 DEF Spawn, Permitted
<1>3. ASSUME NEW i \in Invocations, Start(i)
      PROVE  SkillInv'
  BY <1>3 DEF Start
<1>4. ASSUME NEW i \in Invocations, NEW outcome \in Outcomes, Finish(i, outcome)
      PROVE  SkillInv'
  BY <1>4 DEF Finish
<1>5. ASSUME NEW i \in Invocations, Cancel(i)
      PROVE  SkillInv'
  BY <1>5 DEF Cancel
<1>6. ASSUME NEW i \in Invocations, TimePasses(i)
      PROVE  SkillInv'
  BY <1>6 DEF TimePasses
<1>7. ASSUME NEW i \in Invocations, Return(i)
      PROVE  SkillInv'
  BY <1>7 DEF Return
<1>8. ASSUME NEW i \in Invocations, Look(i)
      PROVE  SkillInv'
  BY <1>8 DEF Look
<1>9. ASSUME NEW i \in Invocations, TimeOut(i)
      PROVE  SkillInv'
  BY <1>9 DEF TimeOut
<1>10. ASSUME NEW i \in Invocations, Wait(i)
       PROVE  SkillInv'
  BY <1>10 DEF Wait
<1>11. ASSUME NEW i \in Invocations, Abandon(i)
       PROVE  SkillInv'
  BY <1>11 DEF Abandon
<1>12. CASE UNCHANGED skillVars
  BY <1>12 DEF skillVars
<1> QED
  BY <1>1, <1>2, <1>3, <1>4, <1>5, <1>6, <1>7, <1>8, <1>9, <1>10, <1>11, <1>12
  DEF SkillNext, Act, Poll

\* An agent's calls are calls on its own skills, or calls on its peers.
LEMMA CallsAre == CallsSpec => SkillSpec /\ Spec
<1>1. CallsInit => SkillInit /\ Init
  BY DEF CallsInit
<1>2. [CallsNext]_callVars => [SkillNext]_skillVars
  BY DEF CallsNext, Executing, Delegating, callVars
<1>3. [CallsNext]_callVars => [Next]_vars
  BY DEF CallsNext, Executing, Delegating, callVars
<1> QED BY <1>1, <1>2, <1>3, PTL DEF CallsSpec, SkillSpec, Spec

\* What a caller of execute_skill is told is what happened to the skill, and no
\* skill runs that the policy forbids.
THEOREM SkillAnswersAreTrue == CallsSpec => []AnswersAreTrue
<1>1. SkillInv => AnswersAreTrue
  BY DEF SkillInv
<1> QED BY <1>1, SkillInvInit, SkillInvStep, CallsAre, PTL DEF SkillSpec

\* No payload reaches a pinned peer before it has proved its identity, for any
\* number of overlapping, failing and dropped calls (delegate_chat, delegate_skill).
THEOREM PayloadAfterProof == CallsSpec => []NoPayloadBeforeProof
BY PeersGetPayloadAfterProof, CallsAre, PTL

\* One verification at a time for each peer, none after it has succeeded
\* (RemoteAgent::ensure_trusted).
THEOREM VerifiesOnce == CallsSpec => []OneVerification
BY PeersAreVerifiedOnce, CallsAre, PTL
=============================================================================
