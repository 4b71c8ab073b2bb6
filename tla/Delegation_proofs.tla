------------------------- MODULE Delegation_proofs -------------------------
(***************************************************************************)
(* Identity before payload: for every set of calls, peers and keys, a peer *)
(* with a pinned key gets a payload only after it has proved that key.     *)
(***************************************************************************)
EXTENDS Delegation, TLAPS

\* A call past its verification has a peer that needs none or has proved itself.
Cleared ==
  \A c \in Calls :
    /\ pc[c] \in Running => target[c] \in Handles
    /\ pc[c] \in {"posting", "awaiting"} =>
         Pinned[target[c]] = NoKey \/ target[c] \in trusted

DelegationInv ==
  /\ TypeOK
  /\ trusted \subseteq proved
  /\ Cleared
  /\ NoPayloadBeforeProof
  /\ OneVerification
  /\ RefusedSentNothing

LEMMA DelegationInit == Init => DelegationInv
BY DEF Init, DelegationInv, TypeOK, Cleared, NoPayloadBeforeProof, OneVerification,
       RefusedSentNothing, Running

LEMMA DelegationStep == DelegationInv /\ [Next]_vars => DelegationInv'
<1> SUFFICES ASSUME DelegationInv, [Next]_vars
             PROVE  DelegationInv'
  OBVIOUS
<1> USE DelegationAssumption
    DEF DelegationInv, TypeOK, Cleared, NoPayloadBeforeProof, OneVerification,
        RefusedSentNothing, Running, Ended, registryVars, historyVars
<1>1. ASSUME NEW n \in Names, NEW h \in Handles, AddPeer(n, h)
      PROVE  DelegationInv'
  BY <1>1 DEF AddPeer
<1>3. ASSUME NEW c \in Calls, NEW n \in Names, Unregistered(c, n)
      PROVE  DelegationInv'
  BY <1>3 DEF Unregistered
<1>4. ASSUME NEW c \in Calls, NEW n \in Names, Begin(c, n)
      PROVE  DelegationInv'
  BY <1>4 DEF Begin
<1>5. ASSUME NEW c \in Calls, Acquire(c)
      PROVE  DelegationInv'
  BY <1>5 DEF Acquire
<1>6. ASSUME NEW c \in Calls, Adopt(c)
      PROVE  DelegationInv'
  BY <1>6 DEF Adopt
<1>7. ASSUME NEW c \in Calls, NEW m \in Manifest, Verified(c, m)
      PROVE  DelegationInv'
  <2>1. target[c] \in Handles
    BY <1>7 DEF Verified
  <2>2. Proof(target[c], m)
    BY <1>7, <2>1 DEF Verified, Accepts, SelfVerifies, Proof, Manifest
  <2>3. trusted' = trusted \cup {target[c]} /\ proved' = proved \cup {target[c]}
    BY <1>7, <2>2 DEF Verified
  <2> QED BY <1>7, <2>1, <2>3 DEF Verified
<1>8. ASSUME NEW c \in Calls, NEW result \in {"refused", "failed"}, NotVerified(c, result)
      PROVE  DelegationInv'
  BY <1>8 DEF NotVerified
<1>9. ASSUME NEW c \in Calls, Deliver(c)
      PROVE  DelegationInv'
  BY <1>9 DEF Deliver
<1>10. ASSUME NEW c \in Calls, NEW result \in {"answered", "failed"}, Respond(c, result)
       PROVE  DelegationInv'
  BY <1>10 DEF Respond
<1>11. ASSUME NEW c \in Calls, Leave(c)
       PROVE  DelegationInv'
  BY <1>11 DEF Leave
<1>12. CASE UNCHANGED vars
  BY <1>12 DEF vars
<1> QED
  BY <1>1, <1>3, <1>4, <1>5, <1>6, <1>7, <1>8, <1>9, <1>10, <1>11, <1>12
  DEF Next, Proceed

LEMMA DelegationInvariant == Spec => []DelegationInv
BY DelegationInit, DelegationStep, PTL DEF Spec

\* No payload reaches a pinned peer before it has proved its identity, for any
\* number of overlapping, failing and dropped calls.
THEOREM PeersGetPayloadAfterProof == Spec => []NoPayloadBeforeProof
<1>1. DelegationInv => NoPayloadBeforeProof
  BY DEF DelegationInv
<1> QED BY <1>1, DelegationInvariant, PTL

\* One verification at a time for each peer, none after it has succeeded.
THEOREM PeersAreVerifiedOnce == Spec => []OneVerification
<1>1. DelegationInv => OneVerification
  BY DEF DelegationInv
<1> QED BY <1>1, DelegationInvariant, PTL
=============================================================================
