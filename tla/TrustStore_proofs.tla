-------------------------- MODULE TrustStore_proofs --------------------------
(***************************************************************************)
(* verify_manifest accepts only what it is documented to accept, and keeps *)
(* accepting an agent that rotates its key, for every set of keys and any  *)
(* number of rotations and revocations.                                    *)
(***************************************************************************)
EXTENDS TrustStore, NaturalsInduction, WellFoundedInduction, FiniteSetTheorems, TLAPS

\* What is kept of the rotations recorded after `since'.
Unbroken ==
  \A i \in 1..Len(history) :
    i > since =>
      /\ history[i].valid
      /\ history[i].new_key = IF i = Len(history) THEN key
                              ELSE history[i + 1].previous_key

\* The store remembers a revocation of every key it has learned one of, and only
\* revocations it has learned.
Remembers ==
  /\ \A s \in learned : s.public_key \in DOMAIN revocations
  /\ \A k \in DOMAIN revocations :
       [public_key |-> k, revoked_at |-> revocations[k]] \in learned

TrustInv == TypeOK /\ Unbroken /\ Remembers

LEMMA TrustInit == Init => TrustInv
<1> SUFFICES ASSUME Init
             PROVE  TrustInv
  OBVIOUS
<1> USE TrustAssumption
<1>1. TypeOK
  BY DEF Init, TypeOK, RotationProof, Statement
<1>2. Unbroken
  BY DEF Init, Unbroken
<1>3. Remembers
  BY DEF Init, Remembers
<1> QED BY <1>1, <1>2, <1>3 DEF TrustInv

\* One step of the agent or of the consumer.
LEMMA TrustStep == TrustInv /\ [Next]_vars => TrustInv'
<1> SUFFICES ASSUME TrustInv, [Next]_vars
             PROVE  TrustInv'
  OBVIOUS
<1> USE TrustAssumption DEF TrustInv, TypeOK, manifestVars, storeVars
<1>1. ASSUME NEW k \in Keys, Rotate(k)
      PROVE  TrustInv'
  <2> DEFINE p == [previous_key |-> key, new_key |-> k, rotated_at |-> now, valid |-> TRUE]
  <2>1. p \in RotationProof
    BY DEF RotationProof
  <2>2. history' = Append(history, p)
    BY <1>1 DEF Rotate, Endorsement
  <2>3. /\ history' \in Seq(RotationProof)
        /\ Len(history') = Len(history) + 1
        /\ \A i \in 1..Len(history) : history'[i] = history[i]
        /\ history'[Len(history) + 1] = p
    BY <2>1, <2>2
  <2>4. TypeOK'
    BY <1>1, <2>3 DEF Rotate, Endorsement
  <2>5. Unbroken'
    BY <1>1, <2>3 DEF Rotate, Endorsement, Unbroken
  <2>6. Remembers'
    BY <1>1 DEF Rotate, Remembers
  <2> QED BY <2>4, <2>5, <2>6
<1>2. ASSUME NEW k \in Keys, Sign(k)
      PROVE  TrustInv'
  BY <1>2 DEF Sign, Unbroken, Remembers
<1>3. ASSUME NEW k \in Keys, Revoke(k)
      PROVE  TrustInv'
  BY <1>3 DEF Revoke, Statement, Unbroken, Remembers
<1>4. ASSUME NEW k \in Keys, Trust(k)
      PROVE  TrustInv'
  BY <1>4 DEF Trust, Unbroken, Remembers
<1>5. CASE Edit
  BY <1>5 DEF Edit, Unbroken, Remembers
<1>6. ASSUME NEW i \in 1..Len(history), Damage(i)
      PROVE  TrustInv'
  <2>0. history[i] \in RotationProof /\ Len(history) \in Nat /\ since \in 0..Len(history)
    OBVIOUS
  <2>1. [history[i] EXCEPT !.valid = FALSE] \in RotationProof
    BY <2>0 DEF RotationProof
  <2>2. history' = [history EXCEPT ![i] = [history[i] EXCEPT !.valid = FALSE]]
    BY <1>6 DEF Damage
  <2>3. /\ history' \in Seq(RotationProof)
        /\ Len(history') = Len(history)
        /\ \A j \in 1..Len(history) : j # i => history'[j] = history[j]
        /\ history'[i].previous_key = history[i].previous_key
        /\ history'[i].new_key = history[i].new_key
    BY <2>1, <2>2 DEF RotationProof
  <2>4. TypeOK'
    <3>1. since' \in 0..Len(history')
      BY <1>6, <2>0, <2>3 DEF Damage
    <3> QED BY <1>6, <2>3, <3>1 DEF Damage
  <2>5. Unbroken'
    <3> SUFFICES ASSUME NEW j \in 1..Len(history), j > since'
                 PROVE  /\ history'[j].valid
                        /\ history'[j].new_key = IF j = Len(history) THEN key
                                                 ELSE history'[j + 1].previous_key
      BY <1>6, <2>3 DEF Damage, Unbroken
    <3>1. j > since /\ j > i
      BY <1>6 DEF Damage
    <3>2. /\ history[j].valid
          /\ history[j].new_key = IF j = Len(history) THEN key ELSE history[j + 1].previous_key
      BY <3>1 DEF Unbroken
    <3>3. history'[j] = history[j]
      BY <2>3, <3>1
    <3>4. ASSUME j # Len(history)
          PROVE  history'[j + 1] = history[j + 1]
      <4>1. j + 1 \in 1..Len(history) /\ j + 1 # i
        BY <2>0, <3>1, <3>4
      <4> QED BY <2>3, <4>1
    <3> QED BY <3>2, <3>3, <3>4
  <2>6. Remembers'
    BY <1>6 DEF Damage, Remembers
  <2> QED BY <2>4, <2>5, <2>6
<1>7. CASE Tick
  BY <1>7 DEF Tick, Unbroken, Remembers
<1>8. ASSUME NEW s \in statements, Learn(s)
      PROVE  TrustInv'
  <2>1. s = [public_key |-> s.public_key, revoked_at |-> s.revoked_at] /\ s \in Statement
    BY DEF Statement
  <2>2. TypeOK' /\ Unbroken'
    BY <1>8, <2>1 DEF Learn, Statement, Unbroken
  <2>3. Remembers'
    BY <1>8, <2>1 DEF Learn, Remembers
  <2> QED BY <2>2, <2>3
<1>9. CASE UNCHANGED vars
  BY <1>9 DEF vars, Unbroken, Remembers
<1> QED
  BY <1>1, <1>2, <1>3, <1>4, <1>5, <1>6, <1>7, <1>8, <1>9 DEF Next

LEMMA TrustInvariant == Spec => []TrustInv
BY TrustInit, TrustStep, PTL DEF Spec

\* What the store remembers stands, and bounds whatever else stands.
LEMMA StandingIs ==
  ASSUME TrustInv
  PROVE  /\ \A s \in Standing : /\ s.public_key \in DOMAIN revocations
                               /\ revocations[s.public_key] <= s.revoked_at
                               /\ s.revoked_at \in Nat /\ revocations[s.public_key] \in Nat
         /\ \A k \in DOMAIN revocations :
              [public_key |-> k, revoked_at |-> revocations[k]] \in Standing
<1> USE TrustAssumption DEF TrustInv, TypeOK, Remembers, Standing
<1>1. ASSUME NEW s \in Standing
      PROVE  /\ s.public_key \in DOMAIN revocations
             /\ revocations[s.public_key] <= s.revoked_at
             /\ s.revoked_at \in Nat /\ revocations[s.public_key] \in Nat
  <2>1. s \in Statement /\ s.public_key \in DOMAIN revocations
    OBVIOUS
  <2> QED BY <2>1 DEF Statement
<1>2. ASSUME NEW k \in DOMAIN revocations
      PROVE  [public_key |-> k, revoked_at |-> revocations[k]] \in Standing
  OBVIOUS
<1> QED BY <1>1, <1>2

LEMMA AcceptedNow == TrustInv => VerifySound
<1> SUFFICES ASSUME TrustInv, Verifies
             PROVE  Documented(Standing)
  BY DEF VerifySound
<1>0. \A s \in Standing : key # s.public_key
  BY StandingIs DEF Verifies
<1>1. Len(history) \in Nat
  BY DEF TrustInv, TypeOK
<1>2. CASE key \in trusted
  BY <1>0, <1>2 DEF Verifies, Documented
<1>3. CASE key \notin trusted
  <2>1. PICK start \in Anchors :
          \A i \in start..Len(history) :
            history[i].valid /\ Linked(i) /\ InTime(history[i])
    BY <1>3 DEF Verifies, ChainVerifies
  <2>2. start \in 1..Len(history) /\ history[start].previous_key \in trusted
    BY DEF Anchors
  <2>3. ASSUME NEW j \in start..Len(history), j > start
        PROVE  history[j].previous_key = history[j - 1].new_key
    <3>1. j - 1 \in start..Len(history) /\ j - 1 < Len(history) /\ (j - 1) + 1 = j
      BY <1>1, <2>2, <2>3
    <3>2. Linked(j - 1)
      BY <2>1, <3>1
    <3> QED BY <3>1, <3>2 DEF Linked
  <2>4. ASSUME NEW j \in start..Len(history), NEW s \in Standing,
               history[j].previous_key = s.public_key
        PROVE  history[j].rotated_at < s.revoked_at
    <3>1. history[j] \in RotationProof
      BY <1>1, <2>2 DEF TrustInv, TypeOK
    <3>2. history[j].rotated_at \in Nat
      BY <3>1, TrustAssumption DEF RotationProof
    <3>3. history[j].rotated_at < revocations[s.public_key]
      BY <2>1, <2>4, StandingIs DEF InTime
    <3> QED BY <3>2, <3>3, StandingIs
  <2>5. ChainFrom(start, Standing)
    BY <1>3, <2>1, <2>2, <2>3, <2>4 DEF ChainFrom, Verifies
  <2> QED BY <1>0, <2>2, <2>5 DEF Documented, Verifies
<1> QED BY <1>2, <1>3

\* verify_manifest accepts a manifest only when the three documented conditions
\* hold: intact, not revoked, and trusted directly or through a valid chain, with
\* every revocation ever learned but those that a later-dated one replaced.
THEOREM AcceptedIsSound == Spec => []VerifySound
BY AcceptedNow, TrustInvariant, PTL

\* A consumer who pinned a key keeps trusting the agent through any number of
\* rotations (rotate_identity).
THEOREM PinnedKeysStayTrusted == Spec => []PinnedStaysTrusted
<1>1. TrustInv => PinnedStaysTrusted
  <2> SUFFICES ASSUME TrustInv,
                      intact,
                      DOMAIN revocations = {},
                      NEW a \in 1..Len(history), history[a].previous_key \in trusted,
                      \A i \in 1..Len(history) : history[i].previous_key \in trusted => i > since
               PROVE  Verifies
    BY DEF PinnedStaysTrusted
  <2>1. Len(history) \in Nat /\ since \in Nat
    BY DEF TrustInv, TypeOK
  <2>2. Anchors \subseteq Nat /\ a \in Anchors
    BY <2>1 DEF Anchors
  <2>3. PICK start \in Anchors : \A i \in Anchors : start <= i
    <3>1. PICK n \in Anchors : \A m \in Anchors : <<m, n>> \notin OpToRel(<, Nat)
      BY <2>2, NatLessThanWellFounded, WFMin
    <3>2. \A m \in Anchors : ~(m < n)
      BY <2>2, <3>1 DEF OpToRel
    <3> QED BY <2>2, <3>2
  <2>4. ASSUME NEW i \in start..Len(history)
        PROVE  history[i].valid /\ Linked(i) /\ InTime(history[i])
    <3>1. i \in 1..Len(history) /\ i > since
      BY <2>1, <2>3 DEF Anchors
    <3> QED BY <3>1 DEF TrustInv, Unbroken, Linked, InTime
  <2>5. history # <<>> /\ history[Len(history)].new_key = key
    <3>1. Len(history) \in 1..Len(history) /\ Len(history) > since
      BY <2>1
    <3> QED BY <3>1 DEF TrustInv, Unbroken
  <2> QED BY <2>3, <2>4, <2>5 DEF Verifies, ChainVerifies
<1> QED BY <1>1, TrustInvariant, PTL

-----------------------------------------------------------------------------
(* When the decision is exact, and what a revocation does to it *)

LEMMA AnchorsAre ==
  ASSUME TypeOK
  PROVE  IsFiniteSet(Anchors) /\ Anchors \subseteq Nat /\ Len(history) \in Nat
<1>1. Len(history) \in Nat
  BY DEF TypeOK
<1>2. IsFiniteSet(1..Len(history)) /\ Anchors \subseteq 1..Len(history)
  BY <1>1, FS_Interval DEF Anchors
<1>3. IsFiniteSet(Anchors)
  BY <1>2, FS_Subset
<1>4. Anchors \subseteq Nat
  BY <1>1, <1>2
<1> QED BY <1>1, <1>3, <1>4

\* A set of one element at most.
LEMMA AtMostOne ==
  ASSUME NEW S, IsFiniteSet(S), Cardinality(S) <= 1, NEW a \in S, NEW b \in S
  PROVE  a = b
<1> SUFFICES ASSUME a # b
             PROVE  FALSE
  OBVIOUS
<1>1. {a, b} \subseteq S /\ IsFiniteSet({a})
  BY FS_Singleton
<1>2. Cardinality({a} \cup {b}) = Cardinality({a}) + 1
  BY <1>1, FS_AddElement
<1>3. Cardinality({a}) = 1 /\ {a} \cup {b} = {a, b}
  BY FS_Singleton
<1>4. Cardinality({a, b}) <= Cardinality(S) /\ Cardinality(S) \in Nat
  BY <1>1, FS_Subset, FS_CardinalityType
<1> QED BY <1>2, <1>3, <1>4

\* While the chain can start at one place only, verify_manifest accepts exactly
\* what it is documented to accept: what it wrongly refuses needs two anchors.
THEOREM ExactWithOneAnchor == Spec => []VerifyExactWithOneAnchor
<1>1. TrustInv => VerifyExactWithOneAnchor
  <2> SUFFICES ASSUME TrustInv, Cardinality(Anchors) <= 1, Documented(Standing), key \notin trusted
               PROVE  Verifies
    <3>1. TrustInv /\ Documented(Standing) => intact /\ key \notin DOMAIN revocations
      BY StandingIs DEF Documented
    <3> QED BY <3>1, AcceptedNow DEF VerifyExactWithOneAnchor, VerifySound, Verifies
  <2>1. Len(history) \in Nat /\ IsFiniteSet(Anchors) /\ Anchors \subseteq Nat
    BY AnchorsAre DEF TrustInv
  <2>2. PICK start \in 1..Len(history) : ChainFrom(start, Standing)
    BY DEF Documented
  <2>3. start \in Anchors /\ \A i \in Anchors : start <= i
    <3>1. start \in Anchors
      BY <2>2 DEF ChainFrom, Anchors
    <3> QED BY <2>1, <3>1, AtMostOne
  <2>4. ASSUME NEW i \in start..Len(history)
        PROVE  history[i].valid /\ Linked(i) /\ InTime(history[i])
    <3>1. history[i].valid
      BY <2>2, <2>4 DEF ChainFrom
    <3>3. InTime(history[i])
      <4> SUFFICES ASSUME history[i].previous_key \in DOMAIN revocations
                   PROVE  history[i].rotated_at < revocations[history[i].previous_key]
        BY DEF InTime
      <4> DEFINE s == [public_key |-> history[i].previous_key,
                       revoked_at |-> revocations[history[i].previous_key]]
      <4>1. s \in Standing
        BY StandingIs
      <4> QED BY <2>2, <2>4, <4>1 DEF ChainFrom
    <3>2. ASSUME i < Len(history)
          PROVE  history[i + 1].previous_key = history[i].new_key
      <4>1. i + 1 \in start..Len(history) /\ i + 1 > start /\ (i + 1) - 1 = i
        BY <2>1, <3>2
      <4> QED BY <2>2, <4>1 DEF ChainFrom
    <3> QED BY <3>1, <3>2, <3>3 DEF Linked
  <2>5. key \notin DOMAIN revocations
    BY StandingIs DEF Documented
  <2> QED BY <2>1, <2>2, <2>3, <2>4, <2>5 DEF Verifies, ChainVerifies, Documented, ChainFrom
<1> QED BY <1>1, TrustInvariant, PTL

\* Learning of a revocation makes a manifest acceptable that was not only if it is
\* dated later than the one it replaces (TrustStore::revoke).
THEOREM AdmissionNeedsALaterRevocation == Spec => OnlyALaterRevocationAdmits
<1>1. ASSUME TrustInv, NEW s \in statements, Learn(s), Verifies',
             s.public_key \in DOMAIN revocations => s.revoked_at <= revocations[s.public_key]
      PROVE  Verifies
  <2>1. key' = key /\ intact' = intact /\ history' = history /\ trusted' = trusted
    BY <1>1 DEF Learn, manifestVars
  <2>2. DOMAIN revocations \subseteq DOMAIN revocations'
        /\ \A k \in DOMAIN revocations :
             /\ revocations'[k] <= revocations[k]
             /\ revocations'[k] \in Nat /\ revocations[k] \in Nat
    <3>1. s \in Statement /\ s.revoked_at \in Nat
      BY <1>1, TrustAssumption DEF TrustInv, TypeOK, Statement
    <3>2. \A k \in DOMAIN revocations : revocations[k] \in Nat
      BY <1>1, TrustAssumption DEF TrustInv, TypeOK
    <3> QED BY <1>1, <3>1, <3>2 DEF Learn
  <2>3. ASSUME NEW i \in 1..Len(history), InTime(history[i])'
        PROVE  InTime(history[i])
    <3>0. history[i] \in RotationProof
      BY <1>1 DEF TrustInv, TypeOK
    <3>1. history[i].rotated_at \in Nat
      BY <3>0, TrustAssumption DEF RotationProof
    <3> QED BY <2>1, <2>2, <2>3, <3>1 DEF InTime
  <2>4. Anchors' = Anchors /\ \A i : Linked(i)' = Linked(i)
    BY <2>1 DEF Anchors, Linked
  <2>5. ChainVerifies' => ChainVerifies
    <3>1. \A start \in Anchors : start \in 1..Len(history) /\ Len(history) \in Nat
      BY <1>1 DEF Anchors, TrustInv, TypeOK
    <3>2. \A start \in Anchors : \A i \in start..Len(history) : i \in 1..Len(history)
      BY <3>1
    <3>3. \A i \in 1..Len(history) : InTime(history[i])' => InTime(history[i])
      BY <2>3
    <3> QED BY <2>1, <2>4, <3>2, <3>3 DEF ChainVerifies
  <2> QED BY <1>1, <2>1, <2>2, <2>5 DEF Verifies
<1>2. TrustInv /\ [Next]_vars => [\A s \in statements :
         /\ Learn(s)
         /\ s.public_key \in DOMAIN revocations => s.revoked_at <= revocations[s.public_key]
         /\ ~Verifies
         => ~Verifies']_vars
  BY <1>1
<1> QED BY <1>2, TrustInvariant, PTL DEF Spec, OnlyALaterRevocationAdmits
=============================================================================
