----------------------------- MODULE TrustStore -----------------------------
(***************************************************************************)
(* Key rotation and trust (src/trust.rs, src/agent/manifest.rs).  An agent *)
(* signs its manifest and rotates its key; a consumer pins keys and learns *)
(* of revocations, in any order, and decides whether it trusts the         *)
(* manifest as it now is.  Timestamps are whole seconds of one clock.      *)
(* A signature verifies iff what it covers is unchanged since it was made. *)
(***************************************************************************)
EXTENDS Naturals, Sequences, FiniteSets

CONSTANTS
  Keys,       \* key pairs
  MaxTime,    \* bound on the clock
  MaxHistory,    \* bound on the number of recorded rotations
  MaxStatements  \* bound on the number of signed revocations

ASSUME TrustAssumption ==
  MaxTime \in Nat /\ MaxHistory \in Nat /\ MaxStatements \in Nat

VARIABLES
  now,          \* unix_now()
  key,          \* manifest.public_key
  intact,       \* does manifest.signature cover the manifest as it is?
  history,      \* manifest.key_history, oldest first
  statements,   \* revocations that key holders have signed
  trusted,      \* TrustStore.trusted_keys
  revocations,  \* TrustStore.revocations: key -> revoked_at
  learned,      \* history variable: every revocation that was ever recorded
  since         \* history variable: the rotations recorded after this one are
                \* undamaged and each followed from the one before

manifestVars == <<key, intact, history, since>>
storeVars    == <<trusted, revocations, learned>>
vars == <<now, key, intact, history, statements, trusted, revocations, learned, since>>

RotationProof ==
  [previous_key : Keys, new_key : Keys, rotated_at : 0..MaxTime, valid : BOOLEAN]

Statement == [public_key : Keys, revoked_at : 0..MaxTime]

Init ==
  /\ now = 0
  /\ key \in Keys
  /\ intact = TRUE
  /\ history = <<>>
  /\ statements = {}
  /\ trusted = {}
  /\ revocations = [k \in {} |-> 0]
  /\ learned = {}
  /\ since = 0

-----------------------------------------------------------------------------
(* The agent *)

\* RotationProof::create: the old key endorses the new one.
Endorsement(old, new) ==
  [previous_key |-> old, new_key |-> new, rotated_at |-> now, valid |-> TRUE]

\* Altered: the proof is made with the two identities swapped.
RotateSwapped(new) ==
  /\ Len(history) < MaxHistory
  /\ history' = Append(history, Endorsement(new, key))
  /\ key' = new
  /\ intact' = TRUE
  /\ UNCHANGED <<now, statements, storeVars, since>>

\* AgentManifest::rotate_identity: the current key endorses the new one.
\* (Rotating from any other key is refused and changes nothing.)
Rotate(new) ==
  /\ Len(history) < MaxHistory
  /\ history' = Append(history, Endorsement(key, new))
  /\ key' = new
  /\ intact' = TRUE
  /\ UNCHANGED <<now, statements, storeVars, since>>

\* AgentManifest::sign with another identity: the key changes, the recorded
\* rotations stay.
Sign(new) ==
  /\ key' = new
  /\ intact' = TRUE
  /\ since' = IF new = key THEN since ELSE Len(history)
  /\ UNCHANGED <<now, history, statements, storeVars>>

\* A signed field other than the history is changed after signing.
Edit ==
  /\ intact' = FALSE
  /\ UNCHANGED <<now, key, history, since, statements, storeVars>>

\* A recorded rotation (a public field of the manifest) no longer matches its
\* signature; signing the manifest again does not mend that.
Damage(i) ==
  /\ history' = [history EXCEPT ![i].valid = FALSE]
  /\ intact' = FALSE
  /\ since' = IF i > since THEN i ELSE since
  /\ UNCHANGED <<now, key, statements, storeVars>>

\* Revocation::create: effective now.
Revoke(k) ==
  /\ Cardinality(statements) < MaxStatements
  /\ statements' = statements \cup {[public_key |-> k, revoked_at |-> now]}
  /\ UNCHANGED <<now, manifestVars, storeVars>>

Tick ==
  /\ now < MaxTime
  /\ now' = now + 1
  /\ UNCHANGED <<statements, manifestVars, storeVars>>

-----------------------------------------------------------------------------
(* The consumer *)

\* TrustStore::trust
Trust(k) ==
  /\ trusted' = trusted \cup {k}
  /\ UNCHANGED <<now, statements, manifestVars, revocations, learned>>

\* Altered: learning of a revocation also unlearns the others.
LearnOnlyLast(s) ==
  /\ revocations' = [k \in {s.public_key} |-> s.revoked_at]
  /\ learned' = learned \cup {s}
  /\ UNCHANGED <<now, statements, manifestVars, trusted>>

\* TrustStore::revoke: the statement replaces any known one of that key.
Learn(s) ==
  /\ revocations' = [k \in DOMAIN revocations \cup {s.public_key} |->
                       IF k = s.public_key THEN s.revoked_at ELSE revocations[k]]
  /\ learned' = learned \cup {s}
  /\ UNCHANGED <<now, statements, manifestVars, trusted>>

Next ==
  \/ \E k \in Keys : Rotate(k) \/ Sign(k) \/ Revoke(k) \/ Trust(k)
  \/ Edit
  \/ \E i \in 1..Len(history) : Damage(i)
  \/ Tick
  \/ \E s \in statements : Learn(s)

Spec == Init /\ [][Next]_vars

-----------------------------------------------------------------------------
(* The decision *)

\* Altered: no rotation by a revoked key counts, whenever it was made.
InTimeNever(p) == p.previous_key \notin DOMAIN revocations

\* No known revocation of the endorsing key took effect by the rotation.
InTime(p) ==
  p.previous_key \in DOMAIN revocations => p.rotated_at < revocations[p.previous_key]

\* Altered: only the first link is looked at.
LinkedFirst(i) == i = 1 /\ Len(history) > 1 => history[2].previous_key = history[1].new_key

\* The next rotation, if there is one, starts from the key this one ended on.
Linked(i) == i < Len(history) => history[i + 1].previous_key = history[i].new_key

\* Where the walk could start: rotations away from a trusted key.
Anchors == {i \in 1..Len(history) : history[i].previous_key \in trusted}

\* The walk over the rotations from the first anchor on.
ChainVerifies ==
  \E start \in Anchors :
    /\ \A i \in Anchors : start <= i
    /\ \A i \in start..Len(history) :
         history[i].valid /\ Linked(i) /\ InTime(history[i])

\* TrustStore::verify_manifest
Verifies ==
  /\ intact
  /\ key \notin DOMAIN revocations
  /\ \/ key \in trusted
     \/ /\ history # <<>>
        /\ history[Len(history)].new_key = key
        /\ ChainVerifies

-----------------------------------------------------------------------------
(* Properties *)

\* The rotations from position i on are a valid contiguous chain from a trusted
\* key to the current key, each made before every one of these revocations of its key.
ChainFrom(i, revoked) ==
  /\ history[i].previous_key \in trusted
  /\ history[Len(history)].new_key = key
  /\ \A j \in i..Len(history) :
       /\ history[j].valid
       /\ j > i => history[j].previous_key = history[j - 1].new_key
       /\ \A s \in revoked :
            history[j].previous_key = s.public_key => history[j].rotated_at < s.revoked_at

\* What verify_manifest is documented to decide, given these revocations.
Documented(revoked) ==
  /\ intact
  /\ \A s \in revoked : key # s.public_key
  /\ key \in trusted \/ \E i \in 1..Len(history) : ChainFrom(i, revoked)

\* The revocations learned, but for those whose place a later-dated one of the same
\* key has taken.
Standing ==
  {s \in learned : s.public_key \in DOMAIN revocations =>
                     revocations[s.public_key] <= s.revoked_at}

\* Every variable has its type.
TypeOK ==
  /\ now \in 0..MaxTime
  /\ key \in Keys
  /\ intact \in BOOLEAN
  /\ history \in Seq(RotationProof)
  /\ statements \subseteq Statement
  /\ trusted \subseteq Keys
  /\ DOMAIN revocations \subseteq Keys
  /\ \A k \in DOMAIN revocations : revocations[k] \in 0..MaxTime
  /\ learned \subseteq Statement
  /\ since \in 0..Len(history)

\* A manifest is accepted only when the documented conditions hold of every
\* revocation ever learned, but for those replaced by a later-dated one
\* (verify_manifest; what the exception lets through is RevokedSignsNothing's matter).
VerifySound == Verifies => Documented(Standing)

\* As long as no more than one rotation starts from a trusted key, it is accepted
\* exactly when they hold, with that exception.
VerifyExactWithOneAnchor ==
  Cardinality(Anchors) <= 1 => (Verifies <=> Documented(Standing))

\* Consumers who pinned a key keep trusting the agent however often it rotates
\* away from it (rotate_identity), while nothing is revoked and it left none of
\* the pinned keys in another way.
PinnedStaysTrusted ==
  /\ intact
  /\ DOMAIN revocations = {}
  /\ \E i \in 1..Len(history) : history[i].previous_key \in trusted
  /\ \A i \in 1..Len(history) : history[i].previous_key \in trusted => i > since
  => Verifies

\* Learning of a revocation makes a manifest acceptable that was not only if it is
\* dated later than the one it replaces: not the first of a key, not an earlier one,
\* whatever is known of other keys (TrustStore::revoke).
OnlyALaterRevocationAdmits ==
  [][\A s \in statements :
       /\ Learn(s)
       /\ s.public_key \in DOMAIN revocations => s.revoked_at <= revocations[s.public_key]
       /\ ~Verifies
       => ~Verifies']_vars

\* Condition 3 as documented: any valid chain from a trusted key is enough.
VerifyComplete == Documented(Standing) => Verifies

\* "Anything signed by the key after revocation is rejected": a manifest is never
\* accepted for a rotation that its key signed in a later second than that of a
\* revocation of the key which the store has recorded (TrustStore::revoke).
RevokedSignsNothing ==
  Verifies => Documented({[s EXCEPT !.revoked_at = @ + 1] : s \in learned})
=============================================================================
