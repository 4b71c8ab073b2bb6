----------------------------- MODULE Delegation -----------------------------
(***************************************************************************)
(* Agent-to-agent delegation (src/a2a.rs and the peer registry of          *)
(* src/agent/runtime.rs).  Calls look a peer up by name, prove its         *)
(* identity once per RemoteAgent if a key is pinned, and then send their   *)
(* payload.  Calls share the RemoteAgent and its OnceCell; peers may be    *)
(* replaced; the server at a URL may be another one at any time, so each   *)
(* fetch may bring any manifest; any call may be dropped at any of its     *)
(* awaits.                                                                 *)
(***************************************************************************)
EXTENDS Naturals, FiniteSets

CONSTANTS
  Calls,     \* calls of delegate_chat and delegate_skill
  Names,     \* local names of peers
  Handles,   \* RemoteAgent values
  Keys,      \* agent identities
  Pinned,    \* handle -> its pinned key, or NoKey
  NoKey,
  NoHandle,
  Nobody

ASSUME DelegationAssumption ==
  /\ Pinned \in [Handles -> Keys \cup {NoKey}]
  /\ NoKey \notin Keys /\ NoHandle \notin Handles /\ Nobody \notin Calls

VARIABLES
  peers,     \* Agent.peers: name -> handle, or NoHandle
  added,     \* handles that were moved into the registry
  trusted,   \* handles whose OnceCell is set
  verifier,  \* handle -> the call that holds its OnceCell's permit, or Nobody
  pc,        \* where each call is
  target,    \* the handle each call got from the registry
  proved,    \* history variable: handles whose peer presented its pinned key
  sent       \* history variable: payloads a peer has received

vars == <<peers, added, trusted, verifier, pc, target, proved, sent>>
registryVars == <<peers, added>>
historyVars  == <<proved, sent>>

\* A manifest as far as verify looks at it: the key and the did it names, if any,
\* and whether it has a signature of that key that covers it as it is.
Manifest == [public_key : Keys \cup {NoKey}, did : Keys \cup {NoKey}, intact : BOOLEAN]

\* AgentManifest::verify.
SelfVerifies(m) ==
  /\ m.public_key # NoKey
  /\ m.did \in {NoKey, m.public_key}
  /\ m.intact

Running == {"queued", "verifying", "posting", "awaiting"}
Ended   == {"unknown", "refused", "failed", "answered", "gone"}

Init ==
  /\ peers = [n \in Names |-> NoHandle]
  /\ added = {}
  /\ trusted = {}
  /\ verifier = [h \in Handles |-> Nobody]
  /\ pc = [c \in Calls |-> "idle"]
  /\ target = [c \in Calls |-> NoHandle]
  /\ proved = {}
  /\ sent = {}

-----------------------------------------------------------------------------
(* The registry *)

\* Agent::add_peer: a peer of that name is replaced.
AddPeer(n, h) ==
  /\ h \notin added
  /\ peers' = [peers EXCEPT ![n] = h]
  /\ added' = added \cup {h}
  /\ UNCHANGED <<trusted, verifier, pc, target, historyVars>>

-----------------------------------------------------------------------------
(* A call *)

\* require_peer: no peer of that name.
Unregistered(c, n) ==
  /\ pc[c] = "idle"
  /\ peers[n] = NoHandle
  /\ pc' = [pc EXCEPT ![c] = "unknown"]
  /\ UNCHANGED <<registryVars, trusted, verifier, target, historyVars>>

\* require_peer, and ensure_trusted up to its first await: without a pinned key,
\* or with the cell set, there is nothing to wait for.
Begin(c, n) ==
  /\ pc[c] = "idle"
  /\ peers[n] # NoHandle
  /\ target' = [target EXCEPT ![c] = peers[n]]
  /\ pc' = [pc EXCEPT ![c] = IF Pinned[peers[n]] = NoKey \/ peers[n] \in trusted
                             THEN "posting" ELSE "queued"]
  /\ UNCHANGED <<registryVars, trusted, verifier, historyVars>>

\* Altered: each call verifies on its own, whoever else is at it.
AcquireShared(c) ==
  /\ pc[c] = "queued"
  /\ target[c] \notin trusted
  /\ verifier' = [verifier EXCEPT ![target[c]] = c]
  /\ pc' = [pc EXCEPT ![c] = "verifying"]
  /\ UNCHANGED <<registryVars, trusted, target, historyVars>>

\* get_or_try_init: the cell is empty and nobody is filling it.
Acquire(c) ==
  /\ pc[c] = "queued"
  /\ target[c] \notin trusted
  /\ verifier[target[c]] = Nobody
  /\ verifier' = [verifier EXCEPT ![target[c]] = c]
  /\ pc' = [pc EXCEPT ![c] = "verifying"]
  /\ UNCHANGED <<registryVars, trusted, target, historyVars>>

\* Altered: whoever waited goes on when the permit is free again, whatever the
\* verification it waited for has found.
AdoptUnset(c) ==
  /\ pc[c] = "queued"
  /\ verifier[target[c]] = Nobody
  /\ pc' = [pc EXCEPT ![c] = "posting"]
  /\ UNCHANGED <<registryVars, trusted, verifier, target, historyVars>>

\* get_or_try_init: another call filled the cell in the meantime.
Adopt(c) ==
  /\ pc[c] = "queued"
  /\ target[c] \in trusted
  /\ pc' = [pc EXCEPT ![c] = "posting"]
  /\ UNCHANGED <<registryVars, trusted, verifier, target, historyVars>>

\* RemoteAgent::verify accepts this manifest.
Accepts(h, m) == SelfVerifies(m) /\ m.public_key = Pinned[h]

\* A signed manifest of the pinned identity and of no other.
Proof(h, m) ==
  \E did \in {NoKey, Pinned[h]} : m = [public_key |-> Pinned[h], did |-> did, intact |-> TRUE]

\* The manifest arrives and proves the pinned identity: the cell is set.
Verified(c, m) ==
  /\ pc[c] = "verifying"
  /\ Accepts(target[c], m)
  /\ trusted' = trusted \cup {target[c]}
  /\ proved' = IF Proof(target[c], m) THEN proved \cup {target[c]} ELSE proved
  /\ verifier' = [verifier EXCEPT ![target[c]] = Nobody]
  /\ pc' = [pc EXCEPT ![c] = "posting"]
  /\ UNCHANGED <<registryVars, target, sent>>

\* The fetch fails, or the manifest arrives and does not prove it: the cell stays
\* empty and the next call that waits tries for itself.
NotVerified(c, result) ==
  /\ pc[c] = "verifying"
  /\ result = "refused" => \E m \in Manifest : ~Accepts(target[c], m)
  /\ pc' = [pc EXCEPT ![c] = result]
  /\ verifier' = [verifier EXCEPT ![target[c]] = Nobody]
  /\ UNCHANGED <<registryVars, trusted, target, historyVars>>

\* The peer receives the POST.
Deliver(c) ==
  /\ pc[c] = "posting"
  /\ sent' = sent \cup {[call |-> c, to |-> target[c]]}
  /\ pc' = [pc EXCEPT ![c] = "awaiting"]
  /\ UNCHANGED <<registryVars, trusted, verifier, target, proved>>

\* The response arrives, or an error status, or the connection breaks before or
\* after the peer has received the request.
Respond(c, result) ==
  /\ pc[c] \in {"posting", "awaiting"}
  /\ pc[c] = "posting" => result = "failed"
  /\ pc' = [pc EXCEPT ![c] = result]
  /\ UNCHANGED <<registryVars, trusted, verifier, target, historyVars>>

\* Altered: a dropped verification keeps the permit.
LeaveHolding(c) ==
  /\ pc[c] \in Running
  /\ pc' = [pc EXCEPT ![c] = "gone"]
  /\ UNCHANGED <<registryVars, trusted, verifier, target, historyVars>>

\* The call is dropped at an await; dropping an initialiser frees the permit.
Leave(c) ==
  /\ pc[c] \in Running
  /\ pc' = [pc EXCEPT ![c] = "gone"]
  /\ verifier' = [h \in Handles |-> IF verifier[h] = c THEN Nobody ELSE verifier[h]]
  /\ UNCHANGED <<registryVars, trusted, target, historyVars>>

Proceed(c) ==
  \/ Acquire(c)
  \/ Adopt(c)
  \/ \E m \in Manifest : Verified(c, m)
  \/ \E result \in {"refused", "failed"} : NotVerified(c, result)
  \/ Deliver(c)
  \/ \E result \in {"answered", "failed"} : Respond(c, result)

Next ==
  \/ \E n \in Names, h \in Handles : AddPeer(n, h)
  \/ \E c \in Calls :
       \/ \E n \in Names : Unregistered(c, n) \/ Begin(c, n)
       \/ Proceed(c)
       \/ Leave(c)

Spec == Init /\ [][Next]_vars

\* The runtime polls what is ready, and every request the peer is sent ends in a
\* response or a broken connection (RemoteAgent sets no timeout of its own).
FairSpec == Spec /\ \A c \in Calls : WF_vars(Proceed(c))

-----------------------------------------------------------------------------
(* Properties *)

\* Every variable has its type.
TypeOK ==
  /\ peers \in [Names -> Handles \cup {NoHandle}]
  /\ added \subseteq Handles
  /\ trusted \subseteq Handles
  /\ verifier \in [Handles -> Calls \cup {Nobody}]
  /\ pc \in [Calls -> {"idle"} \cup Running \cup Ended]
  /\ target \in [Calls -> Handles \cup {NoHandle}]
  /\ proved \subseteq Handles
  /\ sent \subseteq [call : Calls, to : Handles]

\* No payload reaches a peer with a pinned key before that peer has presented an
\* intact manifest of that key ("A mismatched identity fails before any payload
\* is sent"), however calls overlap, fail and are dropped.
NoPayloadBeforeProof ==
  \A m \in sent : Pinned[m.to] = NoKey \/ m.to \in proved

\* Concurrent first calls share one verification, and there is none once the
\* peer is verified (the result is cached).
OneVerification ==
  \A c \in Calls : pc[c] = "verifying" =>
    /\ verifier[target[c]] = c
    /\ target[c] \notin trusted

\* A call that reports the wrong identity has sent nothing.
RefusedSentNothing ==
  \A m \in sent : pc[m.call] \notin {"idle", "unknown", "refused", "queued", "verifying"}

\* Every call ends, also those that wait for a verification that fails or is
\* dropped.
CallsEnd == \A c \in Calls : pc[c] \in Running ~> pc[c] \in Ended
=============================================================================
