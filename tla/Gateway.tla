------------------------------- MODULE Gateway -------------------------------
(***************************************************************************)
(* The door of an agent's server: one AuthScheme (src/auth.rs) in front of *)
(* the REST and WebSocket routes (src/server/rest.rs) and of the gRPC      *)
(* service (src/grpc/mod.rs), with the JWKS store whose keys are fetched   *)
(* again and again from the issuer while requests are checked against them.*)
(*                                                                         *)
(* The issuer publishes the documents in order.  A refresh asks, is served *)
(* some document, and installs it when the response has come; refreshes    *)
(* may overlap.  One request is followed through the door.                 *)
(***************************************************************************)
EXTENDS Naturals, Sequences, FiniteSets, SequencesExt

CONSTANTS
  Documents,  \* the JWKS documents the issuer publishes, one after the other
  Refreshes,  \* calls of JwksStore::refresh
  Schemes,    \* how the server may be configured
  Requests,   \* what may be asked of it
  Times,      \* readings of unix_now
  Leeway,     \* LEEWAY_SECS
  Width       \* 2^64: seconds are u64

VARIABLES
  scheme,     \* the server's AuthScheme
  request,    \* the request: its front, its call and its credentials
  door,       \* "shut", "open", "refused" or "answered"
  status,     \* the class of the answer, or None
  admitted,   \* history variable: the time and the oldest document, at the door
  published,  \* the document the issuer serves now
  cached,     \* JwksStore.keys: kid -> key
  since,      \* history variable: published when the refresh that filled cached began
  refresh     \* each refresh: its stage, published when it began, its document

keyVars == <<published, cached, since, refresh>>
doorVars == <<scheme, request, door, status, admitted>>
vars == <<doorVars, keyVars>>

None == "none"   \* an optional field is the set of its value, or empty

-----------------------------------------------------------------------------
(* The key set *)

\* The keys parse keeps: RSA, for signing, for RS256, with both components.
Usable(jwk) ==
  /\ jwk.kty = "RSA"
  /\ jwk.use \subseteq {"sig"} /\ jwk.alg \subseteq {"RS256"}
  /\ jwk.key # {}

\* A key without a kid goes by its place in the document.
KidOf(doc, i) ==
  IF doc[i].kid = {} THEN ToString(i - 1) ELSE CHOOSE k \in doc[i].kid : TRUE

\* parse: of the usable keys with one kid, the last.
Parse(doc) ==
  LET usable == {i \in 1..Len(doc) : Usable(doc[i])}
      last(k) == CHOOSE i \in usable :
                   /\ KidOf(doc, i) = k
                   /\ \A j \in usable : KidOf(doc, j) = k => j <= i
  IN  [k \in {KidOf(doc, i) : i \in usable} |-> CHOOSE x \in doc[last(k)].key : TRUE]

\* What parse and refresh make an error of: a key that is not base64url, no key.
Bad(doc) ==
  \/ \E i \in 1..Len(doc) : Usable(doc[i]) /\ "garbled" \in doc[i].key
  \/ Parse(doc) = <<>>

\* get: by kid; a token without one only from a set of one.
Found(kid) ==
  {cached[k] : k \in {j \in DOMAIN cached :
     IF kid = {} THEN Cardinality(DOMAIN cached) = 1 ELSE j \in kid}}

-----------------------------------------------------------------------------
(* Schemes *)

\* api_keys, jwt_hs256 and jwt_rs256; a JWKS store from JSON has no url.
ApiKeys(keys) ==
  [kind |-> "keys", keys |-> keys, issuer |-> {}, audience |-> {}]
JwtHs256(secret) ==
  [kind |-> "hs256", secret |-> secret, issuer |-> {}, audience |-> {}]
JwtRs256(url) ==
  [kind |-> "rs256", url |-> url, issuer |-> {}, audience |-> {}]
Open == [kind |-> "open"]

\* with_issuer and with_audience, which leave a scheme of API keys alone.
WithIssuer(s, issuer) ==
  IF s.kind = "keys" THEN s ELSE [s EXCEPT !.issuer = {issuer}]
WithAudience(s, audience) ==
  IF s.kind = "keys" THEN s ELSE [s EXCEPT !.audience = {audience}]

-----------------------------------------------------------------------------
(* Tokens and credentials *)

\* Altered: a token is taken before its time.
ClaimsHoldEarly(token, t) ==
  /\ \E e \in token.exp : (e + Leeway) % Width >= t
  /\ scheme.issuer \subseteq token.iss
  /\ scheme.audience \subseteq token.aud

\* validate_claims at time t: seconds are u64, and the sum wraps.
ClaimsHold(token, t) ==
  /\ \E e \in token.exp : (e + Leeway) % Width >= t
  /\ \A n \in token.nbf : n <= t + Leeway
  /\ scheme.issuer \subseteq token.iss
  /\ scheme.audience \subseteq token.aud

\* split_jwt: what has three parts and a header.
IsToken(value) == value.is = "token"

\* verify_jwt_hs256.
VerifiedHs256(value, t) ==
  /\ scheme.kind = "hs256" /\ IsToken(value)
  /\ value.alg = "HS256" /\ value.signer = scheme.secret
  /\ ClaimsHold(value, t)

\* verify_jwt_rs256: the key set is read at this moment.
VerifiedRs256(value, t) ==
  /\ scheme.kind = "rs256" /\ IsToken(value)
  /\ value.alg = "RS256" /\ value.signer \in Found(value.kid)
  /\ ClaimsHold(value, t)

\* The Authorization header counts with one of two spellings of its prefix.
Bearer(credentials) ==
  {h.value : h \in {x \in credentials.authorization : x.prefix \in {"Bearer ", "bearer "}}}

\* authorize: of an API key, a bearer value is taken before the other header.
Authorized(credentials, t) ==
  LET bearer == Bearer(credentials)
      candidate == IF bearer # {} THEN bearer ELSE credentials.apiKey
  IN  IF scheme.kind = "keys" THEN \E k \in candidate : k \in scheme.keys
      ELSE \E value \in bearer : VerifiedHs256(value, t) \/ VerifiedRs256(value, t)

-----------------------------------------------------------------------------
(* Routes and statuses *)

\* The routes that stay open; a gRPC service has none.
Public(r) == r.front = "rest" /\ r.call \in {"health", "ready", "openapi"}

Gated(r) == scheme.kind # "open" /\ ~Public(r)

\* Calls that go on to the agent's chat, and are followed in ReplyStream.
Chats == {"ws", "chat", "chat_stream"}

\* Error: all the ways an agent can fail.
Errors ==
  {"Config", "Json", "Io", "Http", "Llm", "Identity", "Verification", "VectorStore", "Mcp",
   "SkillNotFound", "Skill", "PermissionDenied", "Auth", "Server", "A2a", "NotConfigured"}

\* What the other calls may come to: a skill fails with whatever it likes.
Outcomes(r) ==
  CASE r.call = "ready" -> {"ok", "NotReady"}
    [] r.call = "skill" -> {"ok"} \cup Errors
    [] OTHER -> {"ok"}

\* Error::into_response.
RestStatus(outcome) ==
  CASE outcome = "ok"                           -> 200
    [] outcome = "NotReady"                     -> 503
    [] outcome = "SkillNotFound"                -> 404
    [] outcome \in {"Config", "Json"}           -> 400
    [] outcome = "Auth"                         -> 401
    [] outcome = "PermissionDenied"             -> 403
    [] outcome \in {"Verification", "Identity"} -> 422
    [] outcome = "NotConfigured"                -> 501
    [] OTHER                                    -> 500

\* to_status.
GrpcStatus(outcome) ==
  CASE outcome = "ok"                           -> "ok"
    [] outcome = "SkillNotFound"                -> "not_found"
    [] outcome \in {"Config", "Json"}           -> "invalid_argument"
    [] outcome = "Auth"                         -> "unauthenticated"
    [] outcome = "PermissionDenied"             -> "permission_denied"
    [] outcome \in {"Verification", "Identity"} -> "failed_precondition"
    [] outcome = "NotConfigured"                -> "unimplemented"
    [] OTHER                                    -> "internal"

StatusOf(r, outcome) ==
  <<r.front, IF r.front = "grpc" THEN GrpcStatus(outcome) ELSE RestStatus(outcome)>>

-----------------------------------------------------------------------------
(* Steps *)

\* How far a refresh is: published when it began, and the document it was served.
At(stage, began, doc) == [stage |-> stage, began |-> began, doc |-> doc]

\* What the constants stand for: the store was made from a good document, and
\* the times in a token are read as unsigned numbers.
WellFormed ==
  /\ Documents \in Seq(Seq([kty : STRING, use : SUBSET STRING, alg : SUBSET STRING,
                            kid : SUBSET STRING, key : SUBSET STRING]))
  /\ Documents # <<>> /\ ~Bad(Documents[1])
  /\ \A r \in Requests : \A h \in r.credentials.authorization :
       h.value.is = "token" => h.value.exp \subseteq Nat
  /\ Leeway \in Nat /\ Width \in Nat \ {0} /\ Times \subseteq Nat

\* JwksStore::from_json and from_url have loaded the first document.
Init ==
  /\ scheme \in Schemes
  /\ request \in Requests
  /\ door = "shut" /\ status = None /\ admitted = <<0, 0>>
  /\ published = 1
  /\ cached = Parse(Documents[1])
  /\ since = 1
  /\ refresh = [f \in Refreshes |-> At("idle", 0, 0)]

\* The issuer replaces its document.
Publish ==
  /\ scheme.kind = "rs256"
  /\ published < Len(Documents)
  /\ published' = published + 1
  /\ UNCHANGED <<doorVars, cached, since, refresh>>

\* refresh: a store with a url asks for the document.
Ask(f) ==
  /\ scheme.kind = "rs256" /\ scheme.url
  /\ refresh[f].stage = "idle"
  /\ refresh' = [refresh EXCEPT ![f] = At("asked", published, 0)]
  /\ UNCHANGED <<doorVars, published, cached, since>>

\* The issuer serves what is published.
Serve(f) ==
  /\ refresh[f].stage = "asked"
  /\ refresh' = [refresh EXCEPT ![f].stage = "served", ![f].doc = published]
  /\ UNCHANGED <<doorVars, published, cached, since>>

Fetched(f) == Documents[refresh[f].doc]

\* Altered: the new keys are added to the old ones.
InstallMerged(f) ==
  /\ refresh[f].stage = "served" /\ ~Bad(Fetched(f))
  /\ cached' = [k \in DOMAIN Parse(Fetched(f)) \cup DOMAIN cached |->
                  IF k \in DOMAIN Parse(Fetched(f)) THEN Parse(Fetched(f))[k] ELSE cached[k]]
  /\ since' = refresh[f].began
  /\ refresh' = [refresh EXCEPT ![f] = At("ended", 0, 0)]
  /\ UNCHANGED <<doorVars, published>>

\* The document that came takes the place of the keys.
Install(f) ==
  /\ refresh[f].stage = "served" /\ ~Bad(Fetched(f))
  /\ cached' = Parse(Fetched(f))
  /\ since' = refresh[f].began
  /\ refresh' = [refresh EXCEPT ![f] = At("ended", 0, 0)]
  /\ UNCHANGED <<doorVars, published>>

\* The fetch failed, or the document is no good: the old keys stay.
KeepKeys(f) ==
  /\ refresh[f].stage = "asked" \/ (refresh[f].stage = "served" /\ Bad(Fetched(f)))
  /\ refresh' = [refresh EXCEPT ![f] = At("ended", 0, 0)]
  /\ UNCHANGED <<doorVars, published, cached, since>>

KeyStep == Publish \/ \E f \in Refreshes : Ask(f) \/ Serve(f) \/ Install(f) \/ KeepKeys(f)

\* authenticate and auth_interceptor let the request through.
Admit(t) ==
  /\ door = "shut"
  /\ Gated(request) => Authorized(request.credentials, t)
  /\ door' = "open"
  /\ admitted' = <<t, since>>
  /\ UNCHANGED <<scheme, request, status, keyVars>>

\* They do not: the caller is told so, and no handler runs.
Refuse(t) ==
  /\ door = "shut"
  /\ Gated(request) /\ ~Authorized(request.credentials, t)
  /\ door' = "refused"
  /\ status' = StatusOf(request, "Auth")
  /\ UNCHANGED <<scheme, request, admitted, keyVars>>

\* A handler other than chat answers.
Answer ==
  /\ door = "open" /\ request.call \notin Chats
  /\ door' = "answered"
  /\ \E outcome \in Outcomes(request) : status' = StatusOf(request, outcome)
  /\ UNCHANGED <<scheme, request, admitted, keyVars>>

DoorStep == Answer \/ \E t \in Times : Admit(t) \/ Refuse(t)

Next == KeyStep \/ DoorStep

Spec == Init /\ [][Next]_vars

-----------------------------------------------------------------------------
(* Properties *)

TypeOK ==
  /\ scheme \in Schemes /\ request \in Requests
  /\ door \in {"shut", "open", "refused", "answered"}
  /\ published \in 1..Len(Documents) /\ since \in 1..published

\* The keys requests are checked against are those of one document, never none
\* and never a mixture, and that document was still published when the refresh
\* that brought it began (JwksStore::refresh; overlapping ones included).
KeysAreOneDocument ==
  \E d \in since..published :
    cached = Parse(Documents[d]) /\ ~Bad(Documents[d])

\* The keys the issuer published in document d or later.
SignersSince(d) ==
  UNION {Range(Parse(Documents[e])) : e \in {i \in d..Len(Documents) : ~Bad(Documents[i])}}

\* Whoever is behind the door of a call that needs it held, when it opened, an API
\* key or a token: in its time up to the leeway, with the issuer and the audience
\* asked for, signed with the secret or with a key the issuer still had when the
\* last refresh began (authorize); and what needs nothing is never refused.
OnlyAuthorized ==
  /\ door \in {"open", "answered"} /\ Gated(request) =>
       LET credentials == request.credentials
           t == admitted[1]
       IN  IF scheme.kind = "keys"
           THEN \E k \in scheme.keys : k \in credentials.apiKey \cup Bearer(credentials)
           ELSE \E token \in Bearer(credentials) :
                  /\ \E e \in token.exp : t <= e + Leeway
                  /\ \A n \in token.nbf : n <= t + Leeway
                  /\ scheme.issuer \subseteq token.iss /\ scheme.audience \subseteq token.aud
                  /\ IF scheme.kind = "hs256" THEN token.signer = scheme.secret
                     ELSE token.signer \in SignersSince(admitted[2])
  /\ door = "refused" => Gated(request)
=============================================================================
