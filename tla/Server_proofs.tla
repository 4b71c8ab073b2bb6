---------------------------- MODULE Server_proofs ----------------------------
(***************************************************************************)
(* Proofs about the door and about what goes on behind it.                 *)
(*                                                                         *)
(* The door: the keys requests are checked against are always one          *)
(* published document, however many refreshes overlap, and behind the door *)
(* of a call that needs it is only who the scheme lets in.  A refresh      *)
(* carries what it needs from one step to the next: the document it was    *)
(* served was published between its beginning and now (Refreshing).  For   *)
(* the second theorem the key that signed a token is followed from the key *)
(* set back to the documents it came from, at the time of Admit.           *)
(*                                                                         *)
(* The stream: every message is answered in its turn (OrderInv), what is   *)
(* stored for it is what its client was sent (StoreInv), and the cuts      *)
(* between the pieces of a body do not show in it (CutInv).  While a reply *)
(* is streamed the client has been told what has been collected, nothing   *)
(* is stored for the message yet, and as long as no character was cut the  *)
(* collected reply is what a number of whole lines of the body say, with   *)
(* the rest of the body in the buffer and on the wire.  FlattenSeq, which  *)
(* puts texts together, is first shown to distribute over concatenation.   *)
(***************************************************************************)
EXTENDS Server, NaturalsInduction, WellFoundedInduction, TLAPS

\* Every refresh was served something published since it began.
Refreshing ==
  \A f \in Refreshes :
    /\ refresh[f].stage = "asked" => refresh[f].began \in 1..published
    /\ refresh[f].stage = "served" =>
         /\ refresh[f].began \in 1..published
         /\ refresh[f].doc \in refresh[f].began..published

KeyInv ==
  /\ published \in 1..Len(Documents) /\ since \in 1..published
  /\ refresh \in [Refreshes -> [stage : {"idle", "asked", "served", "ended"}, began : Nat, doc : Nat]]
  /\ Refreshing
  /\ KeysAreOneDocument

LEMMA DocumentsFact ==
  ASSUME WellFormed
  PROVE  /\ Len(Documents) \in Nat /\ Len(Documents) >= 1
         /\ ~Bad(Documents[1])
BY DEF WellFormed

LEMMA KeyInvInit ==
  ASSUME WellFormed, Init
  PROVE  KeyInv
<1>1. published \in 1..Len(Documents) /\ since \in 1..published
  BY DocumentsFact DEF Init
<1>2. refresh \in [Refreshes -> [stage : {"idle", "asked", "served", "ended"}, began : Nat, doc : Nat]]
  BY DEF Init, At
<1>3. Refreshing
  BY DEF Init, At, Refreshing
<1>4. KeysAreOneDocument
  BY DocumentsFact DEF Init, KeysAreOneDocument
<1> QED
  BY <1>1, <1>2, <1>3, <1>4 DEF KeyInv

LEMMA KeyInvStep ==
  ASSUME WellFormed, KeyInv, [Next]_vars
  PROVE  KeyInv'
<1> USE DocumentsFact
<1>1. CASE Publish
  <2>1. published' = published + 1 /\ published < Len(Documents)
        /\ cached' = cached /\ since' = since /\ refresh' = refresh
    BY <1>1 DEF Publish
  <2>2. published' \in 1..Len(Documents) /\ since' \in 1..published'
    BY <2>1 DEF KeyInv
  <2>3. Refreshing'
    BY <2>1 DEF KeyInv, Refreshing
  <2>4. KeysAreOneDocument'
    <3>1. PICK d \in since..published : cached = Parse(Documents[d]) /\ ~Bad(Documents[d])
      BY DEF KeyInv, KeysAreOneDocument
    <3>2. d \in since'..published'
      BY <2>1, <3>1 DEF KeyInv
    <3> QED
      BY <2>1, <3>1, <3>2 DEF KeysAreOneDocument
  <2> QED
    BY <2>1, <2>2, <2>3, <2>4 DEF KeyInv
<1>2. ASSUME NEW f \in Refreshes, Ask(f) \/ Serve(f) \/ KeepKeys(f)
      PROVE  KeyInv'
  <2>1. published' = published /\ cached' = cached /\ since' = since
    BY <1>2 DEF Ask, Serve, KeepKeys
  <2>2. refresh' \in [Refreshes -> [stage : {"idle", "asked", "served", "ended"}, began : Nat, doc : Nat]]
    BY <1>2 DEF Ask, Serve, KeepKeys, At, KeyInv
  <2>3. Refreshing'
    BY <1>2, <2>1 DEF Ask, Serve, KeepKeys, At, KeyInv, Refreshing
  <2>4. KeysAreOneDocument'
    BY <2>1 DEF KeyInv, KeysAreOneDocument
  <2> QED
    BY <2>1, <2>2, <2>3, <2>4 DEF KeyInv
<1>3. ASSUME NEW f \in Refreshes, Install(f)
      PROVE  KeyInv'
  <2> DEFINE d == refresh[f].doc
  <2>1. d \in refresh[f].began..published /\ refresh[f].began \in 1..published
    BY <1>3 DEF Install, KeyInv, Refreshing
  <2>2. published' = published /\ since' = refresh[f].began
        /\ cached' = Parse(Documents[d]) /\ ~Bad(Documents[d])
    BY <1>3 DEF Install, Fetched
  <2>3. refresh' \in [Refreshes -> [stage : {"idle", "asked", "served", "ended"}, began : Nat, doc : Nat]] /\ Refreshing'
    BY <1>3, <2>2 DEF Install, At, KeyInv, Refreshing
  <2>4. KeysAreOneDocument'
    BY <2>1, <2>2 DEF KeysAreOneDocument
  <2> QED
    BY <2>1, <2>2, <2>3, <2>4 DEF KeyInv
<1>4. CASE DoorStep \/ UNCHANGED vars
  <2>1. UNCHANGED keyVars
    BY <1>4 DEF DoorStep, Answer, Admit, Refuse, vars
  <2> QED
    BY <2>1 DEF keyVars, KeyInv, Refreshing, KeysAreOneDocument
<1> QED
  BY <1>1, <1>2, <1>3, <1>4 DEF Next, KeyStep

\* The server always checks with the keys of one good document, which was still
\* published when the refresh that brought it began (JwksStore::refresh).
THEOREM KeysOfOneDocument ==
  ASSUME WellFormed
  PROVE  Spec => []KeysAreOneDocument
<1>1. Init => KeyInv
  BY KeyInvInit
<1>2. KeyInv /\ [Next]_vars => KeyInv'
  BY KeyInvStep
<1>3. KeyInv => KeysAreOneDocument
  BY DEF KeyInv
<1> QED
  BY <1>1, <1>2, <1>3, PTL DEF Spec

-----------------------------------------------------------------------------
(* Who comes in *)

\* A remainder is no larger than what it is a remainder of.
LEMMA RemainderBounded ==
  ASSUME NEW n \in Nat, NEW w \in Nat \ {0}
  PROVE  n % w \in Nat /\ n % w <= n
OBVIOUS

\* The keys in use are keys the issuer had when the last refresh began.
LEMMA KeysAreSigners ==
  ASSUME WellFormed, KeyInv, NEW kid, NEW signer \in Found(kid)
  PROVE  signer \in SignersSince(since)
<1>1. PICK d \in since..published : cached = Parse(Documents[d]) /\ ~Bad(Documents[d])
  BY DEF KeyInv, KeysAreOneDocument
<1>2. d \in since..Len(Documents)
  BY <1>1, DocumentsFact DEF KeyInv
<1>3. signer \in Range(cached)
  BY DEF Found, Range
<1>4. signer \in Range(Parse(Documents[d]))
  BY <1>1, <1>3
<1>5. d \in {i \in since..Len(Documents) : ~Bad(Documents[i])}
  BY <1>1, <1>2
<1> QED
  BY <1>4, <1>5 DEF SignersSince

\* What a token the scheme takes at time t is like.
Good(token, t) ==
  /\ \E e \in token.exp : t <= e + Leeway
  /\ \A n \in token.nbf : n <= t + Leeway
  /\ scheme.issuer \subseteq token.iss /\ scheme.audience \subseteq token.aud
  /\ IF scheme.kind = "hs256" THEN token.signer = scheme.secret
     ELSE token.signer \in SignersSince(since)

LEMMA VerifiedIsGood ==
  ASSUME WellFormed, KeyInv, request \in Requests, NEW t \in Times,
         NEW token \in Bearer(request.credentials),
         VerifiedHs256(token, t) \/ VerifiedRs256(token, t)
  PROVE  Good(token, t)
<1>1. token.is = "token" /\ ClaimsHold(token, t)
  BY DEF VerifiedHs256, VerifiedRs256, IsToken
<1>2. token.exp \subseteq Nat
  <2>1. PICK h \in request.credentials.authorization : token = h.value
    BY DEF Bearer
  <2> QED
    BY <1>1, <2>1 DEF WellFormed
<1>3. PICK e \in token.exp : (e + Leeway) % Width >= t
  BY <1>1 DEF ClaimsHold
<1>4. t <= e + Leeway
  <2>1. e \in Nat /\ Leeway \in Nat /\ Width \in Nat \ {0} /\ t \in Nat
    BY <1>2, <1>3 DEF WellFormed
  <2>2. (e + Leeway) % Width \in Nat /\ (e + Leeway) % Width <= e + Leeway
    BY <2>1, RemainderBounded
  <2> QED
    BY <2>1, <2>2, <1>3
<1>5. IF scheme.kind = "hs256" THEN token.signer = scheme.secret
      ELSE token.signer \in SignersSince(since)
  BY KeysAreSigners DEF VerifiedHs256, VerifiedRs256
<1> QED
  BY <1>1, <1>3, <1>4, <1>5 DEF Good, ClaimsHold

DoorInv ==
  /\ KeyInv
  /\ request \in Requests
  /\ OnlyAuthorized

LEMMA DoorInvStep ==
  ASSUME WellFormed, DoorInv, [Next]_vars
  PROVE  DoorInv'
<1>1. KeyInv'
  BY KeyInvStep DEF DoorInv
<1>2. request' = request /\ scheme' = scheme
  BY DEF Next, KeyStep, Publish, Ask, Serve, Install, KeepKeys, DoorStep, Answer, Admit,
         Refuse, vars, doorVars
<1>3. OnlyAuthorized'
  <2>1. CASE UNCHANGED <<door, admitted>>
    BY <1>2, <2>1 DEF DoorInv, OnlyAuthorized, Gated, Bearer, SignersSince
  <2>2. CASE Answer
    BY <1>2, <2>2 DEF DoorInv, Answer, OnlyAuthorized, Gated, Bearer, SignersSince
  <2>3. ASSUME NEW t \in Times, Admit(t)
        PROVE  OnlyAuthorized'
    <3>1. door' = "open" /\ admitted'[1] = t /\ admitted'[2] = since
      BY <2>3 DEF Admit
    <3>2. SUFFICES ASSUME Gated(request)
                   PROVE  IF scheme.kind = "keys"
                          THEN \E k \in scheme.keys :
                                 k \in request.credentials.apiKey \cup Bearer(request.credentials)
                          ELSE \E token \in Bearer(request.credentials) : Good(token, t)
      BY <1>2, <3>1 DEF OnlyAuthorized, Gated, Good, Bearer, SignersSince
    <3>3. Authorized(request.credentials, t)
      BY <2>3, <3>2 DEF Admit
    <3> QED
      BY <3>3, VerifiedIsGood DEF DoorInv, Authorized
  <2>4. ASSUME NEW t \in Times, Refuse(t)
        PROVE  OnlyAuthorized'
    BY <1>2, <2>4 DEF Refuse, OnlyAuthorized, Gated
  <2>5. CASE KeyStep
    BY <2>1, <2>5 DEF KeyStep, Publish, Ask, Serve, Install, KeepKeys, doorVars
  <2> QED
    BY <2>1, <2>2, <2>3, <2>4, <2>5 DEF Next, DoorStep, vars, doorVars
<1> QED
  BY <1>1, <1>2, <1>3 DEF DoorInv

\* Behind the door of a call that needs it is only who held an API key or a good
\* token, signed with a key the issuer still had when the last refresh began
\* (authorize, authenticate, auth_interceptor).
THEOREM OnlyAuthorizedEnter ==
  ASSUME WellFormed
  PROVE  Spec => []OnlyAuthorized
<1>1. Init => DoorInv
  <2> SUFFICES ASSUME Init PROVE DoorInv
    OBVIOUS
  <2>1. request \in Requests /\ OnlyAuthorized
    BY DEF Init, OnlyAuthorized
  <2> QED
    BY <2>1, KeyInvInit DEF DoorInv
<1>2. DoorInv /\ [Next]_vars => DoorInv'
  BY DoorInvStep
<1>3. DoorInv => OnlyAuthorized
  BY DEF DoorInv
<1> QED
  BY <1>1, <1>2, <1>3, PTL DEF Spec

-----------------------------------------------------------------------------
(* The server *)

\* The server's door is this one: whatever goes on in the chats behind it, a
\* server does to the keys and the request what Gateway says (router, serve), so
\* both theorems above hold of the server too.
THEOREM ServerKeepsTheDoor == ServerSpec => Spec
<1>1. ServerInit => Init
  BY DEF ServerInit
<1>2. [ServerNext]_serverVars => [Next]_vars
  <2>1. CASE AtTheDoor
    BY <2>1 DEF AtTheDoor, Next
  <2>2. CASE Connected
    BY <2>2 DEF Connected
  <2>3. CASE UNCHANGED serverVars
    BY <2>3 DEF serverVars
  <2> QED
    BY <2>1, <2>2, <2>3 DEF ServerNext
<1> QED
  BY <1>1, <1>2, PTL DEF ServerSpec, Spec

-----------------------------------------------------------------------------
-----------------------------------------------------------------------------
(* FlattenSeq *)

LEMMA Least ==
  ASSUME NEW S \in SUBSET Nat, S # {}
  PROVE  \E m \in S : \A n \in S : m <= n
<1>1. PICK m \in S : \A n \in S : ~(<<n, m>> \in OpToRel(<, Nat))
  BY NatLessThanWellFounded, WFMin
<1>2. \A n \in S : ~(n < m)
  BY <1>1 DEF OpToRel
<1> QED BY <1>2

\* f[i] is what the first i of the sequences come to.
Flattens(f, ss, n) ==
  \A i \in 1..n : f[i] = IF i = 1 THEN ss[i] ELSE f[i - 1] \o ss[i]

LEMMA FlatExists ==
  ASSUME NEW U, NEW ss \in Seq(Seq(U))
  PROVE  \E f \in [1..Len(ss) -> Seq(U)] : Flattens(f, ss, Len(ss))
<1> DEFINE Odd == {n \in 0..Len(ss) : ~\E f \in [1..n -> Seq(U)] : Flattens(f, ss, n)}
<1>0. Len(ss) \in Nat /\ \A i \in 1..Len(ss) : ss[i] \in Seq(U)
  OBVIOUS
<1>1. SUFFICES ASSUME Odd # {}
               PROVE  FALSE
  BY <1>0
<1>2. Odd \in SUBSET Nat
  BY <1>0
<1>3. PICK m \in Odd : \A n \in Odd : m <= n
  BY <1>1, <1>2, Least
<1>4. CASE m = 0
  <2> DEFINE f == [i \in 1..0 |-> <<>>]
  <2>1. f \in [1..0 -> Seq(U)] /\ Flattens(f, ss, 0)
    BY DEF Flattens
  <2> QED BY <1>3, <1>4, <2>1
<1>5. CASE m # 0
  <2>1. m \in 1..Len(ss) /\ m - 1 \in 0..Len(ss) /\ m - 1 \notin Odd
    <3>1. m \in 0..Len(ss)
      BY <1>3
    <3>2. m \in 1..Len(ss) /\ m - 1 \in 0..Len(ss) /\ ~(m <= m - 1)
      BY <1>0, <1>5, <3>1
    <3> HIDE DEF Odd
    <3> QED BY <1>3, <3>2
  <2>2. PICK f \in [1..(m - 1) -> Seq(U)] : Flattens(f, ss, m - 1)
    BY <2>1
  <2> DEFINE new == IF m = 1 THEN ss[m] ELSE f[m - 1] \o ss[m]
             g == [i \in 1..m |-> IF i = m THEN new ELSE f[i]]
  <2>3. new \in Seq(U)
    <3>1. CASE m = 1
      BY <1>0, <2>1, <3>1
    <3>2. CASE m # 1
      <4>1. f[m - 1] \in Seq(U) /\ ss[m] \in Seq(U)
        BY <1>0, <2>1, <2>2, <3>2
      <4> QED BY <3>2, <4>1
    <3> QED BY <3>1, <3>2
  <2>4. g \in [1..m -> Seq(U)]
    <3> HIDE DEF new
    <3>1. \A i \in 1..m : i # m => i \in 1..(m - 1)
      BY <2>1
    <3> QED BY <2>2, <2>3, <3>1
  <2>5. Flattens(g, ss, m)
    <3>1. \A i \in 1..m : i # m => i \in 1..(m - 1) /\ (i # 1 => i - 1 \in 1..m /\ i - 1 # m)
      BY <2>1
    <3>2. ASSUME NEW i \in 1..m, i # m
          PROVE  g[i] = IF i = 1 THEN ss[i] ELSE g[i - 1] \o ss[i]
      <4>1. g[i] = f[i] /\ (i # 1 => g[i - 1] = f[i - 1])
        BY <3>1, <3>2
      <4> QED BY <2>2, <3>1, <3>2, <4>1 DEF Flattens
    <3>3. g[m] = IF m = 1 THEN ss[m] ELSE g[m - 1] \o ss[m]
      <4>1. m \in 1..m /\ (m # 1 => m - 1 \in 1..m /\ m - 1 # m)
        BY <2>1
      <4> QED BY <4>1
    <3> HIDE DEF g
    <3> QED BY <3>2, <3>3 DEF Flattens
  <2>6. m \notin Odd
    BY <2>4, <2>5
  <2> QED BY <2>6
<1> QED BY <1>4, <1>5

LEMMA FlatIs ==
  ASSUME NEW U, NEW ss \in Seq(Seq(U)), Len(ss) # 0,
         NEW f \in [1..Len(ss) -> Seq(U)], Flattens(f, ss, Len(ss))
  PROVE  FlattenSeq(ss) = f[Len(ss)]
<1> DEFINE n == Len(ss)
           G(h) == [i \in 1..n |-> IF i = 1 THEN ss[i] ELSE h[i - 1] \o ss[i]]
           h0 == CHOOSE h : h = G(h)
<1>1. FlattenSeq(ss) = h0[n]
  BY DEF FlattenSeq
<1>2. f = G(f)
  BY DEF Flattens
<1>3. h0 = G(h0)
  BY <1>2
<1> HIDE DEF h0
<1>4. n \in Nat /\ n >= 1
  OBVIOUS
<1> DEFINE Diff == {i \in 1..n : h0[i] # f[i]}
<1>5. Diff = {}
  <2>1. SUFFICES ASSUME Diff # {}
                 PROVE  FALSE
    OBVIOUS
  <2>2. PICK m \in Diff : \A k \in Diff : m <= k
    <3>1. Diff \in SUBSET Nat
      BY <1>4
    <3> HIDE DEF Diff
    <3> QED BY <2>1, <3>1, Least
  <2>3. h0[m] = IF m = 1 THEN ss[m] ELSE h0[m - 1] \o ss[m]
    BY <1>3
  <2>4. f[m] = IF m = 1 THEN ss[m] ELSE f[m - 1] \o ss[m]
    BY DEF Flattens
  <2>5. m # 1 => m - 1 \in 1..n /\ m - 1 \notin Diff
    BY <1>4, <2>2
  <2> QED BY <2>2, <2>3, <2>4, <2>5
<1> QED BY <1>1, <1>4, <1>5

LEMMA FlattenAppend ==
  ASSUME NEW U, NEW ss \in Seq(Seq(U)), NEW x \in Seq(U)
  PROVE  /\ FlattenSeq(ss) \in Seq(U)
         /\ FlattenSeq(Append(ss, x)) = FlattenSeq(ss) \o x
<1> DEFINE n == Len(ss)
           t == Append(ss, x)
<1>1. /\ n \in Nat /\ t \in Seq(Seq(U)) /\ Len(t) = n + 1 /\ t[n + 1] = x
      /\ \A i \in 1..n : t[i] = ss[i]
  OBVIOUS
<1> HIDE DEF t
<1>2. PICK f \in [1..Len(t) -> Seq(U)] : Flattens(f, t, Len(t))
  BY <1>1, FlatExists
<1>3. FlattenSeq(t) = f[n + 1]
  BY <1>1, <1>2, FlatIs
<1>4. n + 1 \in 1..Len(t) /\ (n # 0 => n \in 1..Len(t)) /\ n + 1 - 1 = n
      /\ (n = 0 <=> n + 1 = 1)
  BY <1>1
<1>5. f[n + 1] = IF n = 0 THEN x ELSE f[n] \o x
  <2>1. \A i \in 1..Len(t) : f[i] = IF i = 1 THEN t[i] ELSE f[i - 1] \o t[i]
    BY <1>2 DEF Flattens
  <2> DEFINE k == n + 1
  <2>2. k \in 1..Len(t)
    BY <1>4
  <2> HIDE DEF k
  <2>3. f[k] = IF k = 1 THEN t[k] ELSE f[k - 1] \o t[k]
    BY <2>1, <2>2
  <2> USE DEF k
  <2> QED BY <1>1, <1>4, <2>3
<1>6. CASE n = 0
  <2>1. ss = <<>> /\ FlattenSeq(ss) = <<>>
    BY <1>6 DEF FlattenSeq
  <2>2. <<>> \in Seq(U) /\ <<>> \o x = x
    OBVIOUS
  <2> QED BY <1>3, <1>5, <1>6, <2>1, <2>2 DEF t
<1>7. CASE n # 0
  <2> DEFINE g == [i \in 1..n |-> f[i]]
  <2>1. \A i \in 1..n : i \in 1..Len(t) /\ (i # 1 => i - 1 \in 1..n)
    BY <1>1
  <2>2. g \in [1..n -> Seq(U)]
    BY <1>2, <2>1
  <2>3. Flattens(g, ss, n)
    BY <1>1, <1>2, <2>1 DEF Flattens
  <2>4. g[n] = f[n] /\ f[n] \in Seq(U)
    BY <1>1, <1>2, <1>4, <1>7
  <2> HIDE DEF g
  <2>5. FlattenSeq(ss) = f[n]
    BY <1>7, <2>2, <2>3, <2>4, FlatIs
  <2> QED BY <1>3, <1>5, <1>7, <2>4, <2>5 DEF t
<1> QED BY <1>6, <1>7

LEMMA FlattenEmpty == FlattenSeq(<<>>) = <<>>
<1>1. Len(<<>>) = 0
  OBVIOUS
<1> QED BY <1>1 DEF FlattenSeq

LEMMA FlattenType ==
  ASSUME NEW U, NEW ss \in Seq(Seq(U))
  PROVE  FlattenSeq(ss) \in Seq(U)
<1>1. <<>> \in Seq(U)
  OBVIOUS
<1> QED BY <1>1, FlattenAppend

LEMMA PrefixGrows ==
  ASSUME NEW S, NEW b \in Seq(S), NEW m \in 1..Len(b)
  PROVE  /\ SubSeq(b, 1, m - 1) \in Seq(S)
         /\ SubSeq(b, 1, m) = Append(SubSeq(b, 1, m - 1), b[m])
OBVIOUS

LEMMA ConcatGrows ==
  ASSUME NEW S, NEW a \in Seq(S), NEW b \in Seq(S), NEW x \in S
  PROVE  a \o Append(b, x) = Append(a \o b, x) /\ a \o b \in Seq(S)
OBVIOUS

LEMMA FlattenConcat ==
  ASSUME NEW U, NEW a \in Seq(Seq(U)), NEW b \in Seq(Seq(U))
  PROVE  FlattenSeq(a \o b) = FlattenSeq(a) \o FlattenSeq(b)
<1> DEFINE p(k) == SubSeq(b, 1, k)
           Odd == {k \in 0..Len(b) : FlattenSeq(a \o p(k)) # FlattenSeq(a) \o FlattenSeq(p(k))}
<1>1. Len(b) \in Nat /\ p(Len(b)) = b
  OBVIOUS
<1>2. SUFFICES ASSUME Odd # {}
               PROVE  FALSE
  <2>1. Len(b) \in 0..Len(b)
    BY <1>1
  <2>2. Odd = {}
    OBVIOUS
  <2> QED BY <1>1, <2>1, <2>2
<1>3. PICK m \in Odd : \A k \in Odd : m <= k
  <2>1. Odd \in SUBSET Nat
    BY <1>1
  <2> HIDE DEF Odd
  <2> QED BY <1>2, <2>1, Least
<1>4. m \in 0..Len(b) /\ FlattenSeq(a \o p(m)) # FlattenSeq(a) \o FlattenSeq(p(m))
  BY <1>3
<1>5. CASE m = 0
  <2>1. p(m) = <<>> /\ a \o p(m) = a
    BY <1>5
  <2>2. FlattenSeq(a) \in Seq(U) /\ FlattenSeq(p(m)) = <<>>
    BY <2>1, FlattenType, FlattenEmpty
  <2>3. FlattenSeq(a) \o <<>> = FlattenSeq(a)
    BY <2>2
  <2> QED BY <1>4, <2>1, <2>2, <2>3
<1>6. CASE m # 0
  <2> DEFINE x == b[m]
             q == p(m - 1)
  <2>1. m \in 1..Len(b) /\ m - 1 \in 0..Len(b) /\ ~(m <= m - 1) /\ x \in Seq(U)
    BY <1>1, <1>4, <1>6
  <2>2. q \in Seq(Seq(U)) /\ p(m) = Append(q, x) /\ a \o p(m) = Append(a \o q, x)
        /\ a \o q \in Seq(Seq(U))
    <3>1. q \in Seq(Seq(U)) /\ p(m) = Append(q, x)
      BY <2>1, PrefixGrows
    <3> HIDE DEF q, x
    <3>2. a \o Append(q, x) = Append(a \o q, x) /\ a \o q \in Seq(Seq(U))
      BY <2>1, <3>1, ConcatGrows
    <3> HIDE DEF p
    <3> QED BY <3>1, <3>2
  <2>3. FlattenSeq(a \o q) = FlattenSeq(a) \o FlattenSeq(q)
    <3>1. m - 1 \notin Odd
      <4> HIDE DEF Odd
      <4> QED BY <1>3, <2>1
    <3> QED BY <2>1, <3>1
  <2> HIDE DEF q, x
  <2>4. FlattenSeq(a \o p(m)) = FlattenSeq(a \o q) \o x
    BY <2>1, <2>2, FlattenAppend
  <2>5. FlattenSeq(p(m)) = FlattenSeq(q) \o x
    BY <2>1, <2>2, FlattenAppend
  <2>6. FlattenSeq(a) \in Seq(U) /\ FlattenSeq(q) \in Seq(U)
    BY <2>2, FlattenType
  <2>7. (FlattenSeq(a) \o FlattenSeq(q)) \o x = FlattenSeq(a) \o (FlattenSeq(q) \o x)
    BY <2>1, <2>6
  <2> QED BY <1>4, <2>3, <2>4, <2>5, <2>7
<1> QED BY <1>5, <1>6

-----------------------------------------------------------------------------
(* Answers in order *)

LEMMA AppendIs ==
  ASSUME NEW S, NEW s \in Seq(S), NEW x \in S
  PROVE  /\ Append(s, x) \in Seq(S) /\ Len(Append(s, x)) = Len(s) + 1 /\ Len(s) \in Nat
         /\ \A i \in 1..Len(s) : Append(s, x)[i] = s[i]
         /\ Append(s, x)[Len(s) + 1] = x
         /\ \A i \in 1..Len(s) + 1 : i # Len(s) + 1 => i \in 1..Len(s)
OBVIOUS

Busy == {"once", "stream", "streaming"}

Kinds == {"reply", "error", "done", "chunk", "pong"}

Sent == [to : Nat, kind : Kinds, text : Seq(Nat)]

Sending(m, kind, text) == [to |-> m, kind |-> kind, text |-> text]

LEMMA SendingIs ==
  ASSUME NEW m \in Nat, NEW kind \in Kinds, NEW text \in Seq(Nat)
  PROVE  /\ Sending(m, kind, text) \in Sent
         /\ Sending(m, kind, text).to = m /\ Sending(m, kind, text).kind = kind
         /\ Sending(m, kind, text).text = text
         /\ Final(Sending(m, kind, text)) <=> kind # "chunk"
<1> DEFINE x == Sending(m, kind, text)
<1>1. x = [to |-> m, kind |-> kind, text |-> text]
  BY DEF Sending
<1>2. x \in Sent
  BY <1>1 DEF Sent
<1>3. x.to = m /\ x.kind = kind /\ x.text = text
  BY <1>1
<1> HIDE DEF x
<1>4. Final(x) <=> kind # "chunk"
  BY <1>3 DEF Final
<1> QED BY <1>2, <1>3, <1>4 DEF x

\* A frame of the message at hand.
LEMMA FrameIs ==
  ASSUME at \in Nat, NEW kind \in Kinds, NEW text \in Seq(Nat)
  PROVE  /\ Frame(kind, text) \in Sent /\ Frame(kind, text).to = at
         /\ Frame(kind, text).kind = kind /\ Frame(kind, text).text = text
         /\ Final(Frame(kind, text)) <=> kind # "chunk"
<1>1. Frame(kind, text) = Sending(at, kind, text)
  BY DEF Frame, Sending
<1> QED BY <1>1, SendingIs

LEMMA NoText == <<>> \in Seq(Nat)
OBVIOUS

LEMMA AnswerIs ==
  ASSUME NEW m \in Nat, NEW kind \in Kinds, kind # "chunk",
         NEW frame, frame = [to |-> m, kind |-> kind, text |-> <<>>]
  PROVE  /\ frame \in Sent /\ frame.to = m /\ Final(frame)
         /\ frame.kind = kind /\ frame.text = <<>>
<1> DEFINE none == <<>>
<1>1. none \in Seq(Nat)
  BY NoText
<1>2. frame = Sending(m, kind, none)
  BY DEF Sending
<1> HIDE DEF none
<1>3. /\ frame \in Sent /\ frame.to = m /\ Final(frame)
      /\ frame.kind = kind /\ frame.text = none
  BY <1>1, <1>2, SendingIs
<1> QED BY <1>3 DEF none

\* The frames follow the messages, and the one at hand has none that is final.
OrderInv ==
  /\ at \in Nat
  /\ out \in Seq(Sent)
  /\ \A i \in 1..Len(out) : out[i].to <= at
  /\ state \in Busy => at >= 1 /\ \A i \in 1..Len(out) : out[i].to = at => ~Final(out[i])
  /\ AnsweredInOrder

\* A frame of the message at hand is sent, or its client is gone or reads no more.
LEMMA SendKeeps ==
  ASSUME OrderInv, state \in Busy, NEW frame \in Sent, frame.to = at,
         NEW goesOn, Send(frame, goesOn),
         Final(frame) => goesOn \notin Busy, ~Final(frame) => goesOn = state,
         UNCHANGED <<at, alive, inbox>>
  PROVE  OrderInv'
<1>1. CASE out' = Append(out, frame) /\ state' = goesOn
  <2>1. /\ out' \in Seq(Sent) /\ Len(out') = Len(out) + 1 /\ Len(out) \in Nat
        /\ \A i \in 1..Len(out) : out'[i] = out[i]
        /\ out'[Len(out) + 1] = frame
        /\ \A i \in 1..Len(out') : i # Len(out) + 1 => i \in 1..Len(out)
    BY <1>1, AppendIs DEF OrderInv
  <2>2. \A i \in 1..Len(out) : out[i].to \in Nat /\ out[i].to <= at
    <3>1. \A i \in 1..Len(out) : out[i] \in Sent
      BY DEF OrderInv
    <3> QED BY <3>1 DEF OrderInv, Sent
  <2>3. \A i \in 1..Len(out') : out'[i].to <= at /\ at \in Nat
    BY <2>1, <2>2 DEF OrderInv
  <2>4. state' \in Busy => ~Final(frame)
    BY <1>1
  <2>5. state' \in Busy => \A i \in 1..Len(out') : out'[i].to = at => ~Final(out'[i])
    BY <2>1, <2>4 DEF OrderInv
  <2>6. ASSUME NEW i \in 1..Len(out'), NEW j \in 1..Len(out'), i < j
        PROVE  out'[i].to <= out'[j].to /\ (out'[i].to = out'[j].to => ~Final(out'[i]))
    <3>1. i \in 1..Len(out) /\ out'[i] = out[i]
      BY <2>1, <2>6
    <3>2. CASE j = Len(out) + 1
      BY <2>1, <2>2, <3>1, <3>2 DEF OrderInv
    <3>3. CASE j \in 1..Len(out)
      BY <2>1, <2>6, <3>1, <3>3 DEF OrderInv, AnsweredInOrder
    <3> QED BY <2>1, <3>2, <3>3
  <2>7. ASSUME alive', NEW m \in 1..at
        PROVE  \/ inbox[m] \in {"binary", "close"}
               \/ m = at /\ state' \in Busy
               \/ \E i \in 1..Len(out') : out'[i].to = m /\ Final(out'[i])
    <3>1. CASE m = at /\ Final(frame)
      <4>1. Len(out) + 1 \in 1..Len(out')
        BY <2>1
      <4> QED BY <2>1, <3>1, <4>1
    <3>2. CASE m = at /\ ~Final(frame)
      BY <1>1, <3>2
    <3>3. CASE m # at
      <4>1. 1..Len(out) \subseteq 1..Len(out')
        BY <2>1
      <4> QED BY <2>1, <2>7, <3>3, <4>1 DEF OrderInv, AnsweredInOrder
    <3> QED BY <3>1, <3>2, <3>3
  <2> QED BY <2>1, <2>3, <2>5, <2>6, <2>7 DEF OrderInv, AnsweredInOrder, Busy
<1>2. CASE out' = out /\ state' = IF alive THEN "stuck" ELSE "closed"
  BY <1>2 DEF OrderInv, AnsweredInOrder, Busy
<1> QED BY <1>1, <1>2 DEF Send

\* The next message is taken up, and answered there and then if it needs no reply.
LEMMA TakeKeeps ==
  ASSUME OrderInv, state = "recv", at' = at + 1, NEW frame \in Sent, frame.to = at + 1,
         Final(frame), UNCHANGED <<alive, inbox>>,
         \/ out' = out /\ inbox[at + 1] \in {"binary", "close"} /\ state' \notin Busy
         \/ out' = out /\ state' \in Busy
         \/ /\ out' = Append(out, frame) \/ (out' = out /\ (alive => state' = "stuck"))
            /\ state' \notin Busy
  PROVE  OrderInv'
<1>1. at' \in Nat /\ at \in Nat /\ 1..at' = (1..at) \cup {at + 1} /\ at' >= 1
  BY DEF OrderInv
<1>2. \A i \in 1..Len(out) : out[i].to \in Nat /\ out[i].to <= at
  <2>1. \A i \in 1..Len(out) : out[i] \in Sent
    BY DEF OrderInv
  <2> QED BY <2>1 DEF OrderInv, Sent
<1>3. CASE out' = out
  <2>1. \A i \in 1..Len(out') : out'[i].to <= at' /\ out'[i].to # at'
    BY <1>1, <1>2, <1>3
  <2>2. ASSUME alive', NEW m \in 1..at'
        PROVE  \/ inbox[m] \in {"binary", "close"}
               \/ m = at' /\ (state' \in Busy \/ state' = "stuck")
               \/ \E i \in 1..Len(out') : out'[i].to = m /\ Final(out'[i])
    <3>1. CASE m = at + 1
      <4>1. out' # Append(out, frame)
        BY <1>3, AppendIs DEF OrderInv
      <4> QED BY <1>3, <2>2, <3>1, <4>1
    <3>2. CASE m \in 1..at
      BY <1>3, <2>2, <3>2 DEF OrderInv, AnsweredInOrder, Busy
    <3> QED BY <1>1, <3>1, <3>2
  <2> QED BY <1>1, <1>3, <2>1, <2>2 DEF OrderInv, AnsweredInOrder, Busy
<1>4. CASE out' = Append(out, frame)
  <2>1. /\ out' \in Seq(Sent) /\ Len(out') = Len(out) + 1 /\ Len(out) \in Nat
        /\ \A i \in 1..Len(out) : out'[i] = out[i]
        /\ out'[Len(out) + 1] = frame
        /\ \A i \in 1..Len(out') : i # Len(out) + 1 => i \in 1..Len(out)
    BY <1>4, AppendIs DEF OrderInv
  <2>2. \A i \in 1..Len(out') : out'[i].to <= at'
    BY <1>1, <1>2, <2>1
  <2>3. state' \notin Busy
    <3>1. out' # out
      BY <2>1 DEF OrderInv
    <3> QED BY <3>1
  <2>4. ASSUME NEW i \in 1..Len(out'), NEW j \in 1..Len(out'), i < j
        PROVE  out'[i].to <= out'[j].to /\ (out'[i].to = out'[j].to => ~Final(out'[i]))
    <3>1. i \in 1..Len(out) /\ out'[i] = out[i]
      BY <2>1, <2>4
    <3>2. CASE j = Len(out) + 1
      BY <1>1, <1>2, <2>1, <3>1, <3>2
    <3>3. CASE j \in 1..Len(out)
      BY <2>1, <2>4, <3>1, <3>3 DEF OrderInv, AnsweredInOrder
    <3> QED BY <2>1, <3>2, <3>3
  <2>5. ASSUME alive', NEW m \in 1..at'
        PROVE  \/ inbox[m] \in {"binary", "close"}
               \/ \E i \in 1..Len(out') : out'[i].to = m /\ Final(out'[i])
    <3>1. CASE m = at + 1
      <4>1. Len(out) + 1 \in 1..Len(out')
        BY <2>1
      <4> QED BY <2>1, <3>1, <4>1
    <3>2. CASE m \in 1..at
      <4>1. 1..Len(out) \subseteq 1..Len(out')
        BY <2>1
      <4> QED BY <2>1, <2>5, <3>2, <4>1 DEF OrderInv, AnsweredInOrder
    <3> QED BY <1>1, <3>1, <3>2
  <2> QED BY <1>1, <2>1, <2>2, <2>3, <2>4, <2>5 DEF OrderInv, AnsweredInOrder, Busy
<1> QED BY <1>3, <1>4

-----------------------------------------------------------------------------
(* Texts *)

\* What the buffer holds: symbols, and what is left of those that were cut.
Marks == {"head", "tail", "newline", "[DONE]", "quiet", "garbled", "cut"} \X Nat

LEMMA MarksFact == Symbols \subseteq Marks /\ Cut \in Marks
BY DEF Symbols, Marks, Cut

LEMMA SaysType ==
  ASSUME NEW x \in Marks
  PROVE  Says(x) \in Seq(Nat)
<1>1. x[2] \in Nat /\ Unknown \in Nat
  BY DEF Marks, Unknown
<1> DEFINE c == x[2]
<1> HIDE DEF c
<1>2. <<c>> \in Seq(Nat) /\ <<Unknown>> \in Seq(Nat) /\ <<>> \in Seq(Nat)
  BY <1>1 DEF c
<1> QED BY <1>2 DEF Says, c

SaysAll(s) == [i \in 1..Len(s) |-> Says(s[i])]

LEMMA SaysAllType ==
  ASSUME NEW s \in Seq(Marks)
  PROVE  SaysAll(s) \in Seq(Seq(Nat)) /\ Len(SaysAll(s)) = Len(s)
<1>1. \A i \in 1..Len(s) : Says(s[i]) \in Seq(Nat)
  BY SaysType
<1> QED BY <1>1 DEF SaysAll

LEMMA DeltaType ==
  ASSUME NEW s \in Seq(Marks)
  PROVE  Delta(s) \in Seq(Nat)
BY SaysAllType, FlattenType DEF Delta, SaysAll

LEMMA ConcatIs ==
  ASSUME NEW S, NEW a \in Seq(S), NEW b \in Seq(S)
  PROVE  /\ a \o b \in Seq(S) /\ Len(a \o b) = Len(a) + Len(b)
         /\ Len(a) \in Nat /\ Len(b) \in Nat
         /\ \A i \in 1..Len(a) : (a \o b)[i] = a[i]
         /\ \A i \in 1..(Len(a) + Len(b)) : i \notin 1..Len(a) =>
              i - Len(a) \in 1..Len(b) /\ (a \o b)[i] = b[i - Len(a)]
OBVIOUS

LEMMA SaysAllConcat ==
  ASSUME NEW a \in Seq(Marks), NEW b \in Seq(Marks)
  PROVE  SaysAll(a \o b) = SaysAll(a) \o SaysAll(b)
<1> DEFINE l == SaysAll(a \o b)
           r == SaysAll(a) \o SaysAll(b)
<1>1. a \o b \in Seq(Marks) /\ Len(a \o b) = Len(a) + Len(b)
  BY ConcatIs
<1>2. SaysAll(a) \in Seq(Seq(Nat)) /\ Len(SaysAll(a)) = Len(a)
      /\ SaysAll(b) \in Seq(Seq(Nat)) /\ Len(SaysAll(b)) = Len(b)
  BY SaysAllType
<1>3. l \in Seq(Seq(Nat)) /\ Len(l) = Len(a) + Len(b)
  BY <1>1, SaysAllType
<1>4. r \in Seq(Seq(Nat)) /\ Len(r) = Len(a) + Len(b)
  <2>1. r \in Seq(Seq(Nat)) /\ Len(r) = Len(SaysAll(a)) + Len(SaysAll(b))
    <3> HIDE DEF r
    <3>1. \A x \in Seq(Seq(Nat)), y \in Seq(Seq(Nat)) :
            x \o y \in Seq(Seq(Nat)) /\ Len(x \o y) = Len(x) + Len(y)
      BY ConcatIs
    <3> QED BY <1>2, <3>1 DEF r
  <2> HIDE DEF r
  <2> QED BY <1>2, <2>1
<1>5. ASSUME NEW i \in 1..(Len(a) + Len(b))
      PROVE  l[i] = r[i]
  <2>1. l[i] = Says((a \o b)[i])
    BY <1>1 DEF SaysAll
  <2>2. CASE i \in 1..Len(a)
    <3>1. (a \o b)[i] = a[i]
      BY <2>2, ConcatIs
    <3>2. r[i] = SaysAll(a)[i]
      BY <1>2, <2>2, ConcatIs
    <3> QED BY <2>1, <2>2, <3>1, <3>2 DEF SaysAll
  <2>3. CASE i \notin 1..Len(a)
    <3>1. i - Len(a) \in 1..Len(b) /\ (a \o b)[i] = b[i - Len(a)]
      BY <2>3, ConcatIs
    <3>2. r[i] = SaysAll(b)[i - Len(a)]
      BY <1>2, <2>3, ConcatIs
    <3> QED BY <2>1, <3>1, <3>2 DEF SaysAll
  <2> QED BY <2>2, <2>3
<1> HIDE DEF l, r
<1>6. l = r
  BY <1>3, <1>4, <1>5
<1> QED BY <1>6 DEF l, r

LEMMA DeltaConcat ==
  ASSUME NEW a \in Seq(Marks), NEW b \in Seq(Marks)
  PROVE  Delta(a \o b) = Delta(a) \o Delta(b)
<1>1. SaysAll(a) \in Seq(Seq(Nat)) /\ SaysAll(b) \in Seq(Seq(Nat))
  BY SaysAllType
<1>2. FlattenSeq(SaysAll(a) \o SaysAll(b)) = FlattenSeq(SaysAll(a)) \o FlattenSeq(SaysAll(b))
  BY <1>1, FlattenConcat
<1>3. SaysAll(a \o b) = SaysAll(a) \o SaysAll(b)
  BY SaysAllConcat
<1> QED BY <1>2, <1>3 DEF Delta, SaysAll

LEMMA DeltaNothing ==
  ASSUME NEW x \in Marks, x[1] = "newline"
  PROVE  Delta(<<x>>) = <<>>
<1>1. Says(x) = <<>>
  BY DEF Says
<1>2. SaysAll(<<x>>) = Append(<<>>, <<>>)
  BY <1>1 DEF SaysAll
<1>3. <<>> \in Seq(Seq(Nat)) /\ <<>> \in Seq(Nat)
  OBVIOUS
<1>4. FlattenSeq(Append(<<>>, <<>>)) = FlattenSeq(<<>>) \o <<>>
  BY <1>3, FlattenAppend
<1> QED BY <1>2, <1>4, FlattenEmpty DEF Delta, SaysAll

LEMMA FirstNewline ==
  ASSUME NEW s \in Seq(Marks), Has(s, "newline")
  PROVE  \E n \in 1..Len(s) :
           /\ s[n][1] = "newline" /\ \A i \in 1..(n - 1) : s[i][1] # "newline"
           /\ FirstLine(s) = SubSeq(s, 1, n - 1)
           /\ AfterLine(s) = SubSeq(s, n + 1, Len(s))
<1> DEFINE I == {i \in 1..Len(s) : s[i][1] = "newline"}
<1>1. I \in SUBSET Nat /\ I # {} /\ Len(s) \in Nat
  BY DEF Has
<1>2. \E m \in I : \A n \in I : m <= n
  <2> HIDE DEF I
  <2> QED BY <1>1, Least
<1>3. Min(I) \in I /\ \A n \in I : Min(I) <= n
  BY <1>2 DEF Min
<1>4. SelectInSeq(s, LAMBDA x : x[1] = "newline") = Min(I)
  BY <1>1 DEF SelectInSeq
<1>5. FirstLine(s) = SubSeq(s, 1, Min(I) - 1) /\ AfterLine(s) = SubSeq(s, Min(I) + 1, Len(s))
  BY <1>4 DEF FirstLine, AfterLine
<1>6. \A i \in 1..(Min(I) - 1) : i \in 1..Len(s) /\ ~(Min(I) <= i)
  <2>1. Min(I) \in 1..Len(s)
    BY <1>3
  <2> HIDE DEF I
  <2> QED BY <1>1, <2>1
<1> DEFINE m == Min(I)
<1>7. m \in 1..Len(s) /\ s[m][1] = "newline"
  BY <1>3
<1> HIDE DEF m
<1>8. \A i \in 1..(m - 1) : s[i][1] # "newline"
  BY <1>3, <1>6 DEF m
<1> QED BY <1>5, <1>7, <1>8 DEF m

TextInv ==
  /\ body \in Seq(Symbols) /\ wire \in Seq(Symbols)
  /\ buffer \in Seq(Marks) /\ reply \in Seq(Nat)

LEMMA DecodeType ==
  ASSUME NEW s \in Seq(Symbols)
  PROVE  Decode(s) \in Seq(Marks) /\ Len(Decode(s)) = Len(s)
<1>1. Len(s) \in Nat /\ \A i \in 1..Len(s) : s[i] \in Symbols
  OBVIOUS
<1>2. \A i \in 1..Len(s) : s[i] \in Marks /\ Cut \in Marks
  BY <1>1, MarksFact
<1>3. Decode(s) \in [1..Len(s) -> Marks]
  BY <1>2 DEF Decode
<1> QED BY <1>1, <1>3

LEMMA CutIsSeq ==
  ASSUME NEW S, NEW s \in Seq(S), NEW n \in 0..Len(s)
  PROVE  SubSeq(s, 1, n) \in Seq(S) /\ SubSeq(s, n + 1, Len(s)) \in Seq(S)
OBVIOUS

LEMMA LineType ==
  ASSUME NEW s \in Seq(Marks), Has(s, "newline")
  PROVE  FirstLine(s) \in Seq(Marks) /\ AfterLine(s) \in Seq(Marks)
<1>1. PICK n \in 1..Len(s) : FirstLine(s) = SubSeq(s, 1, n - 1)
                            /\ AfterLine(s) = SubSeq(s, n + 1, Len(s))
  BY FirstNewline
<1>2. n - 1 \in 0..Len(s) /\ n \in 0..Len(s)
  OBVIOUS
<1> QED BY <1>1, <1>2, CutIsSeq

LEMMA TextStep == TextInv /\ [StreamNext]_streamVars => TextInv'
<1> SUFFICES ASSUME TextInv, [StreamNext]_streamVars
             PROVE  TextInv'
  OBVIOUS
<1> USE DEF TextInv
<1>1. CASE UNCHANGED stream
  BY <1>1 DEF stream
<1>2. ASSUME NEW b \in Bodies, Begin(b)
      PROVE  TextInv'
  <2>1. b \in Seq(Symbols) /\ <<>> \in Seq(Marks) /\ <<>> \in Seq(Nat)
    BY StreamAssumption
  <2> QED BY <1>2, <2>1 DEF Begin
<1>3. ASSUME NEW n \in 1..Len(wire), Arrive(n)
      PROVE  TextInv'
  <2>1. n \in 0..Len(wire)
    OBVIOUS
  <2>2. SubSeq(wire, 1, n) \in Seq(Symbols) /\ wire' \in Seq(Symbols)
    BY <1>3, <2>1, CutIsSeq DEF Arrive
  <2>3. Decode(SubSeq(wire, 1, n)) \in Seq(Marks)
    BY <2>2, DecodeType
  <2>4. buffer \o Decode(SubSeq(wire, 1, n)) \in Seq(Marks)
    BY <2>3, ConcatIs
  <2> QED BY <1>3, <2>2, <2>4 DEF Arrive
<1>4. CASE Chunk
  <2>1. AfterLine(buffer) \in Seq(Marks) /\ Line \in Seq(Marks)
    BY <1>4, LineType DEF Chunk, Line
  <2>2. Delta(Line) \in Seq(Nat)
    BY <2>1, DeltaType
  <2>3. reply \o Delta(Line) \in Seq(Nat)
    BY <2>2, ConcatIs
  <2> QED BY <1>4, <2>1, <2>3 DEF Chunk
<1>5. CASE Take \/ Hangup \/ Leave \/ Fails \/ Breaks \/ Complete \/ Spoilt
  BY <1>1, <1>5 DEF Take, Hangup, Leave, Fails, Breaks, Complete, Spoilt
<1>6. ASSUME NEW text \in Texts, Reply(text)
      PROVE  TextInv'
  BY <1>1, <1>6 DEF Reply
<1>7. CASE UNCHANGED streamVars
  BY <1>1, <1>7 DEF streamVars, stream
<1> QED BY <1>2, <1>3, <1>4, <1>5, <1>6, <1>7 DEF StreamNext, Respond

LEMMA OrderStep == TextInv /\ OrderInv /\ [StreamNext]_streamVars => OrderInv'
<1> SUFFICES ASSUME TextInv, OrderInv, [StreamNext]_streamVars
             PROVE  OrderInv'
  OBVIOUS
<1>0. at \in Nat
  BY DEF OrderInv
<1> DEFINE error == Frame("error", <<>>)
           done == Frame("done", <<>>)
<1>a. error \in Sent /\ error.to = at /\ Final(error)
  BY <1>0, NoText, FrameIs DEF Kinds
<1>b. done \in Sent /\ done.to = at /\ Final(done)
  BY <1>0, NoText, FrameIs DEF Kinds
<1> HIDE DEF error, done
<1>1. CASE Take
  <2> DEFINE message == inbox[at + 1]
             answer(kind) == [to |-> at + 1, kind |-> kind, text |-> <<>>]
             Ok(frame) == frame \in Sent /\ frame.to = at + 1 /\ Final(frame)
  <2>1. at' = at + 1 /\ state = "recv" /\ UNCHANGED <<alive, inbox>>
    BY <1>1 DEF Take, connection
  <2>2. Ok(answer("error")) /\ Ok(answer("pong"))
    <3> DEFINE m == at + 1
    <3>1. m \in Nat
      BY <1>0
    <3> HIDE DEF m
    <3>2. Ok(answer("error"))
      BY <3>1, AnswerIs DEF Kinds, m
    <3>3. Ok(answer("pong"))
      BY <3>1, AnswerIs DEF Kinds, m
    <3> QED BY <3>2, <3>3
  <2>3. \/ message = "binary" /\ state' = "recv" /\ out' = out
        \/ message = "close" /\ state' = "closed" /\ out' = out
        \/ out' = Append(out, answer("error")) /\ state' = "recv"
        \/ out' = out /\ state' = IF alive THEN "stuck" ELSE "recv"
        \/ Send(answer("pong"), "recv")
        \/ state' \in {"once", "stream"} /\ out' = out
    BY <1>1 DEF Take
  <2> HIDE DEF answer
  <2>5. CASE Send(answer("pong"), "recv")
    BY <2>1, <2>2, <2>5, TakeKeeps DEF Send, Busy
  <2> QED BY <2>1, <2>2, <2>3, <2>5, TakeKeeps DEF Busy
<1>2. CASE Hangup
  <2>1. state' = "closed" /\ at' = at /\ out' = out /\ alive' = alive /\ inbox' = inbox
        /\ state = "recv"
    BY <1>2 DEF Hangup, connection
  <2> QED BY <2>1 DEF OrderInv, AnsweredInOrder, Busy
<1>22. CASE Leave
  <2>1. /\ state' \in {"closed", "recv", state}
        /\ at' = at /\ out' = out /\ alive' = FALSE /\ inbox' = inbox
    BY <1>22 DEF Leave
  <2> QED BY <2>1 DEF OrderInv, AnsweredInOrder, Busy
<1>3. ASSUME NEW text \in Texts, Reply(text)
      PROVE  OrderInv'
  <2>1. text \in Seq(Nat)
    BY StreamAssumption
  <2> DEFINE whole == Frame("reply", text)
  <2>2. whole \in Sent /\ whole.to = at /\ Final(whole)
    BY <1>0, <2>1, FrameIs DEF Kinds
  <2> HIDE DEF whole
  <2>3. state = "once" /\ Send(whole, Rest) /\ at' = at /\ alive' = alive /\ inbox' = inbox
    BY <1>3 DEF Reply, connection, whole
  <2> QED BY <2>2, <2>3, SendKeeps DEF Rest, Busy
<1>4. CASE Fails \/ Breaks \/ Spoilt
  <2>1. state \in Busy /\ Send(error, Rest) /\ at' = at /\ alive' = alive /\ inbox' = inbox
    BY <1>4 DEF Fails, Breaks, Spoilt, connection, Busy, error
  <2> QED BY <1>a, <2>1, SendKeeps DEF Rest, Busy
<1>5. CASE Complete
  <2>1. state \in Busy /\ Send(done, Rest) /\ at' = at /\ alive' = alive /\ inbox' = inbox
    BY <1>5 DEF Complete, connection, Busy, done
  <2> QED BY <1>b, <2>1, SendKeeps DEF Rest, Busy
<1>6. CASE Chunk
  <2>1. at' = at /\ alive' = alive /\ inbox' = inbox /\ state = "streaming"
    BY <1>6 DEF Chunk, connection
  <2>2. CASE out' = out /\ state' = state
    BY <2>1, <2>2 DEF OrderInv, AnsweredInOrder, Busy
  <2>3. CASE Send(Frame("chunk", Delta(Line)), "streaming")
    <3>1. Delta(Line) \in Seq(Nat)
      BY <1>6, LineType, DeltaType DEF Chunk, Line, TextInv
    <3> DEFINE chunk == Frame("chunk", Delta(Line))
    <3>2. chunk \in Sent /\ chunk.to = at /\ ~Final(chunk)
      BY <1>0, <3>1, FrameIs DEF Kinds
    <3>3. Send(chunk, "streaming")
      BY <2>3
    <3> HIDE DEF chunk
    <3> QED BY <2>1, <3>2, <3>3, SendKeeps DEF Busy
  <2> QED BY <1>6, <2>2, <2>3 DEF Chunk
<1>7. ASSUME NEW b \in Bodies, Begin(b)
      PROVE  OrderInv'
  BY <1>7 DEF Begin, OrderInv, AnsweredInOrder, Busy, connection
<1>8. ASSUME NEW n \in 1..Len(wire), Arrive(n)
      PROVE  OrderInv'
  BY <1>8 DEF Arrive, OrderInv, AnsweredInOrder, Busy, connection
<1>9. CASE UNCHANGED streamVars
  BY <1>9 DEF streamVars, OrderInv, AnsweredInOrder, Busy
<1> QED
  BY <1>1, <1>2, <1>22, <1>3, <1>4, <1>5, <1>6, <1>7, <1>8, <1>9 DEF StreamNext, Respond

\* Every message of the connection is answered in its turn: by chunks and then
\* one final frame, or by that frame alone.
THEOREM AnswersFollowMessages == StreamSpec => []AnsweredInOrder
<1>1. StreamInit => TextInv /\ OrderInv
  <2>1. <<>> \in Seq(Symbols) /\ <<>> \in Seq(Marks) /\ <<>> \in Seq(Nat) /\ <<>> \in Seq(Sent)
        /\ Len(<<>>) = 0
    OBVIOUS
  <2> QED BY <2>1 DEF StreamInit, TextInv, OrderInv, AnsweredInOrder, Busy
<1>2. OrderInv => AnsweredInOrder
  BY DEF OrderInv
<1> QED BY <1>1, <1>2, TextStep, OrderStep, PTL DEF StreamSpec

-----------------------------------------------------------------------------
(* What is stored and what is sent *)

\* What the frames in o say to message m.
Parts(o, m) == [i \in 1..Len(o) |-> IF o[i].to = m THEN o[i].text ELSE <<>>]
Told(o, m) == FlattenSeq(Parts(o, m))

LEMMA SentIs ==
  ASSUME NEW x \in Sent
  PROVE  x.to \in Nat /\ x.kind \in Kinds /\ x.text \in Seq(Nat)
BY DEF Sent

LEMMA PartsType ==
  ASSUME NEW o \in Seq(Sent), NEW m
  PROVE  Parts(o, m) \in Seq(Seq(Nat)) /\ Len(Parts(o, m)) = Len(o)
<1>1. Len(o) \in Nat /\ \A i \in 1..Len(o) : o[i] \in Sent
  OBVIOUS
<1>2. \A i \in 1..Len(o) : o[i].text \in Seq(Nat)
  BY <1>1, SentIs
<1>3. \A i \in 1..Len(o) : (IF o[i].to = m THEN o[i].text ELSE <<>>) \in Seq(Nat)
  BY <1>2, NoText
<1>4. Parts(o, m) \in [1..Len(o) -> Seq(Nat)]
  BY <1>3 DEF Parts
<1> QED BY <1>1, <1>4

LEMMA PartsAppend ==
  ASSUME NEW o \in Seq(Sent), NEW x \in Sent, NEW m
  PROVE  Parts(Append(o, x), m) = Append(Parts(o, m), IF x.to = m THEN x.text ELSE <<>>)
<1> DEFINE ox == Append(o, x)
           y == IF x.to = m THEN x.text ELSE <<>>
           l == Parts(ox, m)
           r == Append(Parts(o, m), y)
<1>1. y \in Seq(Nat)
  BY NoText, SentIs
<1> HIDE DEF y
<1>2. /\ ox \in Seq(Sent) /\ Len(ox) = Len(o) + 1 /\ Len(o) \in Nat
      /\ \A i \in 1..Len(o) : ox[i] = o[i]
      /\ ox[Len(o) + 1] = x
      /\ \A i \in 1..Len(o) + 1 : i # Len(o) + 1 => i \in 1..Len(o)
  BY AppendIs
<1> HIDE DEF ox
<1>3. l \in Seq(Seq(Nat)) /\ Len(l) = Len(o) + 1
  BY <1>2, PartsType
<1>4. /\ r \in Seq(Seq(Nat)) /\ Len(r) = Len(o) + 1
      /\ \A i \in 1..Len(o) : r[i] = Parts(o, m)[i]
      /\ r[Len(o) + 1] = y
  <2>1. Parts(o, m) \in Seq(Seq(Nat)) /\ Len(Parts(o, m)) = Len(o)
    BY PartsType
  <2> DEFINE ps == Parts(o, m)
  <2> HIDE DEF ps
  <2>2. ps \in Seq(Seq(Nat)) /\ Len(ps) = Len(o)
    BY <2>1 DEF ps
  <2>3. /\ Append(ps, y) \in Seq(Seq(Nat)) /\ Len(Append(ps, y)) = Len(ps) + 1
        /\ \A i \in 1..Len(ps) : Append(ps, y)[i] = ps[i]
        /\ Append(ps, y)[Len(ps) + 1] = y
    BY <1>1, <2>2, AppendIs
  <2> QED BY <2>2, <2>3 DEF ps
<1>5. ASSUME NEW i \in 1..Len(o) + 1
      PROVE  l[i] = r[i]
  <2>1. l[i] = IF ox[i].to = m THEN ox[i].text ELSE <<>>
    BY <1>2 DEF Parts
  <2>2. CASE i = Len(o) + 1
    BY <1>2, <1>4, <2>1, <2>2 DEF y
  <2>3. CASE i \in 1..Len(o)
    <3>1. Parts(o, m)[i] = IF o[i].to = m THEN o[i].text ELSE <<>>
      BY <2>3 DEF Parts
    <3> QED BY <1>2, <1>4, <2>1, <2>3, <3>1
  <2> QED BY <1>2, <2>2, <2>3
<1> HIDE DEF l, r
<1>6. l = r
  BY <1>3, <1>4, <1>5
<1> QED BY <1>6 DEF l, r, ox, y

LEMMA SaysAppend ==
  ASSUME NEW o \in Seq(Sent), NEW x \in Sent, NEW m
  PROVE  /\ Told(o, m) \in Seq(Nat)
         /\ x.to = m => Told(Append(o, x), m) = Told(o, m) \o x.text
         /\ x.to # m => Told(Append(o, x), m) = Told(o, m)
<1> DEFINE y == IF x.to = m THEN x.text ELSE <<>>
<1>1. y \in Seq(Nat)
  BY NoText, SentIs
<1>2. Parts(Append(o, x), m) = Append(Parts(o, m), y)
  BY PartsAppend
<1>3. y = IF x.to = m THEN x.text ELSE <<>>
  OBVIOUS
<1> HIDE DEF y
<1>4. Parts(o, m) \in Seq(Seq(Nat))
  BY PartsType
<1>5. FlattenSeq(Parts(o, m)) \in Seq(Nat)
      /\ FlattenSeq(Append(Parts(o, m), y)) = FlattenSeq(Parts(o, m)) \o y
  BY <1>1, <1>4, FlattenAppend
<1>6. Told(o, m) \in Seq(Nat) /\ Told(Append(o, x), m) = Told(o, m) \o y
  BY <1>2, <1>5 DEF Told
<1>7. \A s \in Seq(Nat) : s \o <<>> = s
  OBVIOUS
<1> QED BY <1>3, <1>6, <1>7

LEMMA SentTextIs == \A m : SentText(m) = Told(out, m)
BY DEF SentText, Told, Parts

\* What is stored for message m.
TurnsOf(s, m) == {t \in Range(s) : t.by = m}

StoredTurn == [by : Nat, text : Seq(Nat), whole : BOOLEAN]

LEMMA TurnIs ==
  ASSUME NEW m \in Nat, NEW text \in Seq(Nat)
  PROVE  /\ Turn(m, text) \in StoredTurn /\ Turn(m, text).by = m
         /\ Turn(m, text).text = text /\ Turn(m, text).whole
BY DEF StoredTurn, Turn

LEMMA BeginningIs ==
  ASSUME NEW m \in Nat
  PROVE  Beginning(m) \in StoredTurn /\ Beginning(m).by = m /\ ~Beginning(m).whole
BY NoText DEF StoredTurn, Beginning

\* What an append that fails leaves is a turn of the message at hand, or nothing.
LEMMA FailureStores ==
  ASSUME at \in Nat, NEW text \in Seq(Nat), AppendFails(text)
  PROVE  \E t \in StoredTurn : /\ t.by = at /\ (t.whole => t.text = text)
                               /\ stored' = stored \/ stored' = Append(stored, t)
<1> DEFINE a == Turn(at, text)
           b == Beginning(at)
<1>1. a \in StoredTurn /\ a.by = at /\ a.text = text
  BY TurnIs
<1>2. b \in StoredTurn /\ b.by = at /\ ~b.whole
  BY BeginningIs
<1>3. stored' \in {stored, Append(stored, b), Append(stored, a)}
  BY DEF AppendFails
<1> HIDE DEF a, b
<1> QED BY <1>1, <1>2, <1>3

LEMMA TurnsAppend ==
  ASSUME NEW s \in Seq(StoredTurn), NEW t \in StoredTurn, NEW m
  PROVE  /\ t.by # m => TurnsOf(Append(s, t), m) = TurnsOf(s, m)
         /\ t.by = m => TurnsOf(Append(s, t), m) = TurnsOf(s, m) \cup {t}
<1> DEFINE st == Append(s, t)
<1>1. /\ st \in Seq(StoredTurn) /\ Len(st) = Len(s) + 1 /\ Len(s) \in Nat
      /\ \A i \in 1..Len(s) : st[i] = s[i]
      /\ st[Len(s) + 1] = t
      /\ \A i \in 1..Len(s) + 1 : i # Len(s) + 1 => i \in 1..Len(s)
  BY AppendIs
<1> HIDE DEF st
<1>2. DOMAIN st = 1..Len(s) + 1 /\ DOMAIN s = 1..Len(s)
  BY <1>1
<1>3. Range(st) = {st[i] : i \in 1..Len(s) + 1} /\ Range(s) = {s[i] : i \in 1..Len(s)}
  BY <1>2 DEF Range
<1>4. Len(s) + 1 \in 1..Len(s) + 1 /\ \A i \in 1..Len(s) : i \in 1..Len(s) + 1
  BY <1>1
<1>5. Range(st) = Range(s) \cup {t}
  BY <1>1, <1>3, <1>4
<1> QED BY <1>5 DEF TurnsOf, st

\* Nothing is stored for a message that no stored turn is of.
LEMMA NoTurns ==
  ASSUME NEW s \in Seq(StoredTurn), NEW m, \A k \in 1..Len(s) : s[k].by # m
  PROVE  TurnsOf(s, m) = {}
<1>1. Range(s) = {s[i] : i \in 1..Len(s)}
  BY DEF Range
<1> QED BY <1>1 DEF TurnsOf

\* Frame f says truly what becomes of its message in b, if those in o are all.
Kept(f, o, s, b) ==
  /\ f.kind \in {"done", "reply"} => TurnsOf(s, f.to) = {Turn(f.to, Told(o, f.to))}
  /\ f.kind = "error" =>
       \A t \in TurnsOf(s, f.to) : t.whole => b[f.to] = "once" \/ t.text = Told(o, f.to)

Increasing(s) == \A i, j \in 1..Len(s) : i < j => s[i].by < s[j].by

LEMMA StoredAsSentIs ==
  StoredAsSent <=> /\ Increasing(stored)
                   /\ \A i \in 1..Len(out) : Kept(out[i], out, stored, inbox)
                   /\ StreamedTurn # {} => Ends
BY SentTextIs DEF StoredAsSent, Increasing, Kept, TurnsOf

\* The message at hand has no turn yet, and its client was told what is collected.
StoreInv ==
  /\ stored \in Seq(StoredTurn)
  /\ \A k \in 1..Len(stored) : stored[k].by <= at /\ (state \in Busy => stored[k].by < at)
  /\ \A m \in Nat : m > at => Told(out, m) = <<>>
  /\ state \in {"once", "stream"} => Told(out, at) = <<>>
  /\ state = "streaming" => Told(out, at) = reply
  /\ Increasing(stored)
  /\ \A i \in 1..Len(out) : Kept(out[i], out, stored, inbox)

\* A frame of another message changes nothing for f.
LEMMA KeptAlong ==
  ASSUME NEW o \in Seq(Sent), NEW x \in Sent, NEW s, NEW z, NEW b, NEW f,
         Kept(f, o, s, b),
         Final(f) => x.to # f.to /\ TurnsOf(z, f.to) = TurnsOf(s, f.to)
  PROVE  Kept(f, Append(o, x), z, b)
<1>1. CASE Final(f)
  <2>1. Told(Append(o, x), f.to) = Told(o, f.to)
    BY <1>1, SaysAppend
  <2> QED BY <1>1, <2>1 DEF Kept
<1>2. CASE ~Final(f)
  BY <1>2 DEF Kept, Final
<1> QED BY <1>1, <1>2

\* The turn of the message at hand comes last.
LEMMA StoredGrows ==
  ASSUME OrderInv, StoreInv, state \in Busy, NEW t \in StoredTurn, t.by = at,
         NEW z, z = stored \/ z = Append(stored, t)
  PROVE  /\ z \in Seq(StoredTurn) /\ Increasing(z)
         /\ \A k \in 1..Len(z) : z[k].by <= at
         /\ \A m : m # at => TurnsOf(z, m) = TurnsOf(stored, m)
<1>1. \A k \in 1..Len(stored) : stored[k].by \in Nat /\ stored[k].by < at
  <2>1. \A k \in 1..Len(stored) : stored[k] \in StoredTurn
    BY DEF StoreInv
  <2> QED BY <2>1 DEF StoreInv, StoredTurn
<1>2. at \in Nat
  BY DEF OrderInv
<1>3. CASE z = stored
  BY <1>1, <1>2, <1>3 DEF StoreInv
<1>4. CASE z = Append(stored, t)
  <2>1. /\ z \in Seq(StoredTurn) /\ Len(z) = Len(stored) + 1 /\ Len(stored) \in Nat
        /\ \A i \in 1..Len(stored) : z[i] = stored[i]
        /\ z[Len(stored) + 1] = t
        /\ \A i \in 1..Len(stored) + 1 : i # Len(stored) + 1 => i \in 1..Len(stored)
    BY <1>4, AppendIs DEF StoreInv
  <2>2. \A k \in 1..Len(z) : z[k].by <= at
    BY <1>1, <1>2, <2>1
  <2>3. ASSUME NEW i \in 1..Len(z), NEW j \in 1..Len(z), i < j
        PROVE  z[i].by < z[j].by
    <3>1. i \in 1..Len(stored) /\ z[i] = stored[i]
      BY <2>1, <2>3
    <3>2. CASE j = Len(stored) + 1
      BY <1>1, <2>1, <3>1, <3>2
    <3>3. CASE j \in 1..Len(stored)
      BY <2>1, <2>3, <3>1, <3>3 DEF StoreInv, Increasing
    <3> QED BY <2>1, <3>2, <3>3
  <2>4. \A m : m # at => TurnsOf(z, m) = TurnsOf(stored, m)
    BY <1>4, TurnsAppend DEF StoreInv
  <2>5. Increasing(z)
    BY <2>3 DEF Increasing
  <2> QED BY <2>1, <2>2, <2>4, <2>5
<1> QED BY <1>3, <1>4

LEMMA AnswerKeeps ==
  ASSUME OrderInv, StoreInv, state \in Busy, NEW frame \in Sent, frame.to = at,
         at' = at, inbox' = inbox, out' = Append(out, frame), NEW t \in StoredTurn, t.by = at,
         \/ frame.kind \in {"error", "chunk"} /\ stored' = stored
         \/ /\ frame.kind = "error" /\ stored' = Append(stored, t)
            /\ t.whole => inbox[at] = "once" \/ t.text = Told(out, at) \o frame.text
         \/ /\ frame.kind \in {"done", "reply"}
            /\ t.text = Told(out, at) \o frame.text
            /\ t = Turn(at, t.text)
            /\ stored' = Append(stored, t),
         IF Final(frame) THEN state' \notin Busy
         ELSE state = "streaming" /\ state' = state /\ reply' = reply \o frame.text
  PROVE  StoreInv'
<1>1. /\ stored' \in Seq(StoredTurn) /\ Increasing(stored')
      /\ \A k \in 1..Len(stored') : stored'[k].by <= at
      /\ \A m : m # at => TurnsOf(stored', m) = TurnsOf(stored, m)
  BY StoredGrows
<1>2. TurnsOf(stored, at) = {}
  <2>1. \A k \in 1..Len(stored) : stored[k].by # at
    <3>1. \A k \in 1..Len(stored) : stored[k] \in StoredTurn
      BY DEF StoreInv
    <3> QED BY <3>1 DEF StoreInv, StoredTurn, OrderInv
  <2> QED BY <2>1, NoTurns DEF StoreInv
<1>3. /\ Len(out') = Len(out) + 1 /\ Len(out) \in Nat
      /\ \A i \in 1..Len(out) : out'[i] = out[i]
      /\ out'[Len(out) + 1] = frame
      /\ \A i \in 1..Len(out') : i # Len(out) + 1 => i \in 1..Len(out)
  BY AppendIs DEF OrderInv
<1>4. Told(out', at) = Told(out, at) \o frame.text
  BY SaysAppend DEF OrderInv
<1>5. \A m \in Nat : m > at => Told(out', m) = <<>>
  <2>1. \A m \in Nat : m > at => m # at
    BY DEF OrderInv
  <2> QED BY <2>1, SaysAppend DEF OrderInv, StoreInv
<1>6. ASSUME NEW i \in 1..Len(out')
      PROVE  Kept(out'[i], out', stored', inbox)
  <2>1. CASE i \in 1..Len(out)
    <3> DEFINE f == out[i]
    <3>1. Kept(f, out, stored, inbox)
      BY <2>1 DEF StoreInv
    <3>2. Final(f) => f.to # at
      BY <2>1 DEF OrderInv
    <3> HIDE DEF f
    <3>3. Kept(f, out', stored', inbox)
      BY <1>1, <3>1, <3>2, KeptAlong DEF OrderInv
    <3> QED BY <1>3, <2>1, <3>3 DEF f
  <2>2. CASE i = Len(out) + 1
    <3>1. CASE frame.kind \in {"error", "chunk"} /\ stored' = stored
      BY <1>2, <1>3, <2>2, <3>1 DEF Kept
    <3>2. CASE frame.kind \in {"done", "reply"} /\ stored' = Append(stored, t)
                /\ t.text = Told(out, at) \o frame.text /\ t = Turn(at, t.text)
      <4>1. TurnsOf(stored', at) = {t}
        <5>1. TurnsOf(stored', at) = TurnsOf(stored, at) \cup {t}
          BY <3>2, TurnsAppend DEF StoreInv
        <5> QED BY <1>2, <5>1
      <4>2. t = Turn(at, Told(out', at))
        BY <1>4, <3>2
      <4> QED BY <1>3, <2>2, <3>2, <4>1, <4>2 DEF Kept
    <3>3. CASE /\ frame.kind = "error" /\ stored' = Append(stored, t)
               /\ t.whole => inbox[at] = "once" \/ t.text = Told(out, at) \o frame.text
      <4>1. TurnsOf(stored', at) = TurnsOf(stored, at) \cup {t}
        BY <3>3, TurnsAppend DEF StoreInv
      <4> QED BY <1>2, <1>3, <1>4, <2>2, <3>3, <4>1 DEF Kept
    <3> QED BY <3>1, <3>2, <3>3
  <2> QED BY <1>3, <2>1, <2>2
<1>7. state' \in {"once", "stream"} => Told(out', at') = <<>>
  BY DEF Busy
<1>8. state' = "streaming" => Told(out', at') = reply'
  BY <1>4 DEF Busy, StoreInv
<1>9. \A k \in 1..Len(stored') : state' \in Busy => stored'[k].by < at
  <2>1. CASE stored' = stored
    BY <2>1 DEF StoreInv
  <2>2. CASE frame.kind \in {"done", "reply", "error"}
    BY <2>2 DEF Final
  <2> QED BY <2>1, <2>2
<1> QED BY <1>1, <1>5, <1>6, <1>7, <1>8, <1>9 DEF StoreInv

\* The client is gone or reads no more: the turn may be stored, but nothing more is sent.
LEMMA DropKeeps ==
  ASSUME OrderInv, StoreInv, state \in Busy, state' \notin Busy,
         at' = at, inbox' = inbox, out' = out,
         NEW t \in StoredTurn, t.by = at, stored' = stored \/ stored' = Append(stored, t)
  PROVE  StoreInv'
<1>1. /\ stored' \in Seq(StoredTurn) /\ Increasing(stored')
      /\ \A k \in 1..Len(stored') : stored'[k].by <= at
      /\ \A m : m # at => TurnsOf(stored', m) = TurnsOf(stored, m)
  BY StoredGrows
<1>2. ASSUME NEW i \in 1..Len(out')
      PROVE  Kept(out'[i], out', stored', inbox)
  <2> DEFINE f == out[i]
  <2>1. Kept(f, out, stored, inbox)
    BY <1>2 DEF StoreInv
  <2>2. Final(f) => f.to # at
    BY <1>2 DEF OrderInv
  <2> HIDE DEF f
  <2>3. Kept(f, out, stored', inbox)
    BY <1>1, <2>1, <2>2 DEF Kept, Final
  <2> QED BY <2>3 DEF f
<1> QED BY <1>1, <1>2 DEF StoreInv, Busy

\* The next message: nothing was told or stored for it before.
LEMMA TakenKeeps ==
  ASSUME OrderInv, StoreInv, at' = at + 1, inbox' = inbox, stored' = stored,
         state' # "streaming",
         NEW frame \in Sent, frame.to = at + 1, frame.text = <<>>,
         frame.kind \in {"error", "pong"},
         out' = out \/ out' = Append(out, frame)
  PROVE  StoreInv'
<1>1. at \in Nat /\ at' \in Nat /\ \A m \in Nat : m > at' => m > at
  BY DEF OrderInv
<1>2. \A k \in 1..Len(stored) : stored[k].by \in Nat /\ stored[k].by <= at
  <2>1. \A k \in 1..Len(stored) : stored[k] \in StoredTurn
    BY DEF StoreInv
  <2> QED BY <2>1 DEF StoreInv, StoredTurn
<1>3. \A k \in 1..Len(stored) : stored[k].by < at'
  BY <1>1, <1>2
<1>4. \A m \in Nat : m > at => Told(out', m) = <<>>
  <2>1. CASE out' = out
    BY <2>1 DEF StoreInv
  <2>2. CASE out' = Append(out, frame)
    <3>1. \A m : Told(out', m) \in {Told(out, m), Told(out, m) \o <<>>}
      BY <2>2, SaysAppend DEF OrderInv
    <3>2. <<>> \o <<>> = <<>>
      OBVIOUS
    <3> QED BY <3>1, <3>2 DEF StoreInv
  <2> QED BY <2>1, <2>2
<1>5. at' > at
  BY <1>1
<1>6. ASSUME NEW i \in 1..Len(out')
      PROVE  Kept(out'[i], out', stored, inbox)
  <2>1. CASE out' = out
    BY <1>6, <2>1 DEF StoreInv
  <2>2. CASE out' = Append(out, frame)
    <3>1. /\ Len(out') = Len(out) + 1 /\ Len(out) \in Nat
          /\ \A j \in 1..Len(out) : out'[j] = out[j]
          /\ out'[Len(out) + 1] = frame
          /\ \A j \in 1..Len(out') : j # Len(out) + 1 => j \in 1..Len(out)
      BY <2>2, AppendIs DEF OrderInv
    <3>2. CASE i \in 1..Len(out)
      <4> DEFINE f == out[i]
      <4>1. Kept(f, out, stored, inbox)
        BY <3>2 DEF StoreInv
      <4>2. f.to # at + 1
        <5>1. out[i] \in Sent /\ out[i].to <= at
          BY <3>2 DEF OrderInv
        <5>2. out[i].to \in Nat
          BY <5>1, SentIs
        <5> QED BY <1>1, <5>1, <5>2
      <4> HIDE DEF f
      <4>3. Kept(f, out', stored, inbox)
        BY <2>2, <4>1, <4>2, KeptAlong DEF OrderInv
      <4> QED BY <3>1, <3>2, <4>3 DEF f
    <3>3. CASE i = Len(out) + 1
      <4>1. TurnsOf(stored, at + 1) = {}
        <5>1. \A k \in 1..Len(stored) : stored[k].by # at + 1
          BY <1>2, <1>3, <1>1
        <5> DEFINE m == at + 1
        <5> HIDE DEF m
        <5>2. \A k \in 1..Len(stored) : stored[k].by # m
          BY <5>1 DEF m
        <5>3. TurnsOf(stored, m) = {}
          BY <5>2, NoTurns DEF StoreInv
        <5> QED BY <5>3 DEF m
      <4>2. out'[i] = frame /\ frame.kind \notin {"done", "reply"}
        BY <3>1, <3>3
      <4> QED BY <4>1, <4>2 DEF Kept
    <3> QED BY <1>6, <3>1, <3>2, <3>3
  <2> QED BY <2>1, <2>2
<1>7. \A k \in 1..Len(stored') : stored'[k].by <= at'
  BY <1>1, <1>2
<1>8. Told(out', at') = <<>>
  BY <1>1, <1>4, <1>5
<1> QED BY <1>1, <1>3, <1>4, <1>6, <1>7, <1>8 DEF StoreInv

\* A reply is streamed, or comes whole, as its message asked.
AskedInv ==
  /\ state = "once" => inbox[at] = "once"
  /\ state \in {"stream", "streaming"} => inbox[at] = "stream"

LEMMA AskedStep == AskedInv /\ [StreamNext]_streamVars => AskedInv'
<1> SUFFICES ASSUME AskedInv, [StreamNext]_streamVars
             PROVE  AskedInv'
  OBVIOUS
<1>1. ASSUME at' = at, inbox' = inbox, state' = state \/ state' \notin Busy
      PROVE  AskedInv'
  BY <1>1 DEF AskedInv, Busy
<1>2. CASE Take
  BY <1>2 DEF Take, Send, AskedInv, connection
<1>3. CASE Hangup \/ Leave
  BY <1>1, <1>3 DEF Hangup, Leave, Busy, connection
<1>4. CASE \/ Fails \/ Breaks \/ Complete \/ Spoilt
           \/ \E text \in Texts : Reply(text)
  <2>1. at' = at /\ inbox' = inbox
    BY <1>4 DEF Fails, Breaks, Complete, Spoilt, Reply, connection
  <2>2. state' \in {"recv", "closed", "stuck"}
    BY <1>4 DEF Fails, Breaks, Complete, Spoilt, Reply, Send, Rest
  <2> QED BY <1>1, <2>1, <2>2 DEF Busy
<1>5. CASE Chunk
  <2>1. at' = at /\ inbox' = inbox /\ state = "streaming"
        /\ state' \in {"streaming", "closed", "stuck"}
    BY <1>5 DEF Chunk, Send, connection
  <2> QED BY <1>1, <2>1 DEF Busy
<1>6. ASSUME NEW b \in Bodies, Begin(b)
      PROVE  AskedInv'
  BY <1>6 DEF Begin, AskedInv, connection
<1>7. ASSUME NEW n \in 1..Len(wire), Arrive(n)
      PROVE  AskedInv'
  BY <1>1, <1>7 DEF Arrive, connection
<1>8. CASE UNCHANGED streamVars
  BY <1>1, <1>8 DEF streamVars
<1> QED BY <1>2, <1>3, <1>4, <1>5, <1>6, <1>7, <1>8 DEF StreamNext, Respond

LEMMA StoreStep ==
  TextInv /\ OrderInv /\ AskedInv /\ StoreInv /\ [StreamNext]_streamVars => StoreInv'
<1> SUFFICES ASSUME TextInv, OrderInv, AskedInv, StoreInv, [StreamNext]_streamVars
             PROVE  StoreInv'
  OBVIOUS
<1>0. at \in Nat
  BY DEF OrderInv
<1>q. ASSUME at' = at, inbox' = inbox, out' = out, stored' = stored, reply' = reply,
             state' = state \/ state' \notin Busy
      PROVE  StoreInv'
  BY <1>q DEF StoreInv, Busy
<1> DEFINE error == Frame("error", <<>>)
           done == Frame("done", <<>>)
           turn(text) == Turn(at, text)
<1>a. error \in Sent /\ error.to = at /\ Final(error) /\ error.kind = "error"
      /\ error.text = <<>>
  BY <1>0, NoText, FrameIs DEF Kinds
<1>b. done \in Sent /\ done.to = at /\ Final(done) /\ done.kind = "done" /\ done.text = <<>>
  BY <1>0, NoText, FrameIs DEF Kinds
<1>c. ASSUME NEW text \in Seq(Nat)
      PROVE  turn(text) \in StoredTurn /\ turn(text).by = at /\ turn(text).text = text
             /\ turn(text) = Turn(at, text)
  BY <1>0, <1>c, TurnIs
<1>d. \A text \in Seq(Nat) : text \o <<>> = text /\ <<>> \o text = text
  OBVIOUS
<1>e. \E t \in StoredTurn : t.by = at
  BY <1>c, NoText
\* What an append that fails has stored is no more than was sent.
<1>f. ASSUME NEW text \in Seq(Nat), AppendFails(text),
             inbox[at] = "once" \/ text = Told(out, at)
      PROVE  \E t \in StoredTurn :
               /\ t.by = at /\ (t.whole => inbox[at] = "once" \/ t.text = Told(out, at))
               /\ stored' = stored \/ stored' = Append(stored, t)
  BY <1>0, <1>f, FailureStores
<1>g. ASSUME NEW t \in StoredTurn, t.by = at,
             t.whole => inbox[at] = "once" \/ t.text = Told(out, at),
             stored' = stored \/ stored' = Append(stored, t),
             state \in Busy, Send(error, Rest), at' = at, inbox' = inbox
      PROVE  StoreInv'
  <2>1. Rest \notin Busy
    BY DEF Rest, Busy
  <2>2. CASE out' = Append(out, error) /\ state' = Rest
    <3>1. Told(out, at) \o error.text = Told(out, at)
      <4>1. Told(out, at) \in Seq(Nat)
        BY <1>a, SaysAppend DEF OrderInv
      <4> QED BY <1>a, <1>d, <4>1
    <3> QED BY <1>a, <1>g, <2>1, <2>2, <3>1, AnswerKeeps
  <2>3. CASE out' = out /\ state' \in {"stuck", "closed"}
    BY <1>g, <2>3, DropKeeps DEF Busy
  <2> QED BY <1>g, <2>2, <2>3 DEF Send
<1> HIDE DEF error, done, turn
<1>1. CASE Take
  <2> DEFINE answer(kind) == [to |-> at + 1, kind |-> kind, text |-> <<>>]
             Ok(frame) == /\ frame \in Sent /\ frame.to = at + 1 /\ frame.text = <<>>
                          /\ frame.kind \in {"error", "pong"}
  <2>1. at' = at + 1 /\ stored' = stored /\ inbox' = inbox
    BY <1>1 DEF Take, connection
  <2>2. Ok(answer("error")) /\ Ok(answer("pong"))
    <3> DEFINE m == at + 1
    <3>1. m \in Nat
      BY <1>0
    <3> HIDE DEF m
    <3>2. Ok(answer("error"))
      BY <3>1, AnswerIs DEF Kinds, m
    <3>3. Ok(answer("pong"))
      BY <3>1, AnswerIs DEF Kinds, m
    <3> QED BY <3>2, <3>3
  <2>3. /\ state' # "streaming"
        /\ out' = out \/ out' = Append(out, answer("error")) \/ out' = Append(out, answer("pong"))
    BY <1>1 DEF Take, Send
  <2> HIDE DEF answer
  <2> QED BY <2>1, <2>2, <2>3, TakenKeeps
<1>2. CASE Hangup
  <2>1. at' = at /\ inbox' = inbox /\ out' = out /\ stored' = stored /\ reply' = reply
        /\ state' = "closed"
    BY <1>2 DEF Hangup, connection, stream
  <2> QED BY <1>q, <2>1 DEF Busy
<1>22. CASE Leave
  <2>1. at' = at /\ inbox' = inbox /\ out' = out /\ reply' = reply
    BY <1>22 DEF Leave, stream
  <2>2. CASE stored' = stored /\ state' \in {"closed", "recv", state}
    BY <1>q, <2>1, <2>2 DEF Busy
  <2>3. CASE /\ state \in {"once", "streaming"} /\ state' = "closed"
             /\ \E text \in Seq(Nat) : AppendFails(text)
    <3>1. PICK text \in Seq(Nat) : AppendFails(text)
      BY <2>3
    <3>2. PICK t \in StoredTurn : t.by = at /\ (stored' = stored \/ stored' = Append(stored, t))
      BY <1>0, <3>1, FailureStores
    <3> QED BY <2>1, <2>3, <3>2, DropKeeps DEF Busy
  <2>4. \A text \in Texts : text \in Seq(Nat)
    BY StreamAssumption
  <2>5. reply \in Seq(Nat)
    BY DEF TextInv
  <2> QED BY <1>22, <2>2, <2>3, <2>4, <2>5 DEF Leave
<1>3. ASSUME NEW text \in Texts, Reply(text)
      PROVE  StoreInv'
  <2>1. text \in Seq(Nat)
    BY StreamAssumption
  <2> DEFINE whole == Frame("reply", text)
             t == turn(text)
  <2>2. whole \in Sent /\ whole.to = at /\ Final(whole) /\ whole.kind = "reply"
        /\ whole.text = text
    BY <1>0, <2>1, FrameIs DEF Kinds
  <2>3. t \in StoredTurn /\ t.by = at /\ t.text = text /\ t = Turn(at, text)
    BY <1>c, <2>1
  <2> HIDE DEF whole
  <2>4. state = "once" /\ Send(whole, Rest) /\ at' = at /\ inbox' = inbox
        /\ stored' = Append(stored, t)
    BY <1>3 DEF Reply, connection, whole, turn
  <2> HIDE DEF t
  <2>5. Told(out, at) \o whole.text = text
    BY <1>d, <2>1, <2>2, <2>4 DEF StoreInv
  <2>6. state \in Busy /\ Rest \notin Busy
    BY <2>4 DEF Busy, Rest
  <2>7. CASE out' = Append(out, whole) /\ state' = Rest
    BY <2>2, <2>3, <2>4, <2>5, <2>6, <2>7, AnswerKeeps
  <2>8. CASE out' = out /\ state' \in {"stuck", "closed"}
    BY <2>3, <2>4, <2>6, <2>8, DropKeeps DEF Busy
  <2> QED BY <2>4, <2>7, <2>8 DEF Send
<1>4. CASE Fails \/ Breaks \/ Spoilt
  <2>1. state \in Busy /\ Send(error, Rest) /\ at' = at /\ inbox' = inbox
    BY <1>4 DEF Fails, Breaks, Spoilt, connection, Busy, error
  <2>2. \/ stored' = stored
        \/ state = "once" /\ \E text \in Texts : AppendFails(text)
        \/ state = "streaming" /\ AppendFails(reply)
    BY <1>4 DEF Fails, Breaks, Spoilt
  <2>3. CASE stored' = stored
    <3>1. PICK text \in Seq(Nat) : text = Told(out, at)
      BY <1>a, SaysAppend DEF OrderInv
    <3>2. turn(text) \in StoredTurn /\ turn(text).by = at /\ turn(text).text = text
      BY <1>c
    <3> DEFINE t == turn(text)
    <3>3. t \in StoredTurn /\ t.by = at /\ t.text = Told(out, at)
      BY <3>1, <3>2
    <3> HIDE DEF t
    <3> QED BY <1>g, <2>1, <2>3, <3>3
  <2>4. CASE state = "once" /\ \E text \in Texts : AppendFails(text)
    <3>1. PICK text \in Texts : AppendFails(text)
      BY <2>4
    <3>2. text \in Seq(Nat) /\ inbox[at] = "once"
      BY <2>4, StreamAssumption DEF AskedInv
    <3> QED BY <1>f, <1>g, <2>1, <3>1, <3>2
  <2>5. CASE state = "streaming" /\ AppendFails(reply)
    <3>1. reply \in Seq(Nat) /\ reply = Told(out, at)
      BY <2>5 DEF TextInv, StoreInv
    <3> QED BY <1>f, <1>g, <2>1, <2>5, <3>1
  <2> QED BY <2>2, <2>3, <2>4, <2>5
<1>5. CASE Complete
  <2> DEFINE t == turn(reply)
  <2>1. t \in StoredTurn /\ t.by = at /\ t.text = reply /\ t = Turn(at, reply)
    BY <1>c DEF TextInv
  <2>2. state = "streaming" /\ Send(done, Rest) /\ at' = at /\ inbox' = inbox
        /\ stored' = Append(stored, t)
    BY <1>5 DEF Complete, connection, done, turn
  <2> HIDE DEF t
  <2>3. Told(out, at) \o done.text = reply
    BY <1>b, <1>d, <2>2 DEF StoreInv, TextInv
  <2>4. state \in Busy /\ Rest \notin Busy
    BY <2>2 DEF Busy, Rest
  <2>5. CASE out' = Append(out, done) /\ state' = Rest
    BY <1>b, <2>1, <2>2, <2>3, <2>4, <2>5, AnswerKeeps
  <2>6. CASE out' = out /\ state' \in {"stuck", "closed"}
    BY <2>1, <2>2, <2>4, <2>6, DropKeeps DEF Busy
  <2> QED BY <2>2, <2>5, <2>6 DEF Send
<1>6. CASE Chunk
  <2>1. at' = at /\ stored' = stored /\ state = "streaming" /\ reply' = reply \o Delta(Line)
        /\ inbox' = inbox
    BY <1>6 DEF Chunk, connection
  <2>2. Delta(Line) \in Seq(Nat)
    BY <1>6, LineType, DeltaType DEF Chunk, Line, TextInv
  <2>3. CASE out' = out /\ state' = state /\ Delta(Line) = <<>>
    <3>1. reply' = reply
      BY <1>d, <2>1, <2>3 DEF TextInv
    <3> QED BY <1>q, <2>1, <2>3, <3>1
  <2>4. CASE Send(Frame("chunk", Delta(Line)), "streaming")
    <3> DEFINE chunk == Frame("chunk", Delta(Line))
    <3>1. chunk \in Sent /\ chunk.to = at /\ ~Final(chunk) /\ chunk.kind = "chunk"
          /\ chunk.text = Delta(Line)
      BY <1>0, <2>2, FrameIs DEF Kinds
    <3>2. Send(chunk, "streaming")
      BY <2>4
    <3> HIDE DEF chunk
    <3>3. PICK t \in StoredTurn : t.by = at
      BY <1>e
    <3>4. state \in Busy
      BY <2>1 DEF Busy
    <3>5. CASE out' = Append(out, chunk) /\ state' = "streaming"
      <4>1. reply' = reply \o chunk.text
        BY <2>1, <3>1
      <4> QED BY <2>1, <3>1, <3>3, <3>4, <3>5, <4>1, AnswerKeeps
    <3>6. CASE out' = out /\ state' \in {"stuck", "closed"}
      BY <2>1, <3>3, <3>4, <3>6, DropKeeps DEF Busy
    <3> QED BY <3>2, <3>5, <3>6 DEF Send
  <2> QED BY <1>6, <2>3, <2>4 DEF Chunk
<1>7. ASSUME NEW b \in Bodies, Begin(b)
      PROVE  StoreInv'
  <2>1. state = "stream" /\ state' = "streaming" /\ reply' = <<>> /\ at' = at /\ out' = out
        /\ stored' = stored /\ inbox' = inbox
    BY <1>7 DEF Begin, connection
  <2> QED BY <2>1 DEF StoreInv, Busy
<1>8. ASSUME NEW n \in 1..Len(wire), Arrive(n)
      PROVE  StoreInv'
  BY <1>8, <1>q DEF Arrive, connection
<1>9. CASE UNCHANGED streamVars
  BY <1>9, <1>q DEF streamVars
<1> QED
  BY <1>1, <1>2, <1>22, <1>3, <1>4, <1>5, <1>6, <1>7, <1>8, <1>9 DEF StreamNext, Respond

LEMMA StreamInits == StreamInit => TextInv /\ OrderInv /\ AskedInv /\ StoreInv
<1>1. <<>> \in Seq(Symbols) /\ <<>> \in Seq(Marks) /\ <<>> \in Seq(Nat) /\ <<>> \in Seq(Sent)
      /\ <<>> \in Seq(StoredTurn) /\ Len(<<>>) = 0
  OBVIOUS
<1>2. ASSUME StreamInit
      PROVE  TextInv /\ OrderInv /\ AskedInv
  BY <1>1, <1>2 DEF StreamInit, TextInv, OrderInv, AskedInv, AnsweredInOrder, Busy
<1>3. ASSUME StreamInit, NEW m
      PROVE  Told(out, m) = <<>>
  <2>1. Parts(out, m) = <<>>
    BY <1>1, <1>3 DEF StreamInit, Parts
  <2> QED BY <2>1, FlattenEmpty DEF Told
<1>4. ASSUME StreamInit
      PROVE  StoreInv
  <2>1. /\ Len(out) = 0 /\ Len(stored) = 0 /\ state = "recv" /\ stored \in Seq(StoredTurn)
    BY <1>1, <1>4 DEF StreamInit
  <2>2. \A m : Told(out, m) = <<>>
    BY <1>3, <1>4
  <2> QED BY <2>1, <2>2 DEF StoreInv, Busy, Increasing
<1> QED BY <1>2, <1>4

-----------------------------------------------------------------------------
(* The end of a reply, and cuts that do not show *)

LEMMA DecodeWhole ==
  ASSUME NEW s \in Seq(Symbols), ~Has(Decode(s), "cut")
  PROVE  Decode(s) = s
<1>1. Decode(s) \in Seq(Marks) /\ Len(Decode(s)) = Len(s) /\ Len(s) \in Nat
  BY DecodeType
<1>2. ASSUME NEW i \in 1..Len(s)
      PROVE  Decode(s)[i] = s[i]
  <2>1. Decode(s)[i] \in {Cut, s[i]}
    BY DEF Decode
  <2>2. Decode(s)[i][1] # "cut"
    BY <1>1 DEF Has
  <2>3. Cut[1] = "cut"
    BY DEF Cut
  <2> QED BY <2>1, <2>2, <2>3
<1> DEFINE d == Decode(s)
<1> HIDE DEF d
<1>3. d \in Seq(Marks) /\ Len(d) = Len(s) /\ \A i \in 1..Len(s) : d[i] = s[i]
  BY <1>1, <1>2 DEF d
<1>4. d = s
  BY <1>3
<1> QED BY <1>4 DEF d

LEMMA ConcatAssoc ==
  ASSUME NEW S, NEW a \in Seq(S), NEW b \in Seq(S), NEW c \in Seq(S)
  PROVE  (a \o b) \o c = a \o (b \o c)
OBVIOUS

LEMMA PartIs ==
  ASSUME NEW S, NEW b \in Seq(S), NEW k \in 0..Len(b), NEW l \in k..Len(b)
  PROVE  /\ SubSeq(b, k + 1, l) \in Seq(S) /\ Len(SubSeq(b, k + 1, l)) = l - k
         /\ \A i \in 1..(l - k) : SubSeq(b, k + 1, l)[i] = b[k + i]
OBVIOUS

LEMMA SameSeq ==
  ASSUME NEW S, NEW a \in Seq(S), NEW b \in Seq(S), Len(a) = Len(b),
         \A i \in 1..Len(a) : a[i] = b[i]
  PROVE  a = b
OBVIOUS

LEMMA Rejoin ==
  ASSUME NEW S, NEW s \in Seq(S), NEW n \in 0..Len(s)
  PROVE  SubSeq(s, 1, n) \o SubSeq(s, n + 1, Len(s)) = s
<1> DEFINE p == SubSeq(s, 1, n)
           q == SubSeq(s, n + 1, Len(s))
           pq == p \o q
<1>0. Len(s) \in Nat /\ Len(s) \in n..Len(s)
  OBVIOUS
<1>1. p \in Seq(S) /\ Len(p) = n /\ \A i \in 1..n : p[i] = s[i]
  OBVIOUS
<1>2. q \in Seq(S) /\ Len(q) = Len(s) - n /\ \A i \in 1..(Len(s) - n) : q[i] = s[n + i]
  BY <1>0, PartIs
<1> HIDE DEF p, q
<1>3. /\ pq \in Seq(S) /\ Len(pq) = Len(p) + Len(q)
      /\ \A i \in 1..Len(p) : pq[i] = p[i]
      /\ \A i \in 1..(Len(p) + Len(q)) : i \notin 1..Len(p) =>
           i - Len(p) \in 1..Len(q) /\ pq[i] = q[i - Len(p)]
  BY <1>1, <1>2, ConcatIs
<1> HIDE DEF pq
<1>4. Len(pq) = Len(s)
  BY <1>0, <1>1, <1>2, <1>3
<1>5. ASSUME NEW i \in 1..Len(pq)
      PROVE  pq[i] = s[i]
  <2>1. CASE i \in 1..n
    BY <1>1, <1>3, <2>1
  <2>2. CASE i \notin 1..n
    <3>1. i - n \in 1..(Len(s) - n) /\ pq[i] = q[i - n] /\ n + (i - n) = i
      BY <1>0, <1>1, <1>2, <1>3, <1>4, <2>2
    <3> QED BY <1>2, <3>1
  <2> QED BY <2>1, <2>2
<1>6. pq = s
  BY <1>3, <1>4, <1>5, SameSeq
<1> QED BY <1>6 DEF pq, p, q

\* Where a begins at k + 1 in b.
LEMMA ReadOn ==
  ASSUME NEW S, NEW b \in Seq(S), NEW k \in 0..Len(b), NEW a \in Seq(S), NEW w \in Seq(S),
         a \o w = SubSeq(b, k + 1, Len(b))
  PROVE  /\ Len(a) + Len(w) = Len(b) - k
         /\ \A i \in 1..Len(a) : k + i \in 1..Len(b) /\ b[k + i] = a[i]
<1>1. /\ Len(a \o w) = Len(a) + Len(w) /\ Len(a) \in Nat /\ Len(w) \in Nat
      /\ \A i \in 1..Len(a) : (a \o w)[i] = a[i]
  BY ConcatIs
<1>2. Len(b) \in Nat /\ Len(b) \in k..Len(b)
  OBVIOUS
<1> DEFINE r == SubSeq(b, k + 1, Len(b))
<1>3. Len(r) = Len(b) - k /\ \A i \in 1..(Len(b) - k) : r[i] = b[k + i]
  BY <1>2, PartIs
<1>4. a \o w = r
  OBVIOUS
<1> HIDE DEF r
<1>5. Len(a) + Len(w) = Len(b) - k
  BY <1>1, <1>3, <1>4
<1>6. \A i \in 1..Len(a) : i \in 1..(Len(b) - k) /\ k + i \in 1..Len(b)
  BY <1>1, <1>2, <1>5
<1> QED BY <1>1, <1>3, <1>4, <1>5, <1>6

\* a is in b after its first k elements.
Follows(b, k, a) == k + Len(a) <= Len(b) /\ \A i \in 1..Len(a) : b[k + i] = a[i]

UpTo(s, n) == SubSeq(s, 1, n)
From(s, n) == SubSeq(s, n + 1, Len(s))

LEMMA PrefixOn ==
  ASSUME NEW b \in Seq(Marks), NEW k \in 0..Len(b), NEW a \in Seq(Marks), NEW n \in 1..Len(a),
         Follows(b, k, a)
  PROVE  UpTo(b, k + n) = UpTo(b, k) \o UpTo(a, n)
<1> USE DEF Follows, UpTo
<1> DEFINE p == SubSeq(b, 1, k)
           q == SubSeq(a, 1, n)
           l == SubSeq(b, 1, k + n)
<1>0. Len(a) \in Nat /\ Len(b) \in Nat /\ k + n \in 0..Len(b) /\ n \in 0..Len(a)
  OBVIOUS
<1>1. p \in Seq(Marks) /\ Len(p) = k /\ \A i \in 1..k : p[i] = b[i]
  OBVIOUS
<1>2. q \in Seq(Marks) /\ Len(q) = n /\ \A i \in 1..n : q[i] = a[i]
  OBVIOUS
<1>3. l \in Seq(Marks) /\ Len(l) = k + n /\ \A i \in 1..(k + n) : l[i] = b[i]
  BY <1>0
<1> HIDE DEF p, q, l
<1>4. /\ p \o q \in Seq(Marks) /\ Len(p \o q) = k + n
      /\ \A i \in 1..k : (p \o q)[i] = p[i]
      /\ \A i \in 1..(k + n) : i \notin 1..k => i - k \in 1..n /\ (p \o q)[i] = q[i - k]
  <2>1. /\ p \o q \in Seq(Marks) /\ Len(p \o q) = Len(p) + Len(q)
        /\ \A i \in 1..Len(p) : (p \o q)[i] = p[i]
        /\ \A i \in 1..(Len(p) + Len(q)) : i \notin 1..Len(p) =>
             i - Len(p) \in 1..Len(q) /\ (p \o q)[i] = q[i - Len(p)]
    BY <1>1, <1>2, ConcatIs
  <2> QED BY <1>1, <1>2, <2>1
<1>5. ASSUME NEW i \in 1..(k + n)
      PROVE  l[i] = (p \o q)[i]
  <2>1. CASE i \in 1..k
    BY <1>1, <1>3, <1>4, <2>1
  <2>2. CASE i \notin 1..k
    <3>1. i - k \in 1..n /\ (p \o q)[i] = q[i - k]
      BY <1>4, <2>2
    <3>2. i - k \in 1..Len(a) /\ k + (i - k) = i
      BY <1>0, <3>1
    <3> DEFINE j == i - k
    <3> HIDE DEF j
    <3>3. b[k + j] = a[j] /\ q[j] = a[j]
      BY <1>2, <3>1, <3>2 DEF j
    <3> QED BY <1>3, <3>1, <3>2, <3>3 DEF j
  <2> QED BY <2>1, <2>2
<1> DEFINE r == p \o q
<1>6. r \in Seq(Marks) /\ Len(r) = k + n /\ \A i \in 1..(k + n) : l[i] = r[i]
  BY <1>4, <1>5
<1> HIDE DEF r
<1>7. l = r
  BY <1>3, <1>6
<1> QED BY <1>7 DEF l, p, q, r

LEMMA SuffixOn ==
  ASSUME NEW b \in Seq(Marks), NEW k \in 0..Len(b), NEW a \in Seq(Marks), NEW w \in Seq(Marks),
         a \o w = From(b, k), NEW n \in 1..Len(a)
  PROVE  From(a, n) \o w = From(b, k + n)
<1> USE DEF From
<1> DEFINE p == SubSeq(a, 1, n)
           q == SubSeq(a, n + 1, Len(a))
           r == SubSeq(b, k + 1, Len(b))
           l == SubSeq(b, k + n + 1, Len(b))
<1>0. Len(a) + Len(w) = Len(b) - k /\ Len(a) \in Nat /\ Len(w) \in Nat /\ Len(b) \in Nat
  <2>1. Len(a) + Len(w) = Len(b) - k
    BY ReadOn
  <2> QED BY <2>1
<1>1. k + n \in 0..Len(b) /\ Len(b) \in (k + n)..Len(b) /\ n \in 0..Len(a) /\ Len(a) \in n..Len(a)
      /\ Len(b) \in k..Len(b)
  BY <1>0
<1>2. q \in Seq(Marks) /\ Len(q) = Len(a) - n /\ \A i \in 1..(Len(a) - n) : q[i] = a[n + i]
  BY <1>1, PartIs
<1>3. r \in Seq(Marks) /\ \A i \in 1..(Len(b) - k) : r[i] = b[k + i]
  BY <1>1, PartIs
<1>4. l \in Seq(Marks) /\ Len(l) = Len(b) - (k + n)
      /\ \A i \in 1..(Len(b) - (k + n)) : l[i] = b[k + n + i]
  <2> DEFINE m == k + n
  <2> HIDE DEF m
  <2>1. m \in 0..Len(b) /\ Len(b) \in m..Len(b)
    BY <1>1 DEF m
  <2>2. /\ SubSeq(b, m + 1, Len(b)) \in Seq(Marks) /\ Len(SubSeq(b, m + 1, Len(b))) = Len(b) - m
        /\ \A i \in 1..(Len(b) - m) : SubSeq(b, m + 1, Len(b))[i] = b[m + i]
    BY <2>1, PartIs
  <2> QED BY <2>2 DEF m
<1>5. a \o w = r
  OBVIOUS
<1> HIDE DEF p, q, r, l
<1> DEFINE aw == a \o w
           qw == q \o w
<1>6. /\ \A i \in 1..Len(a) : aw[i] = a[i]
      /\ \A i \in 1..(Len(a) + Len(w)) : i \notin 1..Len(a) => aw[i] = w[i - Len(a)]
  BY ConcatIs
<1>7. /\ qw \in Seq(Marks) /\ Len(qw) = Len(q) + Len(w)
      /\ \A i \in 1..Len(q) : qw[i] = q[i]
      /\ \A i \in 1..(Len(q) + Len(w)) : i \notin 1..Len(q) => qw[i] = w[i - Len(q)]
  BY <1>2, ConcatIs
<1>8. aw = r
  BY <1>5
<1> HIDE DEF aw, qw
<1>9. Len(qw) = Len(l)
  BY <1>0, <1>2, <1>4, <1>7
<1>10. ASSUME NEW i \in 1..Len(l)
       PROVE  qw[i] = l[i]
  <2> DEFINE j == n + i
  <2>1. j \in 1..(Len(b) - k) /\ k + n + i = k + j /\ i \in 1..(Len(b) - (k + n))
        /\ j \in 1..(Len(a) + Len(w)) /\ j - Len(a) = i - Len(q)
        /\ (i \in 1..Len(q) <=> j \in 1..Len(a)) /\ i \in 1..(Len(q) + Len(w))
    BY <1>0, <1>2, <1>4
  <2> HIDE DEF j
  <2>2. l[i] = b[k + j] /\ b[k + j] = r[j]
    BY <1>3, <1>4, <2>1
  <2>3. CASE i \in 1..Len(q)
    <3>1. qw[i] = q[i] /\ q[i] = a[n + i] /\ aw[j] = a[j]
      BY <1>2, <1>6, <1>7, <2>1, <2>3
    <3> QED BY <1>8, <2>2, <3>1 DEF j
  <2>4. CASE i \notin 1..Len(q)
    BY <1>6, <1>7, <1>8, <2>1, <2>2, <2>4
  <2> QED BY <2>3, <2>4
<1>11. qw = l
  BY <1>4, <1>7, <1>9, <1>10, SameSeq
<1> QED BY <1>11 DEF qw, q, l

\* The line at the head of the buffer is the next one of the body.
LEMMA NextLine ==
  ASSUME NEW b \in Seq(Marks), NEW a \in Seq(Marks), NEW w \in Seq(Marks), NEW k \in LineEnds(b),
         a \o w = SubSeq(b, k + 1, Len(b)), Has(a, "newline"),
         ~Has(FirstLine(a), "[DONE]"), ~Has(FirstLine(a), "garbled")
  PROVE  \E l \in LineEnds(b) :
           /\ Delta(SubSeq(b, 1, l)) = Delta(SubSeq(b, 1, k)) \o Delta(FirstLine(a))
           /\ AfterLine(a) \o w = SubSeq(b, l + 1, Len(b))
<1>0. k \in 0..Len(b) /\ (\A i \in 1..k : b[i][1] \notin {"[DONE]", "garbled"})
  BY DEF LineEnds
<1>1. /\ Len(a) + Len(w) = Len(b) - k
      /\ \A i \in 1..Len(a) : k + i \in 1..Len(b) /\ b[k + i] = a[i]
  BY <1>0, ReadOn
<1>2. PICK n \in 1..Len(a) :
        /\ a[n][1] = "newline" /\ FirstLine(a) = SubSeq(a, 1, n - 1)
        /\ AfterLine(a) = SubSeq(a, n + 1, Len(a))
  BY FirstNewline
<1>3. Len(a) \in Nat /\ Len(w) \in Nat /\ Len(b) \in Nat /\ n - 1 \in 0..Len(a)
  OBVIOUS
<1>4. k + Len(a) <= Len(b)
  BY <1>0, <1>1, <1>3
<1> DEFINE e == k + n
<1>e. e = k + n
  OBVIOUS
<1>5. SubSeq(b, 1, e) = SubSeq(b, 1, k) \o SubSeq(a, 1, n)
  <2>1. Follows(b, k, a)
    BY <1>1, <1>4 DEF Follows
  <2>2. UpTo(b, k + n) = UpTo(b, k) \o UpTo(a, n)
    BY <1>0, <1>2, <2>1, PrefixOn
  <2> QED BY <2>2 DEF UpTo
<1>6. AfterLine(a) \o w = SubSeq(b, e + 1, Len(b))
  <2>1. a \o w = From(b, k)
    BY DEF From
  <2>2. From(a, n) \o w = From(b, k + n)
    BY <1>0, <1>2, <2>1, SuffixOn
  <2> QED BY <1>2, <2>2 DEF From
<1> HIDE DEF e
<1>7. a[n] \in Marks /\ SubSeq(a, 1, n) = SubSeq(a, 1, n - 1) \o <<a[n]>>
      /\ SubSeq(a, 1, n - 1) \in Seq(Marks) /\ <<a[n]>> \in Seq(Marks)
  OBVIOUS
<1> DEFINE p == SubSeq(b, 1, k)
           line == FirstLine(a)
           end == <<a[n]>>
<1>8. p \in Seq(Marks) /\ line \in Seq(Marks) /\ end \in Seq(Marks)
  BY <1>0, <1>2, <1>7, CutIsSeq
<1>9. Delta(end) = <<>>
  BY <1>2, <1>7, DeltaNothing
<1>10. SubSeq(b, 1, e) = p \o (line \o end)
  BY <1>2, <1>5, <1>7
<1>11. \A i \in 1..(n - 1) : a[i][1] \notin {"[DONE]", "garbled"}
  <2>1. Len(line) = n - 1 /\ \A i \in 1..(n - 1) : line[i] = a[i]
    BY <1>2
  <2> QED BY <2>1 DEF Has
<1> HIDE DEF p, line, end
<1>12. line \o end \in Seq(Marks)
  BY <1>8, ConcatIs
<1>13. Delta(p \o (line \o end)) = Delta(p) \o (Delta(line) \o Delta(end))
  <2> DEFINE rest == line \o end
  <2>1. Delta(rest) = Delta(line) \o Delta(end) /\ rest \in Seq(Marks)
    BY <1>8, <1>12, DeltaConcat
  <2> HIDE DEF rest
  <2>2. Delta(p \o rest) = Delta(p) \o Delta(rest)
    BY <1>8, <2>1, DeltaConcat
  <2> QED BY <2>1, <2>2 DEF rest
<1>14. Delta(line) \in Seq(Nat) /\ Delta(line) \o <<>> = Delta(line)
  <2>1. \A x \in Seq(Nat) : x \o <<>> = x
    OBVIOUS
  <2> QED BY <1>8, <2>1, DeltaType
<1>15. Delta(SubSeq(b, 1, e)) = Delta(p) \o Delta(line)
  BY <1>9, <1>10, <1>13, <1>14
<1>16. e \in LineEnds(b)
  <2>1. b[k + n] = a[n] /\ k + n \in 0..Len(b)
    BY <1>0, <1>1, <1>3
  <2>2. ASSUME NEW i \in 1..(k + n)
        PROVE  b[i][1] \notin {"[DONE]", "garbled"}
    <3>1. CASE i \in 1..k
      BY <1>0, <3>1
    <3>2. CASE i \notin 1..k
      <4> DEFINE j == i - k
      <4>1. j \in 1..n /\ k + j = i
        BY <1>0, <1>3, <3>2
      <4>2. j \in 1..Len(a) /\ (j # n => j \in 1..(n - 1))
        BY <1>3, <4>1
      <4> HIDE DEF j
      <4>3. b[k + j] = a[j]
        BY <1>1, <4>2
      <4>4. a[j][1] \notin {"[DONE]", "garbled"}
        BY <1>2, <1>11, <4>2
      <4> QED BY <4>1, <4>3, <4>4
    <3> QED BY <3>1, <3>2
  <2>3. b[k + n][1] = "newline"
    BY <1>2, <2>1
  <2>4. e \in 0..Len(b) /\ b[e][1] = "newline" /\ \A i \in 1..e : b[i][1] \notin {"[DONE]", "garbled"}
    BY <1>e, <2>1, <2>2, <2>3
  <2> QED BY <2>4 DEF LineEnds
<1> QED BY <1>6, <1>15, <1>16 DEF p, line

\* At the end of the reply no further line of the body has been left out.
LEMMA LastLine ==
  ASSUME NEW b \in Seq(Marks), NEW a \in Seq(Marks), NEW w \in Seq(Marks), NEW k \in LineEnds(b),
         a \o w = SubSeq(b, k + 1, Len(b)),
         IF Has(a, "newline") THEN Has(FirstLine(a), "[DONE]") ELSE w = <<>>
  PROVE  Max(LineEnds(b)) = k
<1>0. k \in 0..Len(b) /\ LineEnds(b) \subseteq 0..Len(b)
      /\ \A m \in LineEnds(b) : /\ m # 0 => b[m][1] = "newline"
                                /\ \A i \in 1..m : b[i][1] # "[DONE]"
  BY DEF LineEnds
<1>1. /\ Len(a) + Len(w) = Len(b) - k
      /\ \A i \in 1..Len(a) : k + i \in 1..Len(b) /\ b[k + i] = a[i]
  BY <1>0, ReadOn
<1>2. Len(a) \in Nat /\ Len(w) \in Nat /\ Len(b) \in Nat /\ Len(<<>>) = 0
  OBVIOUS
<1>3. ASSUME NEW m \in LineEnds(b), m > k
      PROVE  FALSE
  <2> DEFINE j == m - k
  <2>1. j >= 1 /\ j \in Nat /\ k + j = m /\ m # 0 /\ m \in 0..Len(b)
    BY <1>0, <1>2, <1>3
  <2>2. CASE ~Has(a, "newline")
    <3>0. Len(w) = 0
      BY <2>2
    <3>1. j \in 1..Len(a)
      BY <1>0, <1>1, <1>2, <2>1, <3>0
    <3> HIDE DEF j
    <3>2. a[j][1] = "newline"
      BY <1>0, <1>1, <2>1, <3>1
    <3> QED BY <2>2, <3>1, <3>2 DEF Has
  <2>3. CASE Has(a, "newline")
    <3>1. PICK n \in 1..Len(a) : /\ \A i \in 1..(n - 1) : a[i][1] # "newline"
                                 /\ FirstLine(a) = SubSeq(a, 1, n - 1)
      BY <2>3, FirstNewline
    <3>2. PICK d \in 1..(n - 1) : a[d][1] = "[DONE]"
      <4> DEFINE line == SubSeq(a, 1, n - 1)
      <4>1. Len(line) = n - 1 /\ \A i \in 1..(n - 1) : line[i] = a[i]
        OBVIOUS
      <4>2. Has(line, "[DONE]")
        BY <2>3, <3>1
      <4> HIDE DEF line
      <4> QED BY <4>1, <4>2 DEF Has
    <3>3. d \in 1..Len(a) /\ b[k + d] = a[d]
      BY <1>1, <1>2, <3>2
    <3>4. CASE d <= j
      <4> DEFINE e == k + d
      <4>1. e \in 1..m /\ b[e][1] = "[DONE]"
        BY <1>0, <1>2, <2>1, <3>2, <3>3, <3>4
      <4> HIDE DEF e
      <4> QED BY <1>0, <4>1
    <3>5. CASE ~(d <= j)
      <4>1. j \in 1..(n - 1) /\ j \in 1..Len(a)
        BY <1>2, <2>1, <3>1, <3>2, <3>5
      <4> HIDE DEF j
      <4>2. a[j][1] = "newline"
        BY <1>0, <1>1, <2>1, <4>1
      <4> QED BY <3>1, <4>1, <4>2
    <3> QED BY <3>4, <3>5
  <2> QED BY <2>2, <2>3
<1>4. \A m \in LineEnds(b) : k >= m
  BY <1>0, <1>2, <1>3
<1> QED BY <1>0, <1>2, <1>4 DEF Max

\* The reply is what the first k symbols of the body say; buffer and wire hold the rest.
ReadTo(k) ==
  /\ k \in LineEnds(body)
  /\ reply = Delta(SubSeq(body, 1, k))
  /\ buffer \o wire = SubSeq(body, k + 1, Len(body))

\* While no character has been cut, whole lines of the body have been read, and a
\* streamed turn is stored whole only at the end of them.
CutInv ==
  /\ StreamedTurn # {} => Ends
  /\ ~split /\ state = "streaming" => \E k \in Nat : ReadTo(k)
  /\ CutsDoNotShow

LEMMA MarksSeq == \A s \in Seq(Symbols) : s \in Seq(Marks)
<1>1. Symbols \subseteq Marks
  BY MarksFact
<1> QED BY <1>1

LEMMA CutStep ==
  TextInv /\ OrderInv /\ AskedInv /\ StoreInv /\ CutInv /\ [StreamNext]_streamVars => CutInv'
<1> SUFFICES ASSUME TextInv, OrderInv, AskedInv, StoreInv, CutInv, [StreamNext]_streamVars
             PROVE  CutInv'
  OBVIOUS
<1>n. state \in Busy => TurnsOf(stored, at) = {}
  <2>1. ASSUME state \in Busy
        PROVE  \A k \in 1..Len(stored) : stored[k].by # at
    <3>1. \A k \in 1..Len(stored) : stored[k] \in StoredTurn
      BY DEF StoreInv
    <3> QED BY <2>1, <3>1 DEF StoreInv, StoredTurn, OrderInv
  <2> QED BY <2>1, NoTurns DEF StoreInv
<1>m. StreamedTurn = {t \in TurnsOf(stored, at) : t.whole /\ inbox[at] = "stream"}
  BY DEF StreamedTurn, TurnsOf
<1>p. StreamedTurn' = {t \in TurnsOf(stored', at') : t.whole /\ inbox'[at'] = "stream"}
  BY DEF StreamedTurn, TurnsOf
\* The stream stands still, and so does the session.
<1>q. ASSUME at' = at, inbox' = inbox, stored' = stored, UNCHANGED stream,
             state' = state \/ state' \notin Busy
      PROVE  CutInv'
  <2>1. CutsDoNotShow'
    BY <1>m, <1>p, <1>q DEF CutInv, CutsDoNotShow, stream
  <2>2. state' \in Busy => state' = state
    BY <1>q
  <2>3. Ends' <=> Ends
    BY <1>q DEF Ends, Line, stream
  <2>4. \A k : ReadTo(k)' <=> ReadTo(k)
    BY <1>q DEF ReadTo, stream
  <2>5. StreamedTurn' = StreamedTurn
    BY <1>m, <1>p, <1>q
  <2> QED BY <1>q, <2>1, <2>2, <2>3, <2>4, <2>5 DEF CutInv, Busy, stream
\* Nothing is stored for the message at hand.
<1>r. ASSUME at' = at, inbox' = inbox, stored' = stored, state \in Busy
      PROVE  CutsDoNotShow' /\ StreamedTurn' = {}
  BY <1>n, <1>p, <1>r DEF CutsDoNotShow
\* The reply has come to its end: what is stored of it is the text of the body.
<1>s. ASSUME state = "streaming", Ends, state' \notin Busy, at' = at, inbox' = inbox,
             UNCHANGED stream,
             AppendFails(reply) \/ stored' = Append(stored, Turn(at, reply))
      PROVE  CutInv'
  <2>1. Ends'
    BY <1>s DEF Ends, Line, stream
  <2>2. ASSUME ~split
        PROVE  reply = Text(body)
    <3>1. PICK k \in Nat : ReadTo(k)
      BY <1>s, <2>2 DEF CutInv
    <3>2. IF Has(buffer, "newline") THEN Has(FirstLine(buffer), "[DONE]") ELSE wire = <<>>
      BY <1>s DEF Ends, Line
    <3>3. body \in Seq(Marks) /\ wire \in Seq(Marks) /\ buffer \in Seq(Marks)
      BY MarksSeq DEF TextInv
    <3>4. k \in LineEnds(body) /\ buffer \o wire = SubSeq(body, k + 1, Len(body))
          /\ reply = Delta(SubSeq(body, 1, k))
      BY <3>1 DEF ReadTo
    <3>5. Max(LineEnds(body)) = k
      BY <3>2, <3>3, <3>4, LastLine
    <3> QED BY <3>4, <3>5 DEF Text
  <2>3. \E t \in StoredTurn : /\ t.by = at /\ (t.whole => t.text = reply)
                              /\ stored' = stored \/ stored' = Append(stored, t)
    <3>1. reply \in Seq(Nat) /\ at \in Nat
      BY DEF TextInv, OrderInv
    <3>2. CASE AppendFails(reply)
      BY <3>1, <3>2, FailureStores
    <3>3. CASE stored' = Append(stored, Turn(at, reply))
      BY <3>1, <3>3, TurnIs
    <3> QED BY <1>s, <3>2, <3>3
  <2>4. PICK t \in StoredTurn : /\ t.by = at /\ (t.whole => t.text = reply)
                                /\ stored' = stored \/ stored' = Append(stored, t)
    BY <2>3
  <2>5. TurnsOf(stored', at) \subseteq {t}
    <3>1. TurnsOf(Append(stored, t), at) = TurnsOf(stored, at) \cup {t}
      BY <2>4, TurnsAppend DEF StoreInv
    <3>2. TurnsOf(stored, at) = {}
      BY <1>n, <1>s DEF Busy
    <3> QED BY <2>4, <3>1, <3>2
  <2>6. CutsDoNotShow'
    <3>1. split' = split /\ body' = body
      BY <1>s DEF stream
    <3>2. ASSUME ~split', NEW u \in StreamedTurn'
          PROVE  u.text = Text(body')
      <4>1. u = t /\ u.whole
        BY <1>p, <1>s, <2>5, <3>2
      <4>2. reply = Text(body)
        BY <2>2, <3>1, <3>2
      <4>3. u.text = reply
        BY <2>4, <4>1
      <4> QED BY <3>1, <4>2, <4>3
    <3> QED BY <3>2 DEF CutsDoNotShow
  <2> QED BY <1>s, <2>1, <2>6 DEF CutInv, Busy
\* A reply that came whole leaves no streamed turn.
<1>t. ASSUME state = "once", state' \notin Busy, at' = at, inbox' = inbox
      PROVE  CutInv'
  <2>1. StreamedTurn' = {}
    BY <1>p, <1>t DEF AskedInv
  <2> QED BY <1>t, <2>1 DEF CutInv, CutsDoNotShow, Busy
<1>1. CASE Take
  <2>1. at' = at + 1 /\ inbox' = inbox /\ stored' = stored /\ state' # "streaming"
    BY <1>1 DEF Take, Send, connection
  <2>2. TurnsOf(stored', at') = {}
    <3>1. \A k \in 1..Len(stored) : stored[k] \in StoredTurn /\ stored[k].by <= at
      BY DEF StoreInv
    <3>2. \A k \in 1..Len(stored) : stored[k].by # at'
      BY <2>1, <3>1 DEF StoredTurn, OrderInv
    <3> QED BY <2>1, <3>2, NoTurns DEF StoreInv
  <2>3. CutsDoNotShow' /\ StreamedTurn' = {}
    BY <1>p, <2>2 DEF CutsDoNotShow
  <2> QED BY <2>1, <2>3 DEF CutInv
<1>2. CASE Hangup
  <2>1. at' = at /\ inbox' = inbox /\ stored' = stored /\ UNCHANGED stream
        /\ state' = "closed"
    BY <1>2 DEF Hangup, connection
  <2> QED BY <1>q, <2>1 DEF Busy
<1>22. CASE Leave
  <2>1. at' = at /\ inbox' = inbox /\ UNCHANGED stream
    BY <1>22 DEF Leave
  <2>2. CASE stored' = stored /\ state' \in {"closed", "recv", state}
    BY <1>q, <2>1, <2>2 DEF Busy
  <2>3. CASE state = "once" /\ state' = "closed"
    BY <1>t, <2>1, <2>3 DEF Busy
  <2>4. CASE state = "streaming" /\ Ends /\ AppendFails(reply) /\ state' = "closed"
    BY <1>s, <2>1, <2>4 DEF Busy
  <2> QED BY <1>22, <2>2, <2>3, <2>4 DEF Leave
<1>3. ASSUME NEW text \in Texts, Reply(text)
      PROVE  CutInv'
  <2>1. state = "once" /\ at' = at /\ inbox' = inbox /\ state' \notin Busy
    BY <1>3 DEF Reply, Send, Rest, Busy, connection
  <2> QED BY <1>t, <2>1
<1>4. CASE Fails \/ Breaks \/ Spoilt
  <2>1. at' = at /\ inbox' = inbox /\ UNCHANGED stream /\ state' \notin Busy
    BY <1>4 DEF Fails, Breaks, Spoilt, Send, Rest, Busy, connection
  <2>2. \/ stored' = stored
        \/ state = "once"
        \/ state = "streaming" /\ Ends /\ AppendFails(reply)
    BY <1>4 DEF Fails, Breaks, Spoilt
  <2> QED BY <1>q, <1>s, <1>t, <2>1, <2>2
<1>5. CASE Complete
  <2>1. state = "streaming" /\ Ends /\ stored' = Append(stored, Turn(at, reply))
        /\ at' = at /\ inbox' = inbox /\ UNCHANGED stream /\ state' \notin Busy
    BY <1>5 DEF Complete, Send, Rest, Busy, connection
  <2> QED BY <1>s, <2>1
<1>6. CASE Chunk
  <2>1. at' = at /\ inbox' = inbox /\ stored' = stored /\ state = "streaming" /\ split' = split
        /\ body' = body /\ wire' = wire /\ buffer' = AfterLine(buffer)
        /\ reply' = reply \o Delta(Line)
    BY <1>6 DEF Chunk, Send, connection
  <2>2. CutsDoNotShow' /\ StreamedTurn' = {}
    BY <1>r, <2>1 DEF Busy
  <2>3. ASSUME ~split
        PROVE  \E k \in Nat : ReadTo(k)'
    <3>1. PICK k \in Nat : ReadTo(k)
      BY <2>1, <2>3 DEF CutInv
    <3>2. Has(buffer, "newline") /\ ~Has(FirstLine(buffer), "[DONE]")
          /\ ~Has(FirstLine(buffer), "garbled")
      BY <1>6 DEF Chunk, Line
    <3>3. body \in Seq(Marks) /\ wire \in Seq(Marks) /\ buffer \in Seq(Marks)
      BY MarksSeq DEF TextInv
    <3>4. k \in LineEnds(body) /\ buffer \o wire = SubSeq(body, k + 1, Len(body))
          /\ reply = Delta(SubSeq(body, 1, k))
      BY <3>1 DEF ReadTo
    <3>5. PICK l \in LineEnds(body) :
            /\ Delta(SubSeq(body, 1, l)) = Delta(SubSeq(body, 1, k)) \o Delta(FirstLine(buffer))
            /\ AfterLine(buffer) \o wire = SubSeq(body, l + 1, Len(body))
      BY <3>2, <3>3, <3>4, NextLine
    <3>6. l \in Nat
      BY <3>5 DEF LineEnds
    <3>7. ReadTo(l)'
      BY <2>1, <3>4, <3>5 DEF ReadTo, Line
    <3> QED BY <3>6, <3>7
  <2> QED BY <2>1, <2>2, <2>3 DEF CutInv, Busy
<1>7. ASSUME NEW b \in Bodies, Begin(b)
      PROVE  CutInv'
  <2>1. at' = at /\ inbox' = inbox /\ stored' = stored /\ state = "stream" /\ state' = "streaming"
        /\ body' = b /\ wire' = b /\ buffer' = <<>> /\ reply' = <<>>
    BY <1>7 DEF Begin, connection
  <2>2. CutsDoNotShow' /\ StreamedTurn' = {}
    BY <1>r, <2>1 DEF Busy
  <2>3. ReadTo(0)'
    <3>1. b \in Seq(Symbols)
      BY StreamAssumption
    <3>2. 0 \in LineEnds(b)
      BY <3>1 DEF LineEnds
    <3>3. SubSeq(b, 1, 0) = <<>> /\ SubSeq(b, 0 + 1, Len(b)) = b /\ <<>> \o b = b
      BY <3>1
    <3>4. Delta(<<>>) = <<>>
      <4>1. SaysAll(<<>>) = <<>>
        BY DEF SaysAll
      <4> QED BY <4>1, FlattenEmpty DEF Delta, SaysAll
    <3> QED BY <2>1, <3>2, <3>3, <3>4 DEF ReadTo
  <2> QED BY <2>1, <2>2, <2>3 DEF CutInv, Busy
<1>8. ASSUME NEW n \in 1..Len(wire), Arrive(n)
      PROVE  CutInv'
  <2> DEFINE piece == SubSeq(wire, 1, n)
             rest == SubSeq(wire, n + 1, Len(wire))
  <2>1. at' = at /\ inbox' = inbox /\ stored' = stored /\ state = "streaming" /\ state' = state
        /\ body' = body /\ reply' = reply /\ buffer' = buffer \o Decode(piece) /\ wire' = rest
        /\ split' = (split \/ Has(Decode(piece), "cut"))
    BY <1>8 DEF Arrive, connection
  <2>2. CutsDoNotShow' /\ StreamedTurn' = {}
    BY <1>r, <2>1 DEF Busy
  <2>3. ASSUME ~split'
        PROVE  \E k \in Nat : ReadTo(k)'
    <3>1. ~split /\ ~Has(Decode(piece), "cut")
      BY <2>1, <2>3
    <3>2. PICK k \in Nat : ReadTo(k)
      BY <2>1, <3>1 DEF CutInv
    <3>3. piece \in Seq(Symbols) /\ rest \in Seq(Symbols) /\ piece \o rest = wire
      <4>1. n \in 0..Len(wire) /\ wire \in Seq(Symbols)
        BY DEF TextInv
      <4> QED BY <4>1, CutIsSeq, Rejoin
    <3> HIDE DEF piece, rest
    <3>4. Decode(piece) = piece
      BY <3>1, <3>3, DecodeWhole
    <3>5. piece \in Seq(Marks) /\ rest \in Seq(Marks) /\ buffer \in Seq(Marks)
      BY <3>3, MarksSeq DEF TextInv
    <3>6. (buffer \o piece) \o rest = buffer \o (piece \o rest)
      BY <3>5, ConcatAssoc
    <3>7. buffer' \o wire' = buffer \o wire
      BY <2>1, <3>3, <3>4, <3>6
    <3>8. ReadTo(k)'
      BY <2>1, <3>2, <3>7 DEF ReadTo
    <3> QED BY <3>8
  <2> HIDE DEF piece, rest
  <2> QED BY <2>1, <2>2, <2>3 DEF CutInv, Busy
<1>9. CASE UNCHANGED streamVars
  <2>1. at' = at /\ inbox' = inbox /\ stored' = stored /\ UNCHANGED stream /\ state' = state
    BY <1>9 DEF streamVars, stream
  <2> QED BY <1>q, <2>1
<1> QED
  BY <1>1, <1>2, <1>22, <1>3, <1>4, <1>5, <1>6, <1>7, <1>8, <1>9 DEF StreamNext, Respond

LEMMA CutInit == StreamInit => CutInv
<1>1. ASSUME StreamInit
      PROVE  StreamedTurn = {}
  <2>1. Range(<<>>) = {}
    BY DEF Range
  <2> QED BY <1>1, <2>1 DEF StreamInit, StreamedTurn
<1> QED BY <1>1 DEF StreamInit, CutInv, CutsDoNotShow

\* The session holds what the client was sent: all of it after "done", and after an
\* error at most that; what broke off before its end is not stored as a reply.
THEOREM StoredIsWhatWasSent == StreamSpec => []StoredAsSent
<1>1. StreamInit => TextInv /\ OrderInv /\ AskedInv /\ StoreInv
  BY StreamInits
<1>2. StoreInv /\ CutInv => StoredAsSent
  BY StoredAsSentIs DEF StoreInv, CutInv
<1> QED
  BY <1>1, <1>2, CutInit, TextStep, OrderStep, AskedStep, StoreStep, CutStep, PTL
  DEF StreamSpec

\* The cuts between the pieces of a body do not show in the reply that is stored.
THEOREM RepliesComeWhole == StreamSpec => []CutsDoNotShow
<1>1. StreamInit => TextInv /\ OrderInv /\ AskedInv /\ StoreInv
  BY StreamInits
<1>2. CutInv => CutsDoNotShow
  BY DEF CutInv
<1> QED
  BY <1>1, <1>2, CutInit, TextStep, OrderStep, AskedStep, StoreStep, CutStep, PTL
  DEF StreamSpec

-----------------------------------------------------------------------------
(* The stream behind the door *)

\* For the stream the door is a stutter.
THEOREM ServerServesTheStream == ServerSpec => StreamSpec
<1>1. ServerInit => StreamInit
  BY DEF ServerInit
<1>2. [ServerNext]_serverVars => [StreamNext]_streamVars
  <2>1. CASE AtTheDoor
    BY <2>1 DEF AtTheDoor
  <2>2. CASE Connected
    BY <2>2 DEF Connected
  <2>3. CASE UNCHANGED serverVars
    BY <2>3 DEF serverVars
  <2> QED BY <2>1, <2>2, <2>3 DEF ServerNext
<1> QED
  BY <1>1, <1>2, PTL DEF ServerSpec, StreamSpec
=============================================================================
