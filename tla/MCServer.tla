------------------------------ MODULE MCServer ------------------------------
EXTENDS Server

\* A body of two events that ends with [DONE]; one with a line that is no completion;
\* one that breaks off inside an event.
TestBodies ==
  LET e(k) == <<HeadOf(k), TailOf(k), Newline>>
  IN  {e(1) \o e(2) \o <<Done, Newline>>, <<Quiet, Newline, Garbled, Newline>>,
       e(1) \o <<HeadOf(2), TailOf(2)>>}

TestTexts == {<<1, 2>>}

TestInboxes == {<<"invalid", "stream", "once">>, <<"binary", "ping", "close", "ping">>}

\* A key is replaced by one without a kid; between them a document without any
\* key that can be used.  In the first the second key takes the kid of the third.
Jwk(kty, use, alg, kid, key) == [kty |-> kty, use |-> use, alg |-> alg, kid |-> kid, key |-> key]
TestDocuments ==
  << <<Jwk("RSA", {"sig"}, {"RS256"}, {"a"}, {"old"}), Jwk("RSA", {}, {}, {"2"}, {"lost"}),
       Jwk("RSA", {}, {}, {}, {"kidless"})>>,
     <<Jwk("EC", {}, {}, {"a"}, {"ec"}), Jwk("RSA", {"enc"}, {}, {"b"}, {"enc"}),
       Jwk("RSA", {}, {"RS512"}, {"c"}, {"new"}), Jwk("RSA", {}, {}, {"d"}, {})>>,
     <<Jwk("RSA", {"sig"}, {"RS256"}, {}, {"new"})>> >>

Token(alg, kid, signer, exp, nbf) ==
  [is |-> "token", alg |-> alg, kid |-> kid, signer |-> signer, exp |-> exp, nbf |-> nbf,
   iss |-> {"issuer"}, aud |-> {"us", "them"}]
Key(name) == [is |-> "key", name |-> name]

TestSchemes ==
  {Open, WithIssuer(ApiKeys({Key("good")}), "issuer"),
   WithIssuer(WithAudience(JwtHs256("secret"), "us"), "issuer"),
   WithAudience(WithIssuer(JwtRs256(TRUE), "issuer"), "us"),
   JwtRs256(FALSE)}

Presents(value) == [authorization |-> {[prefix |-> "Bearer ", value |-> value]}, apiKey |-> {}]
Header(name) == [authorization |-> {}, apiKey |-> {Key(name)}]

\* Good, retired, of no kid, late, early, without exp, near the end of u64, of the
\* wrong issuer, under the wrong algorithm or key.
TestTokens ==
  {Token("RS256", {"a"}, "old", {3}, {}), Token("RS256", {}, "new", {3}, {}),
   Token("RS256", {"a"}, "new", {3}, {}), Token("RS256", {"2"}, "lost", {3}, {}),
   Token("RS256", {"a"}, "old", {1}, {}), Token("RS256", {"a"}, "old", {}, {}),
   Token("RS256", {"a"}, "old", {3}, {5}), Token("RS256", {"a"}, "old", {15}, {}),
   [Token("RS256", {"a"}, "old", {3}, {}) EXCEPT !.iss = {"other"}],
   [Token("RS256", {"a"}, "old", {3}, {}) EXCEPT !.aud = {"them"}],
   Token("HS256", {}, "secret", {3}, {}), Token("HS256", {}, "guess", {3}, {}),
   Token("HS256", {}, "secret", {3}, {4})}

TestCredentials ==
  {Presents(t) : t \in TestTokens} \cup {Presents(Key("good")), Header("good"), Header("bad"),
   [authorization |-> {}, apiKey |-> {}],
   [authorization |-> {[prefix |-> "Bearer ", value |-> Key("bad")]}, apiKey |-> {Key("good")}],
   [authorization |-> {[prefix |-> "Basic ", value |-> Key("bad")]}, apiKey |-> {Key("good")}]}

Request(f, call, credentials) == [front |-> f, call |-> call, credentials |-> credentials]

\* Every credential asks for the manifest over REST and for a skill over gRPC; one
\* that is good for a while opens the chats; the probes come with none.
TestRequests ==
  {Request("rest", "manifest", c) : c \in TestCredentials}
    \cup {Request("grpc", "skill", c) : c \in TestCredentials}
    \cup {Request("rest", call, Header("bad")) : call \in {"health", "ready"}}
    \cup {Request("rest", "skill", Header("good")), Request("grpc", "info", Header("good"))}
    \cup {Request(f, call, Presents(Token("RS256", {"a"}, "old", {1}, {}))) :
            <<f, call>> \in {<<"rest", "ws">>, <<"rest", "chat">>, <<"grpc", "chat">>,
                             <<"grpc", "chat_stream">>}}
=============================================================================
