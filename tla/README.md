# Verification of corrosive_agents

TLA+ models of the parts of this crate where several things happen at once or
where a long sequence of steps decides an outcome, with TLC configurations that
check them on small instances and TLAPS proofs of the properties that matter
most. Paths are relative to the repository root, where the crate is in `src/`.

    tlc -config MCAgentChat.cfg MCAgentChat      # check a run
    tlapm AgentChat_proofs.tla                   # check the proofs of a module

`PROJECT.json` lists the runs, the source lines each definition stands for, the
hazards of the code with the properties that cover them, an altered definition
for every property that must make it fail, the findings and the theorems.

## 1. The system

One `Agent` (`src/agent/runtime.rs`) is built once and shared as an `Arc` by all
handlers of the REST, WebSocket and gRPC servers, which run as tasks on a Tokio
runtime. A handler awaits the agent; when its client disconnects, its future is
dropped at whatever await it had reached. That, together with the requests of
other clients, is the source of concurrency everywhere below.

| component | state it keeps | operations | hard behaviour | what makes it correct |
|---|---|---|---|---|
| chat runtime (`agent/runtime.rs`) | none of its own: a turn's `messages` and `transcript` are local | `chat`, `chat_with_tools`, `chat_stream`, `clear_session` | the history is read, the provider awaited for seconds, and only then is the turn appended; drops at any await; a tool loop that fails half way | a session is a list of whole turns, each once; prompts contain what is stored |
| session stores (`session/`) | messages per session | `load`, `append`, `clear`, `list_sessions` | SQLite and Redis appends are several statements or commands; SQLite's survive their caller; crashes; other processes | a turn is stored in order, whole if Ok was returned |
| skills (`skills/mod.rs`) | registry and policy, fixed at build time | `execute_skill`, `SkillPolicy::check` | timeout races completion; panics; hung skills; dropped callers | the caller is told what happened; a timed-out skill stops |
| usage (`llm/usage.rs`) | four atomic counters | `record`, `snapshot` | snapshots taken while recording | every completion is billed once |
| provider (`llm/nvidia.rs`) | none | `chat`, `chat_stream`, `embed` | retries of a POST, `Retry-After`, an event stream cut anywhere, embeddings out of order | bounded attempts; the stream's text in order, once |
| A2A (`a2a.rs`) | peer registry; per peer a `OnceCell` | `add_peer`, `delegate_chat`, `delegate_skill` | overlapping first calls; failed or dropped verification; peers replaced and redeployed | identity is proved before any payload |
| MCP client (`mcp/client.rs`) | request ids; pipes under one lock, or an HTTP session id | `connect`, `request`, `notify`, `shutdown` | responses out of order, unasked messages, dropped calls, dead servers, late session ids | a call gets its own answer |
| trust (`trust.rs`, `agent/manifest.rs`) | the manifest with its key history; pinned keys and revocations | `sign`, `rotate_identity`, `trust`, `revoke`, `verify_manifest` | rotations, re-signings and revocations in any order | accepts exactly what is documented |
| vector memory (`vector/`) | documents, in this process or a database | `chunk_text`, `remember*`, `recall*`, `upsert`, `delete` | batches that fail half way; chunk boundaries; filters applied by four engines | what is stored is a beginning of what was asked; recall finds the best that matches |
| authentication (`auth.rs`) | cached JWKS | `refresh`, `authorize` | overlapping refreshes; keys replaced while tokens are checked | only the authorized come in |
| servers (`server/`, `grpc/`) | none | one handler per request, a loop per WebSocket | dropped futures; failures in the middle of a stream | one answer per message, that says what was stored |

Interactions: servers call the runtime behind an `AuthScheme`; the runtime calls
the provider, the stores, the skill tasks, the peers and the MCP clients, holding
no lock across any of these calls except that an MCP connection over stdio is
locked from writing a request to reading its response, a peer's `OnceCell` is
held while it is verified, and a SQLite connection is held for one job.

## 2. The modules

**`Turns`** — messages reduced to role, author and tool call ids, and the grammar
of a conversation: `Paired` (every tool call answered, in order, right after the
message that makes it), `Ordered`, `WholeTurns`, `IsTurn`. Text is not modelled:
no property of these modules is about it.

**`ConversationLog`** — the abstract specification. A session is extended only at
its end and only by the one whole turn of a request, which succeeds in the same
step; a request that fails leaves nothing; a session may be emptied any time.

**`AgentChat`** — the runtime over the in-process store. A request is one of the
three kinds; an action is what its handler does between two awaits: `Load`
(`conversation`), `AnswerText`/`AnswerCalls` (the completion arrives), `RunSkill`
(one tool call of an answer), `OpenStream`/`StreamDone`, `ProviderFails`,
`Commit` (`append`), `Drop` (the future is dropped), and `ClearSession` at any
time. `messages` and `transcript` are the two local lists the code extends in
parallel; `ChatBody` and `Wire` are the request the provider client makes of the
former. It implements `ConversationLog` with `log <- history` and a status
computed from the request's position (`ImplementsLog`). The provider is
external: any answer of either kind, or a failure.

**`DurableSessions`** — `append`, `clear` and what `load` finds, in SQLite and in
Redis. An append begins (`BeginAppend`; Redis has nothing to do for an empty turn,
`AppendNothing`). In SQLite it is one message at a time: `Lock`, `Insert`, `Finish`
in a job of the blocking pool that goes on when its caller is dropped (`Drop`). In
Redis `Push`, `SendExpire`, `Expire`, `Return` are commands whose answers may be lost
(`CommandFails`). Several processes share the store; each may `Crash` and `Restart`;
keys expire (`KeyExpires`). `Free` is the moment at which a process can load or
`Clear`. Messages are pairs of a request and a place in its turn. Two history
variables, set where the session is emptied (`Empty`), hold the appends of which
something was there (`lost`) and those that went on inserting afterwards (`overrun`).

**`Width`** — `as i64`, which `EXPIRE` and PostgreSQL's `LIMIT` are given (`AsI64`).

**`SkillExecution`** — `execute_skill` as two actors, the caller's future and the
task it spawns. `Refuse`/`Spawn` are the policy check, `Start` is a worker thread
taking the task up, `Finish` the skill returning, failing or panicking, `Cancel` an
aborted task before its first poll or at an await point. A poll of
`tokio::time::timeout` looks at the handle (`Return`, `Look`) and then at the clock
(`TimeOut`, `Wait`); the skill may finish in between. `Abandon` is the caller being
dropped, which detaches the task. The runtime has `Workers` threads; while skills that
never await hold all of them (`Saturated`), nothing is polled.

**`Delegation`** — the peer registry and `RemoteAgent`. `Begin` looks the peer up
and, with a pinned key, queues on its `OnceCell`; `Acquire`, `Verified`,
`NotVerified`, `Adopt` are `get_or_try_init`; `SelfVerifies` and `Accepts` what
`AgentManifest::verify` and `RemoteAgent::verify` ask of a manifest; `Deliver`
and `Respond` the POST; `Leave` drops a call. The server behind a URL may be
redeployed at any time: each fetch may bring any manifest.

**`AgentCalls`** puts the two side by side, for they share no state: a behaviour is
one of `SkillExecution` or of `Delegation`.

**`McpStdio`** — one stdio connection. `Begin` takes an id, `Lock` the pipes,
`Write` puts a line into stdin, `Read`/`Skip` are the loop of
`read_response_stdio`, which a line that is no UTF-8 ends with an error
(`Unreadable`), `Notify` ends `connect`, `Shutdown` kills the child.
`Leave` drops a call: inside the line it writes (`torn`), inside the line it
reads, or neither. The server answers in any order, sends lines unasked and may
die. Lines are reduced to kind and id.

**`McpHttp`** — `connect_mcp_servers` over a list of declared servers, and their
connections over HTTP. `Connect`, `Initialized`, `Register`, `HandshakeFails` take
the servers one by one; `Call` is a tool call meanwhile or later; `Send`, `Serve`
(the server), `Return` and `Lost` are a POST; a response may carry a session id
(`Adopt`), the server may begin another session (`Renew`), and `EndSession` ends
one. Bodies are told apart by what `http_post` and the calls built on it make of
them (`Succeeds`, `Proper`). A stdio server only connects or fails here.

**`Mcp`** composes the two: a client is over one transport or the other. It
assumes `HttpAssumption`: what is declared are servers, and no call is the handshake.

**`TrustStore`** — an agent that rotates (`Rotate`, with an `Endorsement`),
re-signs with another key (`Sign`), has its manifest edited (`Edit`) or a recorded
proof damaged (`Damage`), holders of keys who sign revocations, and a consumer
who pins keys and learns of revocations. `Verifies` is `verify_manifest`;
`Documented` is its doc comment, for a set of revocations: those ever learned are kept
in `learned`, of which `Standing` are those that no later-dated one of the same key has
replaced. Signatures are ideal: one holds iff what it covers is unchanged.

**`Gateway`** — the door. `Publish` is the issuer replacing its document,
`Ask`/`Serve`/`Install`/`KeepKeys` a refresh, of which several may overlap;
`Parse` and `Found` are the key set as `JwksStore` keeps and searches it. The four
schemes, their builders and `authorize` with the claims (`ClaimsHold`, with the
sum `exp + leeway` in `Width` values) are operators; `Admit`, `Refuse` and `Answer`
let one request through, with the routes that need credentials and the statuses
errors become. `WellFormed` says what the documents and schemes have to be.

**`ReplyStream`** — a reply from the response body to the client. `Begin` is the
provider's answer to a request for a stream; `Arrive` brings a piece of the body,
cut anywhere, also inside a character (`Decode`); `Chunk` takes a complete line of
the buffer; `Complete` is the terminal chunk, before which the turn is stored;
`Breaks`, `Spoilt` and `Fails` are the errors, after which a store that failed may have
kept nothing, the beginning of the turn or all of it (`AppendFails`); `Take` is the
WebSocket loop with its message types, `Reply` a chat in one piece (one of `Texts`),
`Hangup` and `Leave` the client going. A client may also stay and read no more: a
`Send` to it then never returns (state `"stuck"`). A call over REST or gRPC is an
inbox of one message. `StreamAssumption` says what bodies and texts are made of. `Text`
is what a body says, read at once: the reference for what comes of it in pieces.

**`Server`** — both together: what gets past the door for a chat is then served.
`AtTheDoor` and `Connected` are steps of the one and of the other, so each theorem
about `Gateway` or `ReplyStream` is one about the server (`ServerKeepsTheDoor`,
`ServerServesTheStream`), which assumes `WellFormed`.

**`Chunks`** — `chunk_text` as a recursive function of the number of words taken, over
their lengths (`Take` is one turn of its loop), and what its chunks must be.

**`VectorStores`** — what each store keeps of a document and how it applies a
filter: `QdrantPoint`, `PineconeVector`, `PgRow`; `QdrantSearch`, `PineconeSearch`,
`PgSearch`, `NativeSearch` (this process) and `DefaultSearch` (the trait), each the set
of the results a search may have, of which `Refused` is an error. How the three
databases themselves match, and what Qdrant takes for a condition at all, is external
(`QdrantMatch`, `QdrantTakes`, `PineconeMatch`, `PgContains`). Metadata is null, an
object or another JSON value; its values are texts, whole numbers or Booleans,
fractions, null and lists of texts. What is selected from a sequence is `Among`, a
recursive function: the prover has no facts about `SelectSeq`.

**`Memory`** — `remember`, `remember_batch` and `remember_document` on top of the
two: `Begin`, `Embedded` (a response of the embeddings endpoint, in any order and
perhaps short), `Retry` and `GiveUp` (`post_json`), `Store` and `StoreFails`
(`upsert_batched`), and `Forget` (deletion). A vector is the text it was made of.
`MemoryAssumption` says that batch sizes are positive, that jitter is at most a fifth
(`gen_range(0.0..=0.2)`), that a response has at most one Retry-After, that a call has
a sequence of texts or a document, and that words (`split_whitespace`) are not empty.
`MetadataAssumption` says which stores there are and that metadata is of the form
above. The delay of a retry doubles by a factor that saturates (`Factor`, `MaxU32`).
What `FindsBest` says of a search names its exceptions: `NeverTaken` (requests a server
always refuses), `Differs` (filters that a database compares in another way),
`GivenBack` and `TextIsLost` (what Pinecone makes of metadata and text).

**`Storage`** puts `DurableSessions` and `Memory` side by side as `AgentCalls` does.

Each `MC*` module gives the constants their values. Definitions headed "Altered"
are the wrong versions that the properties must catch; no action uses them.

## 3. The runs

| run | instance | shows |
|---|---|---|
| `agent_chat` | 3 requests of any kind, 1 session, answers with two tool calls, `max_rounds` 2 | sessions hold whole turns (`HistoryIsWholeTurns`), only of requests that returned Ok and each once (`RecordedOnce`), all of those unless cleared (`OkIsRecorded`); the prompt is one a provider takes, and is what was loaded plus what will be stored (`PromptInSync`); rounds and billing add up; the agent implements `ConversationLog`; every turn whose caller stays ends |
| `agent_calls` | 2 skill calls on 2 worker threads, skills that are permitted, lack a label, are not listed, are unknown, never await; or 3 delegations, one name for two peers with different pinned keys and an open one, manifests that are intact or not, with the right, another or no did | skills: callers are told what happened (`AnswersAreTrue`), a skill that has finished when its caller is polled is not reported as timed out (`FinishedIsReturned`), every waiting caller is answered, a timed-out skill that ever awaits stops, unless skills that never await keep all workers; delegation: no payload before proof, one verification at a time, no call waits for ever |
| `skill_cap` | same | **violated**: the cap on a skill's run does not hold once its caller is dropped |
| `trust_store` | 2 keys, 2 seconds, 3 rotations, 2 revocations | `verify_manifest` accepts only what is documented for the revocations that stand, and exactly that with one anchor; pinned keys survive rotation; only a revocation dated later than the one it replaces admits anybody (`OnlyALaterRevocationAdmits`) |
| `trust_complete` | same | **violated**: a valid chain from a trusted key that is not the first one in the history is not found |
| `trust_superseded` | same, 3 seconds | **violated**: after a second, later-dated revocation of a key what it signed after the first is accepted again |
| `mcp` | stdio: `connect` and 2 calls, 2 unasked lines, a server request with a foreign id; HTTP: 4 declared servers, two of one name, one over stdio, one with neither command nor url, 2 calls, 2 sessions | stdio: a call gets its own answer, all calls end while no one was dropped inside a line, the server's death frees everyone; HTTP: the session id is the newest unless POSTs overlapped (`SessionFollows`), servers are connected in order up to the first that fails (`ConnectedInOrder`) |
| `mcp_ids` | `connect` and 1 call, a server request with the id of that call | **violated**: the request is taken for the response |
| `storage` | sessions: 2 turns of 2 messages and an empty one, 2 processes, no ttl, one of 0, of 60 and of a number that `as i64` makes negative; memory: calls of each kind, a failed one repeated, documents of up to 4 words, 5 stores, 3 retries, every kind of value in the metadata | sessions: no message twice or out of order, turns of one process not woven together (`TurnsApart`); Ok means stored (`OkIsStored`); no load sees part of a turn but of the three kinds of SQLite appends it names (`LoadSeesWholeTurns`); expiry stays (`SessionExpires`); jobs end. Memory: what is stored is a beginning of what was asked, each text with its own vector, and all of it if ids were returned (`StoredAPrefix`); retries are bounded and back off; chunks cover the text; recall finds the best that matches in every store (`RecallFinds`); calls end |
| `chunk_fit` | same | **violated**: chunks may be longer than `max_chars` |
| `vector_filters` | same, Qdrant and PostgreSQL | **violated**: a filter on a list finds documents whose value is another one |
| `server` | 1 client, 5 schemes, some twenty credentials, 3 documents of the issuer (one without any usable key), 2 refreshes, 2 readings of the clock; 3 response bodies, 2 inboxes, every cut | the keys in use are those of one document (`KeysAreOneDocument`), only the authorized come in (`OnlyAuthorized`); each message is answered by chunks and one final frame (`AnsweredInOrder`), and what is stored agrees with it (`StoredAsSent`), however the body is cut (`CutsDoNotShow`); answers end unless the client stays and reads no more |

**Bounds.** Turns interact only through one session's history and pairwise: a
third request is there to come between two others. Two tool calls per answer and
two rounds reach every branch of the loop (more calls pending, round left, rounds
used up). Two appends of two messages are the fewest that can be woven together,
two processes the fewest that share a file; the third append has nothing to store.
Two skill calls on two workers are the fewest that can hold all of them and the
fewest of which one can go on beside another that does not await. Three delegations
give one that verifies, one that waits for it and one that waits for the second; one
name is enough, as names share nothing. Over stdio one call can be dropped while
another waits for the lock and a third answer is still in the pipe; over HTTP two
calls can overtake each other across a change of session. Three rotations are the
fewest with a link in the middle of a chain, two seconds the fewest with a before and
an after (a rotation between two revocations takes a third); two keys can come back,
so that a key may be left twice. Three documents and two refreshes let a refresh end
after one that began later. A body of three lines is cut at every place, also twice.
Three texts with requests of two and batches of two have a full and a partial group
each; `Overfetch` is 2 for 4 so that three documents exceed it. `MaxI64` is 127 and
`MaxU32` 3, so that a ttl of 200, a `top_k` of 128 and the third attempt pass them.
`MaxTime`, `MaxHistory`, `MaxStatements`, `MaxUnasked` and `MaxSessions` bound counters
that the code does not bound; the proofs hold for all values of the first four, and of
`MaxI64`, `MaxU32` and `Workers`.

**Fairness.** Weak fairness on what the runtime polls when it is ready. Beyond
that: a turn's provider answers or fails (its HTTP client has a timeout,
`src/llm/nvidia.rs:130`), and so for its embeddings, its stream and the pauses
between attempts; the time of a policy passes; an aborted task that keeps awaiting
is stopped; a job of the blocking pool runs; a peer's response arrives or its
connection breaks; an MCP server that is up reads its input and answers what it
understood. The last two are assumptions about other processes, since
`RemoteAgent` and the MCP client set no timeout; nothing is claimed to end over
MCP's HTTP transport.

Three waits have no timeout either, and nothing makes them end. While skills that
never await hold every worker thread, neither a timer nor a caller is polled: the
liveness properties of `SkillExecution` have that exception (`Saturated`). A WebSocket
send to a client that stays and does not read may never return (`AnswersEnd`
excepts `"stuck"`). A vector store outside the process may never answer
(`WaitsForStore` in `Memory`'s `CallsEnd`).

Not assumed: that a caller stays, that a verification succeeds, that a server
survives, that a provider ever succeeds, and in `SkillExecution` that a skill
finishes. `AgentChat` does let each tool call of a turn come to an end (`RunSkill` is
one step and fair): that is what `CallersAnswered` gives under the policy's default
timeout (`src/skills/mod.rs:70`), as long as a worker is free. With
`without_timeout` and a skill that hangs, its turn hangs too.

**Stopping.** The deadlock check is off where a system whose calls have all
ended rightly stops (`MCAgentCalls`, `MCSkillCap`, `MCMcp`, `MCServer`, `MCStorage`,
`MCChunkFit`, `MCVectorFilters`). That no call stops before its end is said by
the liveness properties of these runs.

## 4. What is proved

For every value of the constants, from the named assumptions of the modules:

* `AgentChat_proofs` — `TypeCorrect`, `SessionsHoldWholeTurns`,
  `TurnsRecordedOnce`, `SuccessIsRecorded`, `RoundsAreBounded`,
  `PromptsStayInSync`, `CompletionsAreBilled`, and `AgentImplementsLog`, the
  refinement of `ConversationLog`. Appending a whole turn to whole turns gives whole
  turns (`WholeTurnsConcat`). The session
  invariants are not inductive alone: at `Commit` one must know that the
  transcript is a whole turn, which nothing about sessions says. The
  strengthening is `InProgress`: with its pending calls answered, the transcript
  of a running turn is ordered and paired, and has its final answer exactly when
  it is ready to be stored. `ProgressStep` proves it step by step, `CommitIsTurn`
  draws the conclusion, and `SessionStep` uses it with `WholeTurnsConcat`.
  For the prompt (`PromptInv`) one must also know of each running turn that its
  prompt is what it has loaded followed by its transcript (`Loaded`), that what it has
  loaded was whole turns, and that every answer to a tool call follows the message with
  the call (`Called`). Billing (`BillInv`) counts a finite set, the completions so far,
  to which every completion adds one.
* `Storage_proofs` — `TurnsStayApart`, `OkTurnsAreStored`, `LoadsSeeWholeTurns`,
  `SessionsExpire`, `StoresTypeCorrect`. The first rests on `SessionInv`: every row was
  sent, a job inserts only under the lock of its process, and an append that rows of
  another one near it have followed (`Near`: the same process, or any over Redis)
  stores nothing more. The others add `WholeInv`, four facts about what has been sent.
  It is still there unless the session was emptied after it (`SentIsThere`); it is all
  of the turn once an append is past its messages (`SentWhole`); in Redis the key then
  has an expiry (`ExpirySet`); and of an append that lost something to an emptied
  session nothing is left or will come, unless it was in the midst of its messages
  (`LostIsGone`). `MemoryIsKept` carries over to `Storage` what is proved of `Memory`.
* `Delegation_proofs` and `AgentCalls_proofs` — of delegation `PeersGetPayloadAfterProof`
  and `PeersAreVerifiedOnce`, from `Cleared`: a call past its verification has a peer
  that needs none or has proved itself. `DelegationInv` also contains `TypeOK` and
  `RefusedSentNothing`. Of both kinds of calls `SkillAnswersAreTrue` (inductive with the
  types), `PayloadAfterProof` and `VerifiesOnce`.
* `TrustStore_proofs` — `AcceptedIsSound` and `PinnedKeysStayTrusted`, from
  `Unbroken`: rotations recorded since the last break are undamaged and each
  starts where the one before ended. What the store keeps of revocations is what
  `Standing` keeps of those learned (`StandingIs`). That a first anchor exists is by
  well-foundedness of the naturals. `ExactWithOneAnchor` gives the converse where it
  holds: as long as no more than one rotation starts from a trusted key, nothing that
  the documentation admits is refused. `AdmissionNeedsALaterRevocation` is an action
  property.
* `Mcp_proofs` — over stdio `LockExcludes`, and `AnswersAreOwn` under the hypothesis
  `[]IdsApart` (no call gets an id the server uses for requests of its own; without
  it the run `mcp_ids` shows the opposite), from `McpInv`: ids are taken once, and a
  line in the pipe that is no response carries none of them. Over HTTP
  `SessionIsFollowed` and `ServersConnectInOrder`, from `HttpInv`: a response that none
  has overtaken names a session as new as any its client was told of (`PostFollows`),
  a handshake under way is with the next server declared (`Shaking`), and the client
  of a name is the last one declared so far (`LastNamed`). `McpIsStdio` is the refinement
  that carries the first two over to `Mcp`.
* `Server_proofs` — at the door `KeysOfOneDocument` and `OnlyAuthorizedEnter`, assuming
  `WellFormed`. Each refresh was served something published since it began
  (`Refreshing`); a key found in the cache is followed back to the document it came
  from (`KeysAreSigners`), and a wrapped sum of `exp` and leeway lets nobody in
  (`RemainderBounded`).
  Of the stream, assuming `StreamAssumption`: `AnswersFollowMessages`,
  `StoredIsWhatWasSent` and `RepliesComeWhole`. None of the three properties is
  inductive. `OrderInv` adds that the message at hand has no final frame yet;
  `AskedInv` that a reply is streamed, or comes in one piece, as its message asked;
  `StoreInv` that nothing is stored for the message at hand, that nothing has been said
  to later ones, and that its client has been told exactly what `chat_stream` has
  collected; `CutInv` that a streamed turn is stored whole only at the end of its
  reply, and that while no character has been cut, the collected reply is what the body
  says up to the end of some line, while buffer and wire hold the rest (`ReadTo`). What
  a store that fails may leave is one step of all three (`FailureStores`).
  `NextLine` keeps this through a chunk, and `LastLine` draws the conclusion at the
  end. Texts are put together by `FlattenSeq`, whose distribution over concatenation
  (`FlattenConcat`) is proved by the least counterexample, a form of induction that
  needs no theorem with an operator parameter. `ServerKeepsTheDoor` and
  `ServerServesTheStream` are the refinements that carry all of it over to `Server`.

* `Memory_proofs` — `RetriesAreBounded`, from `RetryInv`: each pause is one that
  `DelayFor` can give for its attempt. That pauses grow needs more than that the factor
  doubles until it is saturated (`FactorDoubles`): the jitter of a pause must not exceed
  the step to the next (`DelayIs`, `CappedGrows`). And `NoWordIsLost`: `ChunksCover` holds of any text, length and
  overlap, `max_chars` 0 included (`TextsAreCovered`). The invariant of the loop is
  `Cut`, of the chunks of the first words: each is of consecutive words, and `Joined` to
  the one before by the words carried over. `NextChunk` and `LongerChunk` keep it when a
  word does not fit and when it does. That the functions defined by recursion exist is
  `Recursion`, again by a least counterexample.
  Then `BeginningsAreStored`. `StoredAPrefix` says what a failed or finished call has
  left; `StoreInv` adds how far the call under way has got: the batches before `b` and
  `m` documents of batch `b` are stored, each with the vector of its own text, and the
  vectors at hand are those of the first `posted` texts, or too few to go on with
  (`CallInv`, with `Embeds`, `Stores` and `GoesOn` for its phases). Two facts
  about data carry it. Sorting by index puts a full response back in the order of the
  texts, because its indices are then a permutation (`InOrderIs`); and ids tell calls
  apart in every store, so an upsert adds to what its own call stored and to nothing
  else (`KeepIs`, `KeysDiffer`, `UpsertIs`). What `Among` selects from a concatenation,
  and after a deletion, is proved by least counterexamples.
  And `EveryRankingIsSearched`, of which `RecallFindsTheBest` is the case that a run
  checks: `FindsBest` for every filter, any number asked for and any ranking of what is
  stored. By `StoreInv` all that is stored is what the store keeps of a document of some
  call (`StoredIs`). Outside `Differs`, what a server then compares is what the filter
  compares (`QdrantIs`, `PgIs`, `PineconeIs` by `FlatDiffers`), so that choosing from
  what is kept and reading the results back is to choose from the documents
  (`AmongOf`); the trait's default chooses from a beginning, which gives a beginning
  (`FewFirst`). That there is a result other than `Refused` is `SomeIsFound`.

Only model-checked: all liveness, as fairness is beyond the prover. Every invariant and
action property that a passing run checks is also a theorem.

The invariants `TypeOK` of every module, `LoadedIsPrefix`, `TurnInProgress` and
`RefusedSentNothing` hold on the same instances too; they say less than the
others, so the `.cfg` files do not name them, and they are kept for the proofs and
the reader.

## 5. Findings

1. **A dropped caller lifts the cap on a skill** (`skill_cap`). `execute_skill`
   aborts the spawned task only from its own future; dropping that detaches the
   task (`src/agent/runtime.rs:162`, against `src/skills/mod.rs:100`).
2. **Only the first trusted key is tried as a chain's start** (`trust_complete`).
   After pinning a newer key because the older, still pinned one was revoked,
   a valid chain from the newer is not looked at (`src/trust.rs:241`, against
   `src/trust.rs:204-207`).
3. **A later revocation undoes an earlier one** (`trust_superseded`). The store keeps
   one revocation of a key, the last it learned of; if that one is dated later, what
   the key signed between the two is accepted again (`src/trust.rs:165`, against
   `src/trust.rs:13-17`).
4. **A server's request is taken for a response** (`mcp_ids`,
   `src/mcp/client.rs:406`, against `src/mcp/client.rs:385-386`).
5. **Chunks may be longer than `max_chars`** (`chunk_fit`). The word that comes after
   carried words is not measured again (`src/vector/chunk.rs:51`, against
   `src/vector/chunk.rs:3`).
6. **Filters on lists do not ask for equality** (`vector_filters`). `@>` finds a list
   that contains the one asked for, and Qdrant's `match` a list with the text asked for
   in it (`src/vector/pg.rs:125`, `src/vector/qdrant.rs:134`, against
   `src/vector/mod.rs:69` and `:157-158`).

## 6. What the code does that a reader may not expect

These are no findings: but for the note on Pinecone in the vector memory, no doc says
otherwise. The properties state what holds beside them.

* Sessions: two processes on one SQLite file may weave two turns together; an
  INSERT that fails leaves the first messages of its turn; a clear by another process
  in the midst of an append lets it return Ok with only its later messages there; a
  lost or skipped EXPIRE leaves a turn stored whose caller was told it failed, or a
  key without expiry; a ttl under one second, or one that `as i64` makes negative,
  deletes the session.
* Streams: a body that ends without `[DONE]` is ended normally, so a cut reply is
  stored as a whole one; each piece is decoded on its own
  (`String::from_utf8_lossy`), so a character cut by a piece becomes two
  replacement characters (`CutsDoNotShow` is about the other cuts). A client told of
  an error by a store that failed may find the turn, or the beginning of it, stored.
  A client that stays and does not read may hold its handler in a send for ever.
* Door: of two refreshes that overlap the one that ends last wins, also if it asked
  first; an `exp` near the end of u64 wraps in a release build and is refused, and
  panics in a debug build; a key without kid goes by its place and may collide with
  a key that has that kid; an open WebSocket outlives its token.
* Skills: one that never awaits keeps its worker thread; enough of them, and no timeout
  takes effect.
* MCP: over stdio a line that is no UTF-8 fails the call that reads it; over HTTP a
  late response puts back an older session id; nothing is
  initialized again after the server has dropped a session; a plain JSON body is
  taken without a look at its id; `connect_mcp_servers` keeps the servers before
  the one that fails while its caller gets only the error; there is no timeout.
* Memory: `remember_document` that fails half way leaves its first chunks stored
  with ids nobody knows, and repeating it stores them twice; a POST that timed out may
  have been carried out before it is repeated; a store that does not answer is waited
  for without a timeout; `_chunk` is added only to metadata that is an object; a store
  that leaves filters to the trait may return fewer than there are. Qdrant takes no
  condition on a list, null or a fraction, and PostgreSQL no `top_k` above `i64::MAX`.
  In Pinecone metadata comes back flat, and a field `_text` takes the place of the text.
  The note at `src/vector/pinecone.rs:13-14` says that lists of strings are kept and
  nested metadata is stored under `_metadata`; the code (`:115-127`) puts both as JSON
  text under their own key, and under `_metadata` only metadata that is no object
  (`GivenBack`). A Qdrant filter takes a dot in a field's name for a path, which is not
  modelled.
* Delegation: an identity is proved once per `RemoteAgent`; a server that is
  replaced afterwards is not asked again.

## 7. Not modelled

* Cryptographic encodings (`identity.rs`, `x509.rs`, `tls.rs`): a signature is
  modelled by who made it and whether it still holds.
* The generated protobuf code (`grpc/pb.rs`), and the OpenAPI document.
* Construction and validation (`agent/builder.rs`): one sequential call before
  anything runs.
* Usage snapshots: four relaxed loads may hold part of an event, and the doc asks
  for no more ("consistent-enough"); only the number of completions is modelled.
* Parsing a completion, and arguments of tool calls: no property depends on them.
* Similarity: a ranking is arbitrary. Creating collections, tables and databases:
  once, before use.
* Binding, TLS and graceful shutdown of the servers, which the frameworks do; a
  WebSocket is not drained by it.
* JSON persistence of the trust store and of manifests.

Worth adding: a `ConversationLog` that allows what SQLite leaves of a failed append,
as the abstract specification of `DurableSessions`; the chat runtime over a store that
fails; usage counters as separate steps next to a snapshot; turns whose tool calls
hang, with `SkillExecution` inside `AgentChat`.
