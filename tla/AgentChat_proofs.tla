-------------------------- MODULE AgentChat_proofs --------------------------
(***************************************************************************)
(* Safety of conversation turns, for every set of requests, sessions and   *)
(* tool calls and every round limit.                                       *)
(***************************************************************************)
EXTENDS AgentChat, SequenceTheorems, FiniteSetTheorems, TLAPS

-----------------------------------------------------------------------------
(* The grammar of conversations *)

\* Where the elements of a concatenation come from.
LEMMA ConcatAt ==
  ASSUME NEW h \in Seq(Message), NEW t \in Seq(Message)
  PROVE  LET c == h \o t
         IN  /\ c \in Seq(Message) /\ Len(c) = Len(h) + Len(t)
             /\ \A i \in 1..Len(h) : c[i] = h[i]
             /\ \A i \in 1..Len(t) : c[Len(h) + i] = t[i]
             /\ \A i \in 1..Len(c) : i \notin 1..Len(h) =>
                  i - Len(h) \in 1..Len(t) /\ c[i] = t[i - Len(h)]
<1> DEFINE c == h \o t
<1>1. /\ c \in Seq(Message) /\ Len(c) = Len(h) + Len(t)
      /\ \A i \in 1..Len(h) : c[i] = h[i]
      /\ \A i \in 1..Len(t) : c[Len(h) + i] = t[i]
      /\ Len(h) \in Nat /\ Len(t) \in Nat
  OBVIOUS
<1> HIDE DEF c
<1>2. ASSUME NEW i \in 1..Len(c), i \notin 1..Len(h)
      PROVE  i - Len(h) \in 1..Len(t) /\ c[i] = t[i - Len(h)]
  <2>1. i - Len(h) \in 1..Len(t) /\ i = Len(h) + (i - Len(h))
    BY <1>1, <1>2
  <2> QED BY <1>1, <2>1
<1> QED BY <1>1, <1>2 DEF c

\* Pairing looks only inside one turn, so it survives concatenation.
LEMMA PairedConcat ==
  ASSUME NEW h \in Seq(Message), NEW t \in Seq(Message), Paired(h), Paired(t)
  PROVE  Paired(h \o t)
<1> DEFINE c == h \o t
<1>1. /\ c \in Seq(Message) /\ Len(c) = Len(h) + Len(t)
      /\ \A i \in 1..Len(h) : c[i] = h[i]
      /\ \A i \in 1..Len(t) : c[Len(h) + i] = t[i]
  OBVIOUS
<1>2. SUFFICES ASSUME NEW i \in 1..Len(c), c[i].role = "assistant"
               PROVE  /\ i + Len(c[i].ids) <= Len(c)
                      /\ \A k \in 1..Len(c[i].ids) :
                           c[i + k] = ToolResult(c[i].by, c[i].ids[k])
  BY DEF Paired
<1>3. CASE i \in 1..Len(h)
  <2>1. c[i] = h[i] /\ h[i] \in Message
    BY <1>1, <1>3
  <2>2. Len(h[i].ids) \in Nat
    BY <2>1 DEF Message
  <2>3. /\ i + Len(h[i].ids) <= Len(h)
        /\ \A k \in 1..Len(h[i].ids) : h[i + k] = ToolResult(h[i].by, h[i].ids[k])
    BY <1>2, <1>3, <2>1 DEF Paired
  <2> QED BY <1>1, <1>3, <2>1, <2>2, <2>3
<1>4. CASE i \notin 1..Len(h)
  <2> DEFINE j == i - Len(h)
  <2>1. j \in 1..Len(t) /\ i = Len(h) + j
    BY <1>1, <1>4
  <2>2. c[i] = t[j] /\ t[j] \in Message
    BY <1>1, <2>1
  <2>3. Len(t[j].ids) \in Nat
    BY <2>2 DEF Message
  <2>4. /\ j + Len(t[j].ids) <= Len(t)
        /\ \A k \in 1..Len(t[j].ids) : t[j + k] = ToolResult(t[j].by, t[j].ids[k])
    BY <1>2, <2>1, <2>2 DEF Paired
  <2>5. ASSUME NEW k \in 1..Len(t[j].ids)
        PROVE  c[i + k] = t[j + k]
    <3>1. j + k \in 1..Len(t) /\ i + k = Len(h) + (j + k)
      BY <2>1, <2>3, <2>4
    <3> QED BY <3>1, <1>1
  <2>6. i + Len(c[i].ids) <= Len(c)
    BY <1>1, <2>1, <2>2, <2>3, <2>4
  <2>7. \A k \in 1..Len(c[i].ids) : c[i + k] = ToolResult(c[i].by, c[i].ids[k])
    BY <2>2, <2>4, <2>5
  <2> QED BY <2>6, <2>7
<1> QED BY <1>3, <1>4

\* Two conversations of whole turns make one.
LEMMA WholeTurnsConcat ==
  ASSUME NEW h \in Seq(Message), NEW t \in Seq(Message), WholeTurns(h), WholeTurns(t)
  PROVE  WholeTurns(h \o t)
<1> DEFINE c == h \o t
<1>1. /\ c \in Seq(Message) /\ Len(c) = Len(h) + Len(t)
      /\ \A i \in 1..Len(h) : c[i] = h[i]
      /\ \A i \in 1..Len(t) : c[Len(h) + i] = t[i]
  OBVIOUS
<1>2. c # <<>> => c[1].role = "user" /\ IsFinal(c[Len(c)])
  BY <1>1 DEF WholeTurns
<1>3. Ordered(c)
  <2> SUFFICES ASSUME NEW i \in 1..Len(c) - 1
               PROVE  Follows(c[i], c[i + 1])
    BY DEF Ordered
  <2>1. CASE i \in 1..Len(h) - 1
    BY <1>1, <2>1 DEF WholeTurns, Ordered
  <2>2. CASE i = Len(h)
    <3>1. IsFinal(h[Len(h)]) /\ t[1].role = "user" /\ c[i] = h[Len(h)] /\ c[i + 1] = t[1]
      BY <1>1, <2>2 DEF WholeTurns
    <3> QED BY <3>1 DEF Follows
  <2>3. CASE i > Len(h)
    <3> DEFINE j == i - Len(h)
    <3>1. j \in 1..Len(t) - 1 /\ i = Len(h) + j /\ i + 1 = Len(h) + (j + 1)
      BY <1>1, <2>3
    <3>2. c[i] = t[j] /\ c[i + 1] = t[j + 1]
      BY <1>1, <3>1
    <3> QED BY <3>1, <3>2 DEF WholeTurns, Ordered
  <2> QED BY <1>1, <2>1, <2>2, <2>3
<1>4. Paired(c)
  BY PairedConcat DEF WholeTurns
<1> QED BY <1>2, <1>3, <1>4 DEF WholeTurns

-----------------------------------------------------------------------------

LEMMA MessageTypes ==
  /\ System \in Message
  /\ \A r \in Requests :
       /\ User(r) \in Message
       /\ Reply(r) \in Message
       /\ \A ids \in Seq(CallIds) : ToolCalls(r, ids) \in Message
       /\ \A id \in CallIds : ToolResult(r, id) \in Message
BY DEF Message, System, User, Reply, ToolCalls, ToolResult

-----------------------------------------------------------------------------
(* Types.  A request that runs tools has a call to run: Head needs it. *)

TypeInv ==
  /\ TypeOK
  /\ \A r \in Requests : pc[r] = "tools" => calls[r] # <<>>

LEMMA TypeStep == TypeInv /\ [Next]_vars => TypeInv'
<1> SUFFICES ASSUME TypeInv, [Next]_vars
             PROVE  TypeInv'
  OBVIOUS
<1> USE DEF TypeInv, TypeOK, Waiting, Terminal
<1>1. ASSUME NEW r \in Requests, Load(r)
      PROVE  TypeInv'
  <2>1. Session(r) \in Sessions
    BY DEF Session
  <2>2. SystemPrompt \in Seq(Message) /\ <<User(r)>> \in Seq(Message)
    BY MessageTypes DEF SystemPrompt
  <2>3. SystemPrompt \o history[Session(r)] \o <<User(r)>> \in Seq(Message)
    BY <2>1, <2>2
  <2> QED BY <1>1, <2>2, <2>3 DEF Load
<1>2. ASSUME NEW r \in Requests, AnswerText(r)
      PROVE  TypeInv'
  <2>1. Append(transcript[r], Reply(r)) \in Seq(Message)
    BY MessageTypes
  <2> QED BY <1>2, <2>1 DEF AnswerText, Bill
<1>3. ASSUME NEW r \in Requests, NEW ids \in ToolRequests, AnswerCalls(r, ids)
      PROVE  TypeInv'
  <2>1. ids \in Seq(CallIds) /\ ids # <<>>
    BY ToolRequestsAssumption
  <2>2. /\ Append(messages[r], ToolCalls(r, ids)) \in Seq(Message)
        /\ Append(transcript[r], ToolCalls(r, ids)) \in Seq(Message)
    BY <2>1, MessageTypes
  <2> QED BY <1>3, <2>1, <2>2 DEF AnswerCalls, Bill
<1>4. ASSUME NEW r \in Requests, RunSkill(r)
      PROVE  TypeInv'
  <2>1. Head(calls[r]) \in CallIds /\ Tail(calls[r]) \in Seq(CallIds)
    BY <1>4 DEF RunSkill
  <2>2. /\ Append(messages[r], ToolResult(r, Head(calls[r]))) \in Seq(Message)
        /\ Append(transcript[r], ToolResult(r, Head(calls[r]))) \in Seq(Message)
    BY <2>1, MessageTypes
  <2> QED BY <1>4, <2>1, <2>2 DEF RunSkill
<1>5. ASSUME NEW r \in Requests, OpenStream(r)
      PROVE  TypeInv'
  BY <1>5 DEF OpenStream
<1>6. ASSUME NEW r \in Requests, StreamDone(r)
      PROVE  TypeInv'
  <2>1. Append(transcript[r], Reply(r)) \in Seq(Message)
    BY MessageTypes
  <2> QED BY <1>6, <2>1 DEF StreamDone
<1>7. ASSUME NEW r \in Requests, ProviderFails(r)
      PROVE  TypeInv'
  BY <1>7 DEF ProviderFails
<1>8. ASSUME NEW r \in Requests, Commit(r)
      PROVE  TypeInv'
  <2>1. Session(r) \in Sessions
    BY DEF Session
  <2>2. history[Session(r)] \o transcript[r] \in Seq(Message)
    BY <2>1
  <2> QED BY <1>8, <2>1, <2>2 DEF Commit
<1>9. ASSUME NEW r \in Requests, Drop(r)
      PROVE  TypeInv'
  BY <1>9 DEF Drop
<1>10. ASSUME NEW s \in Sessions, ClearSession(s)
       PROVE  TypeInv'
  BY <1>10 DEF ClearSession
<1>11. CASE UNCHANGED vars
  BY <1>11 DEF vars
<1> QED
  BY <1>1, <1>2, <1>3, <1>4, <1>5, <1>6, <1>7, <1>8, <1>9, <1>10, <1>11 DEF Next, Step

LEMMA TypeInvariant == Spec => []TypeInv
<1>1. Init => TypeInv
  BY DEF Init, TypeInv, TypeOK
<1> QED BY <1>1, TypeStep, PTL DEF Spec

\* Every variable keeps its type.
THEOREM TypeCorrect == Spec => []TypeOK
<1>1. TypeInv => TypeOK
  BY DEF TypeInv
<1> QED BY <1>1, TypeInvariant, PTL

-----------------------------------------------------------------------------
(* A turn under way.  RunSkill moves the answer of the first pending call *)
(* from what is anticipated to what is there: the sum does not change.    *)

LEMMA ResultsType ==
  ASSUME NEW r \in Requests, NEW ids \in Seq(CallIds)
  PROVE  /\ Results(r, ids) \in Seq(Message)
         /\ Len(Results(r, ids)) = Len(ids)
         /\ \A k \in 1..Len(ids) : Results(r, ids)[k] = ToolResult(r, ids[k])
<1>1. \A k \in 1..Len(ids) : ToolResult(r, ids[k]) \in Message
  BY MessageTypes
<1>2. Results(r, ids) \in [1..Len(ids) -> Message]
  BY <1>1 DEF Results
<1> QED BY <1>2 DEF Results

\* An assistant message with its calls answered is paired.
LEMMA CallsPaired ==
  ASSUME NEW r \in Requests, NEW ids \in Seq(CallIds)
  PROVE  Paired(<<ToolCalls(r, ids)>> \o Results(r, ids))
<1> DEFINE c == <<ToolCalls(r, ids)>> \o Results(r, ids)
<1>1. <<ToolCalls(r, ids)>> \in Seq(Message)
  BY MessageTypes
<1>2. /\ Len(c) = 1 + Len(ids)
      /\ c[1] = ToolCalls(r, ids)
      /\ \A k \in 1..Len(ids) : c[1 + k] = ToolResult(r, ids[k])
  BY <1>1, ResultsType
<1> HIDE DEF c
<1>3. ASSUME NEW i \in 1..Len(c), c[i].role = "assistant"
      PROVE  i = 1
  <2> SUFFICES ASSUME i # 1
               PROVE  FALSE
    OBVIOUS
  <2>1. i - 1 \in 1..Len(ids) /\ i = 1 + (i - 1)
    BY <1>2
  <2>2. c[i] = ToolResult(r, ids[i - 1])
    BY <1>2, <2>1
  <2> QED BY <1>3, <2>2 DEF ToolResult
<1>4. c[1].ids = ids /\ c[1].by = r
  BY <1>2 DEF ToolCalls
<1>5. Paired(c)
  BY <1>2, <1>3, <1>4 DEF Paired
<1> QED BY <1>5 DEF c

\* Running the first of the pending calls does not change what is anticipated.
LEMMA AnticipatedStable ==
  ASSUME NEW r \in Requests, NEW t \in Seq(Message),
         NEW ids \in Seq(CallIds), ids # <<>>
  PROVE  Append(t, ToolResult(r, Head(ids))) \o Results(r, Tail(ids))
           = t \o Results(r, ids)
<1>1. Head(ids) \in CallIds /\ Tail(ids) \in Seq(CallIds)
  OBVIOUS
<1>2. ToolResult(r, Head(ids)) \in Message
  BY <1>1, MessageTypes
<1> DEFINE m == ToolResult(r, Head(ids))
           u == Results(r, Tail(ids))
           v == Results(r, ids)
<1>3. /\ u \in Seq(Message) /\ Len(u) = Len(ids) - 1
      /\ \A k \in 1..Len(ids) - 1 : u[k] = ToolResult(r, ids[k + 1])
  <2>1. /\ Len(Tail(ids)) = Len(ids) - 1
        /\ \A k \in 1..Len(ids) - 1 : Tail(ids)[k] = ids[k + 1]
    OBVIOUS
  <2> QED BY <1>1, <2>1, ResultsType
<1>4. /\ v \in Seq(Message) /\ Len(v) = Len(ids)
      /\ \A k \in 1..Len(ids) : v[k] = ToolResult(r, ids[k])
  BY ResultsType
<1>5. v[1] = m
  BY <1>4
<1> HIDE DEF m, u, v
<1>6. /\ Append(t, m) \in Seq(Message)
      /\ Append(t, m) \o u \in Seq(Message)
      /\ t \o v \in Seq(Message)
      /\ Len(Append(t, m) \o u) = Len(t \o v)
  BY <1>2, <1>3, <1>4 DEF m
<1>7. ASSUME NEW i \in 1..Len(t \o v)
      PROVE  (Append(t, m) \o u)[i] = (t \o v)[i]
  <2>1. CASE i <= Len(t)
    BY <1>2, <1>3, <1>4, <2>1 DEF m
  <2>2. CASE i = Len(t) + 1
    BY <1>2, <1>3, <1>4, <1>5, <2>2 DEF m
  <2>3. CASE i > Len(t) + 1
    <3> DEFINE k == i - Len(t) - 1
    <3>1. k \in 1..Len(ids) - 1 /\ k + 1 \in 1..Len(ids)
      BY <1>4, <2>3
    <3>2. (Append(t, m) \o u)[i] = u[k]
      BY <1>2, <1>3, <2>3, <3>1 DEF m
    <3>3. (t \o v)[i] = v[k + 1]
      BY <1>4, <2>3, <3>1
    <3> QED BY <1>3, <1>4, <3>1, <3>2, <3>3
  <2>4. i \in Nat /\ Len(t) \in Nat
    BY <1>4
  <2>5. i <= Len(t) \/ i = Len(t) + 1 \/ i > Len(t) + 1
    BY <2>4
  <2> QED BY <2>1, <2>2, <2>3, <2>5, Zenon
<1>8. Append(t, m) \o u = t \o v
  BY <1>6, <1>7, SeqEqual
<1> QED BY <1>8 DEF m, u, v

LEMMA PairedOne ==
  ASSUME NEW m \in Message, m.ids = <<>> \/ m.role # "assistant"
  PROVE  <<m>> \in Seq(Message) /\ Paired(<<m>>)
BY DEF Paired

\* Adding one message that calls no tool to a transcript.
LEMMA Extend ==
  ASSUME NEW t \in Seq(Message), t # <<>>, NEW m \in Message, NEW r,
         t[1] = User(r), AllBy(t, r), Ordered(t),
         \A i \in 2..Len(t) : t[i].role # "user",
         ~IsFinal(t[Len(t)]), m.by = r, m.role \in {"assistant", "tool"}
  PROVE  LET u == Append(t, m)
         IN  /\ u \in Seq(Message)
             /\ u # <<>>
             /\ u[1] = User(r)
             /\ \A i \in 2..Len(u) : u[i].role # "user"
             /\ AllBy(u, r)
             /\ Ordered(u)
             /\ u[Len(u)] = m
<1> DEFINE u == Append(t, m)
<1>1. /\ u \in Seq(Message) /\ u # <<>> /\ Len(u) = Len(t) + 1
      /\ \A i \in 1..Len(t) : u[i] = t[i]
      /\ u[Len(t) + 1] = m
      /\ Len(t) \in Nat /\ Len(t) >= 1
  OBVIOUS
<1> HIDE DEF u
<1>2. u[1] = User(r) /\ u[Len(u)] = m
  BY <1>1
<1>3. \A i \in 2..Len(u) : u[i].role # "user"
  <2> TAKE i \in 2..Len(u)
  <2>1. i \in 2..Len(t) \/ i = Len(t) + 1
    BY <1>1
  <2> QED BY <1>1, <2>1
<1>4. AllBy(u, r)
  <2>1. \A i \in 1..Len(u) : i \in 1..Len(t) \/ i = Len(t) + 1
    BY <1>1
  <2> QED BY <1>1, <2>1 DEF AllBy
<1>5. Ordered(u)
  <2> SUFFICES ASSUME NEW i \in 1..Len(u) - 1
               PROVE  Follows(u[i], u[i + 1])
    BY DEF Ordered
  <2>1. CASE i = Len(t)
    BY <1>1, <2>1 DEF Follows, AllBy
  <2>2. CASE i \in 1..Len(t) - 1
    BY <1>1, <2>2 DEF Ordered
  <2> QED BY <1>1, <2>1, <2>2
<1> QED BY <1>1, <1>2, <1>3, <1>4, <1>5 DEF u

LEMMA ProgressStep == TypeInv /\ TurnInProgress /\ [Next]_vars => TurnInProgress'
<1> SUFFICES ASSUME TypeInv, TurnInProgress, [Next]_vars
             PROVE  TurnInProgress'
  OBVIOUS
<1> USE DEF Waiting
<1>0. ASSUME NEW q \in Requests,
             pc'[q] = pc[q] \/ pc'[q] \in Terminal,
             transcript'[q] = transcript[q],
             calls'[q] = calls[q], rounds'[q] = rounds[q]
      PROVE  InProgress(q)'
  <2>1. Anticipated(q)' = Anticipated(q)
    BY <1>0 DEF Anticipated
  <2>2. InProgress(q)
    BY DEF TurnInProgress
  <2>3. CASE pc'[q] = pc[q]
    BY <1>0, <2>1, <2>2, <2>3 DEF InProgress
  <2>4. CASE pc'[q] \in Terminal
    BY <2>4 DEF InProgress, Terminal
  <2> QED BY <1>0, <2>3, <2>4
<1>1. ASSUME NEW r \in Requests, Load(r)
      PROVE  TurnInProgress'
  <2>1. ASSUME NEW q \in Requests, q # r
        PROVE  InProgress(q)'
    BY <1>0, <1>1, <2>1 DEF Load, TypeInv, TypeOK
  <2>2. /\ transcript'[r] = <<User(r)>> /\ calls'[r] = <<>> /\ pc'[r] = "llm"
        /\ User(r) \in Message
    BY <1>1, MessageTypes DEF Load, TypeInv, TypeOK, TurnInProgress, InProgress
  <2>3. Results(r, <<>>) = <<>>
    BY DEF Results
  <2>4. Paired(Anticipated(r))'
    <3>1. Anticipated(r)' = <<User(r)>>
      <4>1. Anticipated(r)' = <<User(r)>> \o <<>>
        BY <2>2, <2>3 DEF Anticipated
      <4> QED BY <2>2, <4>1
    <3>2. Paired(<<User(r)>>)
      BY <2>2, PairedOne DEF User
    <3> QED BY <3>1, <3>2
  <2>5. InProgress(r)'
    BY <2>2, <2>4 DEF InProgress, AllBy, Ordered, IsFinal, User
  <2> QED BY <2>1, <2>5 DEF TurnInProgress
<1>2. ASSUME NEW r \in Requests, NEW m \in Message,
             pc[r] \in {"llm", "stream"}, pc'[r] = "commit", m = Reply(r),
             transcript' = [transcript EXCEPT ![r] = Append(@, m)],
             calls' = calls,
             \A q \in Requests \ {r} : pc'[q] = pc[q] /\ rounds'[q] = rounds[q]
      PROVE  TurnInProgress'
  <2>1. ASSUME NEW q \in Requests, q # r
        PROVE  InProgress(q)'
    BY <1>0, <1>2, <2>1 DEF TypeInv, TypeOK
  <2> DEFINE t == transcript[r]
             u == Append(t, m)
  <2>2. /\ t \in Seq(Message) /\ t # <<>> /\ t[1] = User(r) /\ AllBy(t, r) /\ Ordered(t)
        /\ \A i \in 2..Len(t) : t[i].role # "user"
        /\ ~IsFinal(t[Len(t)])
        /\ Paired(Anticipated(r)) /\ calls[r] = <<>>
    BY <1>2 DEF TurnInProgress, InProgress, TypeInv, TypeOK
  <2>3. m.by = r /\ m.role = "assistant" /\ m.ids = <<>>
    BY <1>2 DEF Reply
  <2>4. /\ u \in Seq(Message) /\ u # <<>> /\ u[1] = User(r)
        /\ \A i \in 2..Len(u) : u[i].role # "user"
        /\ AllBy(u, r) /\ Ordered(u) /\ u[Len(u)] = m
    BY <2>2, <2>3, Extend
  <2>5. transcript'[r] = u /\ calls'[r] = <<>>
    BY <1>2, <2>2 DEF TypeInv, TypeOK
  <2>6. Results(r, <<>>) = <<>>
    BY DEF Results
  <2>7. Paired(t) /\ t \o <<m>> = u
    <3>1. Anticipated(r) = t \o <<>>
      BY <2>2, <2>6 DEF Anticipated
    <3> QED BY <2>2, <3>1
  <2>8. Paired(u)
    BY <2>2, <2>3, <2>7, PairedConcat, PairedOne
  <2>9. Paired(Anticipated(r)')
    <3>1. Anticipated(r)' = u \o <<>>
      BY <2>5, <2>6 DEF Anticipated
    <3>2. u \o <<>> = u
      BY <2>4
    <3> QED BY <2>8, <3>1, <3>2
  <2> HIDE DEF u, t
  <2>10. InProgress(r)'
    BY <1>2, <2>3, <2>4, <2>5, <2>9 DEF InProgress, IsFinal
  <2> QED BY <2>1, <2>10 DEF TurnInProgress
<1>3. ASSUME NEW r \in Requests, AnswerText(r)
      PROVE  TurnInProgress'
  <2>1. Reply(r) \in Message
    BY MessageTypes
  <2> QED BY <1>2, <1>3, <2>1 DEF AnswerText, TypeInv, TypeOK
<1>4. ASSUME NEW r \in Requests, StreamDone(r)
      PROVE  TurnInProgress'
  <2>1. Reply(r) \in Message
    BY MessageTypes
  <2> QED BY <1>2, <1>4, <2>1 DEF StreamDone, TypeInv, TypeOK
<1>5. ASSUME NEW r \in Requests, NEW ids \in ToolRequests, AnswerCalls(r, ids)
      PROVE  TurnInProgress'
  <2>1. ASSUME NEW q \in Requests, q # r
        PROVE  InProgress(q)'
    BY <1>0, <1>5, <2>1 DEF AnswerCalls, TypeInv, TypeOK
  <2> DEFINE t == transcript[r]
             m == ToolCalls(r, ids)
             u == Append(t, m)
             w == Results(r, ids)
  <2>2. /\ t \in Seq(Message) /\ t # <<>> /\ t[1] = User(r) /\ AllBy(t, r) /\ Ordered(t)
        /\ \A i \in 2..Len(t) : t[i].role # "user"
        /\ ~IsFinal(t[Len(t)])
        /\ Paired(Anticipated(r)) /\ calls[r] = <<>>
    BY <1>5 DEF AnswerCalls, TurnInProgress, InProgress, TypeInv, TypeOK
  <2>3. ids \in Seq(CallIds) /\ ids # <<>>
    BY ToolRequestsAssumption
  <2>4. m \in Message /\ m.by = r /\ m.role = "assistant" /\ ~IsFinal(m)
    BY <2>3, MessageTypes DEF ToolCalls, IsFinal
  <2>5. /\ u \in Seq(Message) /\ u # <<>> /\ u[1] = User(r)
        /\ \A i \in 2..Len(u) : u[i].role # "user"
        /\ AllBy(u, r) /\ Ordered(u) /\ u[Len(u)] = m
    <3> HIDE DEF t, m
    <3> QED BY <2>2, <2>4, Extend
  <2>6. transcript'[r] = u /\ calls'[r] = ids /\ pc'[r] = "tools"
    BY <1>5 DEF AnswerCalls, TypeInv, TypeOK
  <2>7. Paired(t)
    <3>1. Anticipated(r) = t \o <<>>
      BY <2>2 DEF Anticipated, Results
    <3> QED BY <2>2, <3>1
  <2>8. w \in Seq(Message) /\ Paired(<<m>> \o w)
    BY <2>3, CallsPaired, ResultsType
  <2>9. Paired(Anticipated(r)')
    <3>1. Anticipated(r)' = u \o w
      BY <2>6 DEF Anticipated
    <3> HIDE DEF t, m, w
    <3>2. u = t \o <<m>> /\ <<m>> \in Seq(Message)
      BY <2>2, <2>4, AppendIsConcat
    <3>3. u \o w = t \o (<<m>> \o w)
      BY <2>2, <2>8, <3>2, ConcatAssociative
    <3>4. Paired(t \o (<<m>> \o w))
      <4>1. <<m>> \o w \in Seq(Message)
        BY <2>8, <3>2
      <4> QED BY <2>2, <2>7, <2>8, <4>1, PairedConcat
    <3> QED BY <3>1, <3>3, <3>4
  <2> HIDE DEF u, t, m
  <2>10. InProgress(r)'
    BY <2>3, <2>4, <2>5, <2>6, <2>9 DEF InProgress
  <2> QED BY <2>1, <2>10 DEF TurnInProgress
<1>6. ASSUME NEW r \in Requests, RunSkill(r)
      PROVE  TurnInProgress'
  <2>1. ASSUME NEW q \in Requests, q # r
        PROVE  InProgress(q)'
    BY <1>0, <1>6, <2>1 DEF RunSkill, TypeInv, TypeOK
  <2> DEFINE t == transcript[r]
             m == ToolResult(r, Head(calls[r]))
             u == Append(t, m)
  <2>2. /\ t \in Seq(Message) /\ t # <<>> /\ t[1] = User(r) /\ AllBy(t, r) /\ Ordered(t)
        /\ \A i \in 2..Len(t) : t[i].role # "user"
        /\ ~IsFinal(t[Len(t)])
        /\ Paired(Anticipated(r)) /\ calls[r] # <<>> /\ calls[r] \in Seq(CallIds)
    BY <1>6 DEF RunSkill, TurnInProgress, InProgress, TypeInv, TypeOK
  <2>3. m \in Message /\ m.by = r /\ m.role = "tool" /\ ~IsFinal(m)
    BY <2>2, MessageTypes DEF ToolResult, IsFinal
  <2>4. /\ u \in Seq(Message) /\ u # <<>> /\ u[1] = User(r)
        /\ \A i \in 2..Len(u) : u[i].role # "user"
        /\ AllBy(u, r) /\ Ordered(u) /\ u[Len(u)] = m
    <3> HIDE DEF t, m
    <3> QED BY <2>2, <2>3, Extend
  <2>5. /\ transcript'[r] = u /\ calls'[r] = Tail(calls[r])
        /\ pc'[r] = "tools" \/ (pc'[r] \in {"llm", "err"} /\ calls'[r] = <<>>)
        /\ pc'[r] = "tools" => calls'[r] # <<>>
    BY <1>6 DEF RunSkill, TypeInv, TypeOK
  <2>6. Anticipated(r)' = Anticipated(r)
    <3>1. Anticipated(r)' = u \o Results(r, Tail(calls[r]))
      BY <2>5 DEF Anticipated
    <3>2. Anticipated(r) = t \o Results(r, calls[r])
      BY DEF Anticipated
    <3> QED BY <2>2, <3>1, <3>2, AnticipatedStable
  <2> HIDE DEF u, t, m
  <2>7. InProgress(r)'
    BY <2>2, <2>3, <2>4, <2>5, <2>6 DEF InProgress
  <2> QED BY <2>1, <2>7 DEF TurnInProgress
<1>7. ASSUME NEW r \in Requests, OpenStream(r)
      PROVE  TurnInProgress'
  <2>1. ASSUME NEW q \in Requests, q # r
        PROVE  InProgress(q)'
    BY <1>0, <1>7, <2>1 DEF OpenStream, TypeInv, TypeOK
  <2>2. InProgress(r)'
    <3>1. Anticipated(r)' = Anticipated(r)
      BY <1>7 DEF OpenStream, Anticipated
    <3> QED BY <1>7, <3>1 DEF OpenStream, TurnInProgress, InProgress, TypeInv, TypeOK
  <2> QED BY <2>1, <2>2 DEF TurnInProgress
<1>8. ASSUME NEW r \in Requests, ProviderFails(r) \/ Commit(r) \/ Drop(r)
      PROVE  TurnInProgress'
  BY <1>0, <1>8 DEF ProviderFails, Commit, Drop, TurnInProgress, TypeInv, TypeOK, Terminal
<1>9. ASSUME NEW s \in Sessions, ClearSession(s)
      PROVE  TurnInProgress'
  BY <1>0, <1>9 DEF ClearSession, TurnInProgress
<1>10. CASE UNCHANGED vars
  BY <1>0, <1>10 DEF vars, TurnInProgress
<1> QED
  BY <1>1, <1>3, <1>4, <1>5, <1>6, <1>7, <1>8, <1>9, <1>10 DEF Next, Step
-----------------------------------------------------------------------------
(* What the sessions hold. *)

\* What a finished turn leaves in transcript is one whole turn.
LEMMA CommitIsTurn ==
  ASSUME TypeInv, TurnInProgress, NEW r \in Requests, pc[r] = "commit"
  PROVE  IsTurn(transcript[r], r)
<1> DEFINE t == transcript[r]
<1>1. /\ t \in Seq(Message) /\ t # <<>> /\ t[1] = User(r) /\ AllBy(t, r) /\ Ordered(t)
      /\ \A i \in 2..Len(t) : t[i].role # "user"
      /\ IsFinal(t[Len(t)])
      /\ Paired(Anticipated(r)) /\ calls[r] = <<>>
  BY DEF Waiting, TurnInProgress, InProgress, TypeInv, TypeOK
<1>2. Paired(t)
  <2>1. Anticipated(r) = t \o <<>>
    BY <1>1 DEF Anticipated, Results
  <2> QED BY <1>1, <2>1
<1> HIDE DEF t
<1>3. WholeTurns(t)
  BY <1>1, <1>2 DEF WholeTurns, User
<1>4. \A i \in 1..Len(t) : t[i].role = "user" => i = 1
  BY <1>1
<1>5. IsTurn(t, r)
  BY <1>1, <1>3, <1>4 DEF IsTurn
<1> QED BY <1>5 DEF t

SessionInv == HistoryIsWholeTurns /\ RecordedOnce /\ OkIsRecorded

LEMMA SessionStep == TypeInv /\ TurnInProgress /\ SessionInv /\ [Next]_vars => SessionInv'
<1> SUFFICES ASSUME TypeInv, TurnInProgress, SessionInv, [Next]_vars
             PROVE  SessionInv'
  OBVIOUS
<1>0. task' = task
  BY DEF Next, Step, vars, Load, AnswerText, AnswerCalls, RunSkill, OpenStream, StreamDone,
         ProviderFails, Commit, Drop, ClearSession
<1>1. ASSUME NEW r \in Requests, Commit(r)
      PROVE  SessionInv'
  <2> DEFINE s == Session(r)
             h == history[s]
             t == transcript[r]
             c == h \o t
  <2>1. /\ s \in Sessions /\ h \in Seq(Message) /\ t \in Seq(Message)
        /\ history' = [history EXCEPT ![s] = c]
        /\ pc' = [pc EXCEPT ![r] = "ok"]
        /\ uncleared' = uncleared /\ pc[r] = "commit"
    BY <1>1 DEF Commit, Session, TypeInv, TypeOK
  <2>2. IsTurn(t, r) /\ t[1] = User(r)
    BY <2>1, CommitIsTurn DEF Waiting, TurnInProgress, InProgress
  <2>3. history'[s] = c /\ \A q \in Sessions \ {s} : history'[q] = history[q]
    BY <2>1 DEF TypeInv, TypeOK
  <2>4. pc'[r] = "ok" /\ \A q \in Requests \ {r} : pc'[q] = pc[q]
    BY <2>1 DEF TypeInv, TypeOK
  <2>5. \A q \in Requests : Session(q)' = Session(q)
    BY <1>0 DEF Session
  <2>6. /\ c \in Seq(Message) /\ Len(c) = Len(h) + Len(t)
        /\ \A i \in 1..Len(h) : c[i] = h[i]
        /\ \A i \in 1..Len(t) : c[Len(h) + i] = t[i]
        /\ \A i \in 1..Len(c) : i \notin 1..Len(h) =>
             i - Len(h) \in 1..Len(t) /\ c[i] = t[i - Len(h)]
    <3> HIDE DEF h, t
    <3> QED BY <2>1, ConcatAt
  <2>7. \A i \in 1..Len(h) : h[i].by \in Requests /\ pc[h[i].by] = "ok" /\ Session(h[i].by) = s
    BY <2>1 DEF SessionInv, RecordedOnce
  <2>8. \A i \in 1..Len(h) : h[i].by # r
    BY <2>1, <2>7
  <2>9. \A i \in 1..Len(t) : t[i].by = r /\ (t[i].role = "user" => i = 1)
    BY <2>2 DEF IsTurn, AllBy
  <2> HIDE DEF c, t, h, s
  <2>10. HistoryIsWholeTurns'
    <3>1. WholeTurns(c)
      <4>1. WholeTurns(h) /\ WholeTurns(t)
        BY <2>1, <2>2 DEF SessionInv, HistoryIsWholeTurns, IsTurn, h
      <4> QED BY <2>1, <4>1, WholeTurnsConcat DEF c
    <3> QED BY <2>3, <3>1 DEF SessionInv, HistoryIsWholeTurns
  <2>11. RecordedOnce'
    <3>1. ASSUME NEW q \in Sessions, NEW i \in 1..Len(history'[q]), NEW a,
                 a = history'[q][i].by
          PROVE  a \in Requests /\ pc'[a] = "ok" /\ Session(a) = q
      <4>1. CASE q = s
        <5>1. i \in 1..Len(c) /\ a = c[i].by
          BY <2>3, <3>1, <4>1
        <5>2. CASE i \in 1..Len(h)
          <6>1. a = h[i].by
            BY <2>6, <5>1, <5>2
          <6> QED BY <2>4, <2>7, <2>8, <4>1, <5>2, <6>1
        <5>3. CASE i \notin 1..Len(h)
          <6>1. a = r
            BY <2>6, <2>9, <5>1, <5>3
          <6> QED BY <2>4, <4>1, <6>1 DEF s
        <5> QED BY <5>2, <5>3
      <4>2. CASE q # s
        <5>1. history'[q] = history[q]
          BY <2>3, <4>2
        <5>2. a \in Requests /\ pc[a] = "ok" /\ Session(a) = q
          BY <3>1, <5>1 DEF SessionInv, RecordedOnce
        <5> QED BY <2>1, <2>4, <5>2
      <4> QED BY <4>1, <4>2
    <3>2. ASSUME NEW q \in Sessions, NEW i \in 1..Len(history'[q]), NEW j \in 1..Len(history'[q]),
                 history'[q][i].role = "user", history'[q][j] = history'[q][i]
          PROVE  i = j
      <4>1. CASE q = s
        <5>1. c[i].role = "user" /\ c[j] = c[i] /\ i \in 1..Len(c) /\ j \in 1..Len(c)
          BY <2>3, <3>2, <4>1
        <5>2. CASE i \in 1..Len(h) /\ j \in 1..Len(h)
          <6>1. h[i].role = "user" /\ h[j] = h[i]
            BY <2>6, <5>1, <5>2
          <6> QED BY <2>1, <5>2, <6>1 DEF SessionInv, RecordedOnce, h
        <5>3. CASE i \in 1..Len(h) /\ j \notin 1..Len(h)
          <6>1. c[j].by = r /\ c[i].by # r
            BY <2>6, <2>8, <2>9, <5>1, <5>3
          <6> QED BY <5>1, <6>1
        <5>4. CASE i \notin 1..Len(h) /\ j \in 1..Len(h)
          <6>1. c[i].by = r /\ c[j].by # r
            BY <2>6, <2>8, <2>9, <5>1, <5>4
          <6> QED BY <5>1, <6>1
        <5>5. CASE i \notin 1..Len(h) /\ j \notin 1..Len(h)
          <6>1. /\ i - Len(h) \in 1..Len(t) /\ c[i] = t[i - Len(h)]
                /\ j - Len(h) \in 1..Len(t) /\ c[j] = t[j - Len(h)]
            BY <2>6, <5>1, <5>5
          <6>2. i - Len(h) = 1 /\ j - Len(h) = 1
            BY <2>9, <5>1, <6>1
          <6>3. Len(h) \in Nat
            BY <2>1
          <6> QED BY <5>1, <6>2, <6>3
        <5> QED BY <5>2, <5>3, <5>4, <5>5
      <4>2. CASE q # s
        <5>1. history'[q] = history[q]
          BY <2>3, <4>2
        <5> QED BY <3>2, <5>1 DEF SessionInv, RecordedOnce
      <4> QED BY <4>1, <4>2
    <3>3. \A q \in Requests : Session(q)' = Session(q)
      BY <2>5
    <3> QED BY <3>1, <3>2, <3>3 DEF RecordedOnce
  <2>12. OkIsRecorded'
    <3> SUFFICES ASSUME NEW q \in uncleared', q \in Requests, pc'[q] = "ok"
                 PROVE  \E i \in 1..Len(history'[Session(q)]) : history'[Session(q)][i] = User(q)
      BY <2>1, <2>5 DEF OkIsRecorded, TypeInv, TypeOK
    <3>1. CASE q = r
      <4>1. c[Len(h) + 1] = User(r) /\ Len(h) + 1 \in 1..Len(c)
        <5>1. 1 \in 1..Len(t) /\ Len(h) \in Nat
          BY <2>1, <2>2 DEF IsTurn
        <5> QED BY <2>2, <2>6, <5>1
      <4>2. Session(q) = s
        BY <3>1 DEF s
      <4> QED BY <2>3, <3>1, <4>1, <4>2
    <3>2. CASE q # r
      <4>1. Session(q) \in Sessions
        BY DEF Session, TypeInv, TypeOK
      <4>2. PICK i \in 1..Len(history[Session(q)]) : history[Session(q)][i] = User(q)
        BY <2>1, <2>4, <3>2 DEF SessionInv, OkIsRecorded
      <4>3. CASE Session(q) = s
        <5>1. i \in 1..Len(c) /\ c[i] = User(q)
          <6>1. Len(h) \in Nat /\ Len(t) \in Nat
            BY <2>1
          <6> QED BY <2>6, <4>2, <4>3, <6>1 DEF h
        <5> QED BY <2>3, <4>3, <5>1
      <4>4. CASE Session(q) # s
        BY <2>3, <4>1, <4>2, <4>4
      <4> QED BY <4>3, <4>4
    <3> QED BY <3>1, <3>2
  <2> QED BY <2>10, <2>11, <2>12 DEF SessionInv
<1>2. ASSUME NEW s \in Sessions, ClearSession(s)
      PROVE  SessionInv'
  <2>1. /\ history'[s] = <<>> /\ pc' = pc
        /\ \A q \in Sessions \ {s} : history'[q] = history[q]
        /\ \A q \in Requests : Session(q)' = Session(q)
        /\ uncleared' = {q \in uncleared : Session(q) # s}
    BY <1>0, <1>2 DEF ClearSession, Session, TypeInv, TypeOK
  <2>2. HistoryIsWholeTurns'
    <3>1. WholeTurns(<<>>)
      BY DEF WholeTurns, Ordered, Paired
    <3> QED BY <2>1, <3>1 DEF SessionInv, HistoryIsWholeTurns
  <2>3. RecordedOnce'
    BY <2>1 DEF SessionInv, RecordedOnce
  <2>4. OkIsRecorded'
    <3> SUFFICES ASSUME NEW q \in uncleared', pc'[q] = "ok"
                 PROVE  \E i \in 1..Len(history'[Session(q)']) : history'[Session(q)'][i] = User(q)
      BY DEF OkIsRecorded
    <3>1. q \in uncleared /\ q \in Requests /\ pc[q] = "ok" /\ Session(q) # s
      BY <2>1 DEF TypeInv, TypeOK
    <3>2. Session(q) \in Sessions /\ Session(q)' = Session(q)
      BY <2>1, <3>1 DEF Session, TypeInv, TypeOK
    <3>3. history'[Session(q)'] = history[Session(q)]
      BY <2>1, <3>1, <3>2
    <3> QED BY <3>1, <3>3 DEF SessionInv, OkIsRecorded
  <2> QED BY <2>2, <2>3, <2>4 DEF SessionInv
<1>3. ASSUME history' = history,
             \A q \in Requests : pc'[q] = "ok" <=> pc[q] = "ok",
             \A q \in uncleared' : q \in uncleared \/ (q \in Requests /\ pc'[q] # "ok")
      PROVE  SessionInv'
  <2>1. history' = history /\ \A q \in Requests : Session(q)' = Session(q)
    BY <1>0, <1>3 DEF Session
  <2>2. HistoryIsWholeTurns'
    BY <2>1 DEF SessionInv, HistoryIsWholeTurns
  <2>3. RecordedOnce'
    BY <1>3, <2>1 DEF SessionInv, RecordedOnce
  <2>4. OkIsRecorded'
    <3> SUFFICES ASSUME NEW q \in uncleared', pc'[q] = "ok"
                 PROVE  \E i \in 1..Len(history'[Session(q)']) : history'[Session(q)'][i] = User(q)
      BY DEF OkIsRecorded
    <3>1. q \in uncleared /\ q \in Requests /\ pc[q] = "ok"
      BY <1>3 DEF TypeInv, TypeOK
    <3> QED BY <2>1, <3>1 DEF SessionInv, OkIsRecorded
  <2> QED BY <2>2, <2>3, <2>4 DEF SessionInv
<1>4. ASSUME NEW r \in Requests, Load(r) \/ AnswerText(r) \/ RunSkill(r) \/ OpenStream(r)
                                 \/ StreamDone(r) \/ ProviderFails(r) \/ Drop(r)
      PROVE  SessionInv'
  BY <1>3, <1>4 DEF Load, AnswerText, RunSkill, OpenStream, StreamDone, ProviderFails, Drop,
                    TypeInv, TypeOK, Waiting
<1>5. ASSUME NEW r \in Requests, NEW ids \in ToolRequests, AnswerCalls(r, ids)
      PROVE  SessionInv'
  BY <1>3, <1>5 DEF AnswerCalls, TypeInv, TypeOK
<1>6. CASE UNCHANGED vars
  BY <1>3, <1>6 DEF vars
<1> QED BY <1>1, <1>2, <1>4, <1>5, <1>6 DEF Next, Step

\* The invariant is inductive.
LEMMA AgentInvariant == Spec => [](TypeInv /\ TurnInProgress /\ SessionInv)
<1>1. Init => TypeInv /\ TurnInProgress /\ SessionInv
  BY DEF Init, TypeInv, TypeOK, TurnInProgress, InProgress, Waiting, SessionInv,
         HistoryIsWholeTurns, WholeTurns, Ordered, Paired, RecordedOnce, OkIsRecorded
<1> QED BY <1>1, TypeStep, ProgressStep, SessionStep, PTL DEF Spec

\* Sessions hold whole turns with every tool call answered, whatever the
\* interleaving of chat, chat_with_tools, chat_stream and clear_session.
THEOREM SessionsHoldWholeTurns == Spec => []HistoryIsWholeTurns
<1>1. SessionInv => HistoryIsWholeTurns
  BY DEF SessionInv
<1> QED BY <1>1, AgentInvariant, PTL

\* A failed or dropped turn leaves no message, a successful one is stored once.
THEOREM TurnsRecordedOnce == Spec => []RecordedOnce
<1>1. SessionInv => RecordedOnce
  BY DEF SessionInv
<1> QED BY <1>1, AgentInvariant, PTL

\* A successful turn is in its session until the session is cleared.
THEOREM SuccessIsRecorded == Spec => []OkIsRecorded
<1>1. SessionInv => OkIsRecorded
  BY DEF SessionInv
<1> QED BY <1>1, AgentInvariant, PTL
-----------------------------------------------------------------------------
(* The round limit. *)

LEMMA RoundLimitPositive == RoundLimit \in Nat /\ RoundLimit > 0
BY MaxRoundsAssumption DEF RoundLimit

LEMMA RoundsStep ==
  TypeInv /\ TurnInProgress /\ RoundsBounded /\ [Next]_vars => RoundsBounded'
<1> SUFFICES ASSUME TypeInv, TurnInProgress, RoundsBounded, [Next]_vars,
                    NEW q \in Requests
             PROVE  rounds'[q] <= RoundLimit /\ (pc'[q] = "llm" => rounds'[q] < RoundLimit)
  BY DEF RoundsBounded
<1>1. /\ rounds[q] \in Nat /\ rounds[q] <= RoundLimit
      /\ pc[q] = "llm" => rounds[q] < RoundLimit
      /\ pc[q] = "idle" => rounds[q] = 0
  BY DEF TypeInv, TypeOK, RoundsBounded, TurnInProgress, InProgress
<1>2. ASSUME rounds'[q] = rounds[q], pc'[q] = pc[q] \/ pc'[q] # "llm"
      PROVE  rounds'[q] <= RoundLimit /\ (pc'[q] = "llm" => rounds'[q] < RoundLimit)
  BY <1>1, <1>2
<1>3. ASSUME NEW r \in Requests, Load(r)
      PROVE  rounds'[q] <= RoundLimit /\ (pc'[q] = "llm" => rounds'[q] < RoundLimit)
  BY <1>1, <1>3, RoundLimitPositive DEF Load, TypeInv, TypeOK
<1>4. ASSUME NEW r \in Requests, AnswerText(r) \/ \E ids \in ToolRequests : AnswerCalls(r, ids)
      PROVE  rounds'[q] <= RoundLimit /\ (pc'[q] = "llm" => rounds'[q] < RoundLimit)
  BY <1>1, <1>4, RoundLimitPositive DEF AnswerText, AnswerCalls, TypeInv, TypeOK
<1>5. ASSUME NEW r \in Requests, RunSkill(r)
      PROVE  rounds'[q] <= RoundLimit /\ (pc'[q] = "llm" => rounds'[q] < RoundLimit)
  BY <1>1, <1>5 DEF RunSkill, TypeInv, TypeOK
<1>6. ASSUME NEW r \in Requests,
             OpenStream(r) \/ StreamDone(r) \/ ProviderFails(r) \/ Commit(r) \/ Drop(r)
      PROVE  rounds'[q] <= RoundLimit /\ (pc'[q] = "llm" => rounds'[q] < RoundLimit)
  BY <1>2, <1>6 DEF OpenStream, StreamDone, ProviderFails, Commit, Drop, TypeInv, TypeOK
<1>7. ASSUME NEW s \in Sessions, ClearSession(s)
      PROVE  rounds'[q] <= RoundLimit /\ (pc'[q] = "llm" => rounds'[q] < RoundLimit)
  BY <1>2, <1>7 DEF ClearSession
<1>8. CASE UNCHANGED vars
  BY <1>2, <1>8 DEF vars
<1> QED BY <1>3, <1>4, <1>5, <1>6, <1>7, <1>8 DEF Next, Step

\* No turn asks the provider more often than max_rounds allows.
THEOREM RoundsAreBounded == Spec => []RoundsBounded
<1>1. Init => RoundsBounded
  <2> SUFFICES ASSUME Init, NEW r \in Requests
               PROVE  rounds[r] <= RoundLimit /\ (pc[r] = "llm" => rounds[r] < RoundLimit)
    BY DEF RoundsBounded
  <2>1. rounds[r] = 0
    BY DEF Init
  <2> QED BY <2>1, RoundLimitPositive
<1> QED BY <1>1, RoundsStep, AgentInvariant, PTL DEF Spec

-----------------------------------------------------------------------------
(* The agent implements the log of whole turns. *)

LEMMA LogStep ==
  TypeInv /\ TurnInProgress /\ [Next]_vars => [Log!LogNext]_(Log!logVars)
<1> SUFFICES ASSUME TypeInv, TurnInProgress, [Next]_vars
             PROVE  [Log!LogNext]_(Log!logVars)
  OBVIOUS
<1> DEFINE st == [r \in Requests |-> Status(pc[r])]
<1>1. ASSUME NEW r \in Requests, Commit(r)
      PROVE  Log!Record(r, Session(r))
  <2> DEFINE s == Session(r)
             h == history[s]
             t == transcript[r]
             turn == SubSeq(history'[s], Len(h) + 1, Len(history'[s]))
  <2>1. /\ s \in Sessions /\ h \in Seq(Message) /\ t \in Seq(Message)
        /\ history' = [history EXCEPT ![s] = h \o t]
        /\ history'[s] = h \o t
        /\ pc' = [pc EXCEPT ![r] = "ok"] /\ pc[r] = "commit"
    BY <1>1 DEF Commit, Session, TypeInv, TypeOK
  <2>2. IsTurn(t, r)
    BY <2>1, CommitIsTurn
  <2>3. turn = t
    <3>1. t # <<>>
      BY <2>2 DEF IsTurn
    <3> HIDE DEF s, h, t
    <3>2. Len(h) \in Nat /\ Len(t) \in Nat /\ Len(t) >= 1 /\ Len(h \o t) = Len(h) + Len(t)
      BY <2>1, <3>1
    <3>3. SubSeq(h \o t, Len(h) + 1, Len(h) + Len(t)) = SubSeq(t, 1, Len(t))
      <4>1. /\ Len(h) + 1 \in Len(h) + 1 .. Len(h) + Len(t)
            /\ Len(h) + Len(t) \in Len(h) + 1 .. Len(h) + Len(t)
            /\ Len(h) + 1 - Len(h) = 1 /\ Len(h) + Len(t) - Len(h) = Len(t)
        BY <3>2
      <4> QED BY <2>1, <4>1, SubSeqOfConcat2
    <3>4. SubSeq(t, 1, Len(t)) = t
      BY <2>1, SubSeqFull
    <3> QED BY <2>1, <3>2, <3>3, <3>4
  <2>4. st[r] = "open" /\ st' = [st EXCEPT ![r] = "ok"]
    BY <2>1 DEF Status, Terminal, TypeInv, TypeOK
  <2>5. Log!IsTurn(t, r)
    BY <2>2 DEF IsTurn, WholeTurns, Ordered, Paired, Follows, IsFinal, AllBy, ToolResult,
       Log!IsTurn, Log!WholeTurns, Log!Ordered, Log!Paired, Log!Follows, Log!IsFinal,
       Log!AllBy, Log!ToolResult
  <2> QED BY <2>1, <2>3, <2>4, <2>5 DEF Log!Record
<1>2. ASSUME NEW r \in Requests, NEW p \in Terminal \ {"ok"}, pc[r] \in Waiting,
             history' = history, pc' = [pc EXCEPT ![r] = p]
      PROVE  Log!GiveUp(r)
  <2>1. st[r] = "open" /\ st' = [st EXCEPT ![r] = "failed"]
    BY <1>2 DEF Status, Terminal, Waiting, TypeInv, TypeOK
  <2> QED BY <1>2, <2>1 DEF Log!GiveUp
<1>3. ASSUME NEW r \in Requests, NEW p \in Waiting, pc[r] \notin Terminal,
             history' = history, pc' = [pc EXCEPT ![r] = p]
      PROVE  UNCHANGED Log!logVars
  <2>1. st' = st
    BY <1>3 DEF Status, Terminal, Waiting, TypeInv, TypeOK
  <2> QED BY <1>3, <2>1 DEF Log!logVars
<1>4. ASSUME NEW r \in Requests,
             \/ Load(r) \/ AnswerText(r) \/ OpenStream(r) \/ StreamDone(r)
             \/ \E ids \in ToolRequests : AnswerCalls(r, ids)
      PROVE  UNCHANGED Log!logVars
  <2>1. /\ history' = history /\ pc[r] \notin Terminal
        /\ \E p \in Waiting : pc' = [pc EXCEPT ![r] = p]
    BY <1>4 DEF Load, AnswerText, OpenStream, StreamDone, AnswerCalls, Waiting, Terminal
  <2> QED BY <1>3, <2>1
<1>5. ASSUME NEW r \in Requests, ProviderFails(r) \/ Drop(r)
      PROVE  Log!GiveUp(r)
  BY <1>2, <1>5 DEF ProviderFails, Drop, Waiting, Terminal
<1>6. ASSUME NEW r \in Requests, RunSkill(r)
      PROVE  Log!GiveUp(r) \/ UNCHANGED Log!logVars
  <2>1. /\ history' = history /\ pc[r] = "tools"
        /\ \E p \in {"tools", "llm", "err"} : pc' = [pc EXCEPT ![r] = p]
    BY <1>6 DEF RunSkill
  <2> QED BY <1>2, <1>3, <2>1 DEF Waiting, Terminal
<1>7. ASSUME NEW s \in Sessions, ClearSession(s)
      PROVE  Log!Forget(s)
  BY <1>7 DEF ClearSession, Log!Forget
<1>8. CASE UNCHANGED vars
  BY <1>8 DEF vars, Log!logVars
<1>9. \A r \in Requests : Session(r) \in Sessions
  BY DEF Session, TypeInv, TypeOK
<1> QED BY <1>1, <1>4, <1>5, <1>6, <1>7, <1>8, <1>9 DEF Next, Step, Log!LogNext

\* Every behaviour of the agent is one of the log: a turn is recorded whole, in
\* one step, by the request that then reports success.
THEOREM AgentImplementsLog == Spec => ImplementsLog
<1>1. Init => Log!LogInit
  BY DEF Init, Log!LogInit, Status, Terminal
<1> QED BY <1>1, LogStep, AgentInvariant, PTL DEF Spec, ImplementsLog, Log!LogSpec

-----------------------------------------------------------------------------
(* What the provider is asked with.  Beyond what a session holds, a prompt *)
(* needs every tool message to answer a call that stands before it; and    *)
(* the prompt of a turn under way is what it loaded and its transcript.    *)

Called(h) ==
  \A i \in 1..Len(h) : h[i].role = "tool" =>
    \E j \in 1..i - 1 : h[j].role = "assistant" /\ i - j <= Len(h[j].ids)

\* What the provider is asked with is whole turns and the turn's own messages.
Loaded(r, h) ==
  /\ h \in Seq(Message) /\ WholeTurns(h) /\ Called(h)
  /\ messages[r] = (SystemPrompt \o h) \o transcript[r]

PromptIs(r) ==
  /\ pc[r] \in Waiting => Called(Anticipated(r))
  /\ pc[r] \in {"llm", "tools"} => \E h : Loaded(r, h)

PromptInv ==
  /\ \A s \in Sessions : Called(history[s])
  /\ \A r \in Requests : PromptIs(r)

LEMMA SystemPromptType == SystemPrompt \in Seq(Message)
BY MessageTypes DEF SystemPrompt

LEMMA CalledConcat ==
  ASSUME NEW h \in Seq(Message), NEW t \in Seq(Message), Called(h), Called(t)
  PROVE  Called(h \o t)
<1> DEFINE c == h \o t
<1>1. /\ Len(c) = Len(h) + Len(t) /\ Len(h) \in Nat /\ Len(t) \in Nat
      /\ \A i \in 1..Len(h) : c[i] = h[i]
      /\ \A i \in 1..Len(t) : c[Len(h) + i] = t[i]
      /\ \A i \in 1..Len(c) : i \notin 1..Len(h) =>
           i - Len(h) \in 1..Len(t) /\ c[i] = t[i - Len(h)]
  BY ConcatAt
<1> HIDE DEF c
<1>2. ASSUME NEW i \in 1..Len(c), c[i].role = "tool"
      PROVE  \E j \in 1..i - 1 : c[j].role = "assistant" /\ i - j <= Len(c[j].ids)
  <2>1. CASE i \in 1..Len(h)
    <3>1. PICK j \in 1..i - 1 : h[j].role = "assistant" /\ i - j <= Len(h[j].ids)
      BY <1>1, <1>2, <2>1 DEF Called
    <3>2. j \in 1..Len(h)
      BY <1>1, <2>1
    <3> QED BY <1>1, <3>1, <3>2
  <2>2. CASE i \notin 1..Len(h)
    <3> DEFINE k == i - Len(h)
    <3>1. k \in 1..Len(t) /\ t[k].role = "tool" /\ i = Len(h) + k
      BY <1>1, <1>2, <2>2
    <3>2. PICK j \in 1..k - 1 : t[j].role = "assistant" /\ k - j <= Len(t[j].ids)
      BY <3>1 DEF Called
    <3>3. j \in 1..Len(t) /\ Len(h) + j \in 1..i - 1 /\ i - (Len(h) + j) = k - j
      BY <1>1, <3>1, <3>2
    <3> QED BY <1>1, <3>2, <3>3
  <2> QED BY <2>1, <2>2
<1> QED BY <1>2 DEF Called, c

LEMMA CalledOne ==
  ASSUME NEW m \in Message, m.role # "tool"
  PROVE  <<m>> \in Seq(Message) /\ Called(<<m>>)
BY DEF Called

\* A message that calls tools and the answers to its calls.
LEMMA CallsCalled ==
  ASSUME NEW r \in Requests, NEW ids \in Seq(CallIds)
  PROVE  Called(<<ToolCalls(r, ids)>> \o Results(r, ids))
<1> DEFINE m == ToolCalls(r, ids)
           w == Results(r, ids)
           c == <<m>> \o w
<1>1. <<m>> \in Seq(Message) /\ m.role = "assistant" /\ m.ids = ids
  BY MessageTypes DEF ToolCalls
<1>2. w \in Seq(Message) /\ Len(w) = Len(ids) /\ Len(ids) \in Nat
  BY ResultsType
<1> HIDE DEF m, w
<1>3. Len(c) = 1 + Len(ids) /\ c[1] = m
  BY <1>1, <1>2
<1> HIDE DEF c
<1>4. ASSUME NEW i \in 1..Len(c), c[i].role = "tool"
      PROVE  1 \in 1..i - 1 /\ c[1].role = "assistant" /\ i - 1 <= Len(c[1].ids)
  <2>1. i # 1
    BY <1>1, <1>3, <1>4
  <2> QED BY <1>1, <1>2, <1>3, <2>1
<1>5. Called(c)
  BY <1>4 DEF Called
<1> QED BY <1>5 DEF c, m, w

\* A message added to the transcript and to the prompt.
LEMMA LoadedAppend ==
  ASSUME TypeInv, NEW r \in Requests, NEW h, Loaded(r, h), NEW m \in Message,
         messages'[r] = Append(messages[r], m), transcript'[r] = Append(transcript[r], m)
  PROVE  Loaded(r, h)'
<1> DEFINE p == SystemPrompt \o h
           t == transcript[r]
<1>1. t \in Seq(Message) /\ p \in Seq(Message) /\ messages[r] = p \o t
  BY SystemPromptType DEF Loaded, TypeInv, TypeOK
<1> HIDE DEF p, t
<1>2. Append(p \o t, m) = (p \o t) \o <<m>>
  <2>1. p \o t \in Seq(Message)
    BY <1>1
  <2> QED BY <2>1, AppendIsConcat
<1>3. Append(t, m) = t \o <<m>> /\ <<m>> \in Seq(Message)
  BY <1>1, AppendIsConcat
<1>4. (p \o t) \o <<m>> = p \o (t \o <<m>>)
  BY <1>1, <1>3, ConcatAssociative
<1>5. messages'[r] = p \o transcript'[r]
  BY <1>1, <1>2, <1>3, <1>4 DEF t
<1> QED BY <1>5 DEF Loaded, p

\* What is anticipated once the provider has answered in text, or has called tools.
LEMMA AnticipatedNow ==
  ASSUME TypeInv, TurnInProgress, NEW r \in Requests, pc[r] \in {"llm", "stream", "commit"}
  PROVE  calls[r] = <<>> /\ Anticipated(r) = transcript[r]
<1>1. calls[r] = <<>> /\ transcript[r] \in Seq(Message)
  BY DEF Waiting, TurnInProgress, InProgress, TypeInv, TypeOK
<1>2. Anticipated(r) = transcript[r] \o <<>>
  BY <1>1 DEF Anticipated, Results
<1> QED BY <1>1, <1>2

LEMMA PromptStep ==
  TypeInv /\ TurnInProgress /\ SessionInv /\ PromptInv /\ [Next]_vars => PromptInv'
<1> SUFFICES ASSUME TypeInv, TurnInProgress, SessionInv, PromptInv, [Next]_vars
             PROVE  PromptInv'
  OBVIOUS
<1>0. ASSUME NEW q \in Requests,
             pc'[q] = pc[q] \/ pc'[q] \in Terminal,
             messages'[q] = messages[q], transcript'[q] = transcript[q], calls'[q] = calls[q]
      PROVE  PromptIs(q)'
  <2>1. Anticipated(q)' = Anticipated(q) /\ \A h : Loaded(q, h)' <=> Loaded(q, h)
    BY <1>0 DEF Anticipated, Loaded
  <2>2. PromptIs(q)
    BY DEF PromptInv
  <2> QED BY <1>0, <2>1, <2>2 DEF PromptIs, Waiting, Terminal
<1>1. ASSUME NEW r \in Requests, Load(r)
      PROVE  PromptInv'
  <2>1. ASSUME NEW q \in Requests, q # r
        PROVE  PromptIs(q)'
    BY <1>0, <1>1, <2>1 DEF Load, TypeInv, TypeOK
  <2>2. Session(r) \in Sessions
    BY DEF Session, TypeInv, TypeOK
  <2>3. /\ transcript'[r] = <<User(r)>> /\ calls'[r] = <<>> /\ pc'[r] = "llm"
        /\ messages'[r] = (SystemPrompt \o history[Session(r)]) \o transcript'[r]
        /\ history' = history
    BY <1>1 DEF Load, TypeInv, TypeOK, TurnInProgress, InProgress
  <2>4. ASSUME NEW h, h = history[Session(r)]
        PROVE  Loaded(r, h)'
    BY <2>2, <2>3, <2>4 DEF Loaded, PromptInv, SessionInv, HistoryIsWholeTurns, TypeInv, TypeOK
  <2>5. Called(Anticipated(r))'
    <3>1. User(r) \in Message /\ User(r).role # "tool"
      BY MessageTypes DEF User
    <3>2. Anticipated(r)' = <<User(r)>> \o <<>>
      BY <2>3 DEF Anticipated, Results
    <3>3. <<User(r)>> \o <<>> = <<User(r)>>
      BY <3>1
    <3> QED BY <3>1, <3>2, <3>3, CalledOne
  <2> QED BY <2>1, <2>3, <2>4, <2>5 DEF PromptInv, PromptIs
<1>2. ASSUME NEW r \in Requests, NEW m \in Message, m.role # "tool",
             pc[r] \in {"llm", "stream"}, pc'[r] = "commit",
             transcript' = [transcript EXCEPT ![r] = Append(@, m)],
             history' = history, messages' = messages, calls' = calls,
             \A q \in Requests \ {r} : pc'[q] = pc[q]
      PROVE  PromptInv'
  <2>1. ASSUME NEW q \in Requests, q # r
        PROVE  PromptIs(q)'
    BY <1>0, <1>2, <2>1 DEF TypeInv, TypeOK
  <2> DEFINE t == transcript[r]
  <2>2. t \in Seq(Message) /\ Called(t) /\ calls[r] = <<>>
    BY <1>2, AnticipatedNow DEF PromptInv, PromptIs, Waiting, TypeInv, TypeOK
  <2>3. Called(Anticipated(r))'
    <3>1. transcript'[r] = Append(t, m) /\ calls'[r] = <<>>
      BY <1>2, <2>2 DEF TypeInv, TypeOK
    <3>2. Anticipated(r)' = Append(t, m) \o <<>>
      BY <3>1 DEF Anticipated, Results
    <3> HIDE DEF t
    <3>3. Append(t, m) \o <<>> = t \o <<m>>
      BY <2>2
    <3>4. Called(t \o <<m>>)
      BY <1>2, <2>2, CalledOne, CalledConcat
    <3> QED BY <3>2, <3>3, <3>4
  <2> QED BY <1>2, <2>1, <2>3 DEF PromptInv, PromptIs
<1>3. ASSUME NEW r \in Requests, AnswerText(r) \/ StreamDone(r)
      PROVE  PromptInv'
  <2>1. Reply(r) \in Message /\ Reply(r).role # "tool"
    BY MessageTypes DEF Reply
  <2> QED BY <1>2, <1>3, <2>1 DEF AnswerText, StreamDone, TypeInv, TypeOK
<1>4. ASSUME NEW r \in Requests, NEW ids \in ToolRequests, AnswerCalls(r, ids)
      PROVE  PromptInv'
  <2>1. ASSUME NEW q \in Requests, q # r
        PROVE  PromptIs(q)'
    BY <1>0, <1>4, <2>1 DEF AnswerCalls, TypeInv, TypeOK
  <2> DEFINE t == transcript[r]
             m == ToolCalls(r, ids)
             w == Results(r, ids)
  <2>2. ids \in Seq(CallIds) /\ m \in Message /\ w \in Seq(Message)
    BY ToolRequestsAssumption, MessageTypes, ResultsType
  <2>3. t \in Seq(Message) /\ Called(t)
    BY <1>4, AnticipatedNow DEF AnswerCalls, PromptInv, PromptIs, Waiting, TypeInv, TypeOK
  <2>4. /\ transcript'[r] = Append(t, m) /\ messages'[r] = Append(messages[r], m)
        /\ calls'[r] = ids /\ pc'[r] = "tools" /\ history' = history
    BY <1>4 DEF AnswerCalls, TypeInv, TypeOK
  <2>5. Called(Anticipated(r))'
    <3>1. Anticipated(r)' = Append(t, m) \o w
      BY <2>4 DEF Anticipated
    <3>2. Called(<<m>> \o w) /\ <<m>> \o w \in Seq(Message)
      BY <2>2, CallsCalled
    <3> HIDE DEF t, m, w
    <3>3. Append(t, m) = t \o <<m>> /\ <<m>> \in Seq(Message)
      BY <2>2, <2>3, AppendIsConcat
    <3>4. Append(t, m) \o w = t \o (<<m>> \o w)
      BY <2>2, <2>3, <3>3, ConcatAssociative
    <3>5. Called(t \o (<<m>> \o w))
      BY <2>3, <3>2, CalledConcat
    <3> QED BY <3>1, <3>4, <3>5
  <2>6. PICK h : Loaded(r, h)
    BY <1>4 DEF AnswerCalls, PromptInv, PromptIs
  <2>7. Loaded(r, h)'
    BY <2>2, <2>4, <2>6, LoadedAppend
  <2> QED BY <2>1, <2>4, <2>5, <2>7 DEF PromptInv, PromptIs
<1>5. ASSUME NEW r \in Requests, RunSkill(r)
      PROVE  PromptInv'
  <2>1. ASSUME NEW q \in Requests, q # r
        PROVE  PromptIs(q)'
    BY <1>0, <1>5, <2>1 DEF RunSkill, TypeInv, TypeOK
  <2> DEFINE m == ToolResult(r, Head(calls[r]))
  <2>2. calls[r] \in Seq(CallIds) /\ calls[r] # <<>> /\ transcript[r] \in Seq(Message)
    BY <1>5 DEF RunSkill, TypeInv, TypeOK
  <2>3. m \in Message
    BY <2>2, MessageTypes
  <2>4. /\ transcript'[r] = Append(transcript[r], m) /\ messages'[r] = Append(messages[r], m)
        /\ calls'[r] = Tail(calls[r]) /\ history' = history
    BY <1>5 DEF RunSkill, TypeInv, TypeOK
  <2>5. Called(Anticipated(r))'
    <3>1. Anticipated(r)' = Anticipated(r)
      BY <2>2, <2>4, AnticipatedStable DEF Anticipated
    <3> QED BY <1>5, <3>1 DEF RunSkill, PromptInv, PromptIs, Waiting
  <2>6. PICK h : Loaded(r, h)
    BY <1>5 DEF RunSkill, PromptInv, PromptIs
  <2>7. Loaded(r, h)'
    BY <2>3, <2>4, <2>6, LoadedAppend
  <2> QED BY <2>1, <2>4, <2>5, <2>7 DEF PromptInv, PromptIs
<1>6. ASSUME NEW r \in Requests, OpenStream(r)
      PROVE  PromptInv'
  <2>1. ASSUME NEW q \in Requests, q # r
        PROVE  PromptIs(q)'
    BY <1>0, <1>6, <2>1 DEF OpenStream, TypeInv, TypeOK
  <2>2. Anticipated(r)' = Anticipated(r) /\ pc'[r] = "stream" /\ history' = history
    BY <1>6 DEF OpenStream, Anticipated, TypeInv, TypeOK
  <2>3. PromptIs(r)'
    BY <1>6, <2>2 DEF OpenStream, PromptInv, PromptIs, Waiting
  <2> QED BY <2>1, <2>2, <2>3 DEF PromptInv
<1>7. ASSUME NEW r \in Requests, Commit(r)
      PROVE  PromptInv'
  <2>1. \A q \in Requests : PromptIs(q)'
    BY <1>0, <1>7 DEF Commit, TypeInv, TypeOK, Terminal
  <2>2. transcript[r] \in Seq(Message) /\ Called(transcript[r])
    BY <1>7, AnticipatedNow DEF Commit, PromptInv, PromptIs, Waiting, TypeInv, TypeOK
  <2>3. Session(r) \in Sessions /\ Called(history[Session(r)] \o transcript[r])
    <3>1. Session(r) \in Sessions
      BY DEF Session, TypeInv, TypeOK
    <3>2. history[Session(r)] \in Seq(Message) /\ Called(history[Session(r)])
      BY <3>1 DEF PromptInv, TypeInv, TypeOK
    <3> QED BY <2>2, <3>1, <3>2, CalledConcat
  <2>4. \A s \in Sessions : Called(history'[s])
    BY <1>7, <2>3 DEF Commit, PromptInv, TypeInv, TypeOK
  <2> QED BY <2>1, <2>4 DEF PromptInv
<1>8. ASSUME NEW r \in Requests, ProviderFails(r) \/ Drop(r)
      PROVE  PromptInv'
  <2>1. \A q \in Requests : PromptIs(q)'
    BY <1>0, <1>8 DEF ProviderFails, Drop, TypeInv, TypeOK, Terminal
  <2> QED BY <1>8, <2>1 DEF ProviderFails, Drop, PromptInv
<1>9. ASSUME NEW s \in Sessions, ClearSession(s)
      PROVE  PromptInv'
  <2>1. \A q \in Requests : PromptIs(q)'
    BY <1>0, <1>9 DEF ClearSession
  <2>2. Called(<<>>)
    BY DEF Called
  <2> QED BY <1>9, <2>1, <2>2 DEF ClearSession, PromptInv, TypeInv, TypeOK
<1>10. CASE UNCHANGED vars
  BY <1>0, <1>10 DEF vars, PromptInv
<1> QED
  BY <1>1, <1>3, <1>4, <1>5, <1>6, <1>7, <1>8, <1>9, <1>10 DEF Next, Step

LEMMA WireFields ==
  ASSUME NEW m
  PROVE  /\ Wire(m).role = m.role
         /\ m.role = "assistant" => Wire(m).tool_calls = m.ids
         /\ m.role # "assistant" => Wire(m).tool_calls = <<>>
         /\ m.role = "tool" => Wire(m).tool_call_id = {m.ids[1]}
BY DEF Wire

\* A prompt of whole turns and of a turn that is paired is one a provider accepts.
LEMMA PairedIsAcceptable ==
  ASSUME NEW r \in Requests, messages[r] \in Seq(Message), Paired(messages[r]), Called(messages[r])
  PROVE  Acceptable(ChatBody(r).messages)
<1> DEFINE p == messages[r]
           wire == ChatBody(r).messages
<1>1. /\ Len(p) \in Nat /\ Len(wire) = Len(p)
      /\ \A i \in 1..Len(p) : p[i] \in Message /\ wire[i] = Wire(p[i])
  <2>1. wire = [i \in 1..Len(p) |-> Wire(p[i])]
    BY DEF ChatBody
  <2> QED BY <2>1
<1> HIDE DEF wire
<1>2. ASSUME NEW i \in 1..Len(wire), NEW k \in 1..Len(wire[i].tool_calls)
      PROVE  i + k <= Len(wire) /\ wire[i + k].tool_call_id = {wire[i].tool_calls[k]}
  <2>1. p[i].role = "assistant" /\ wire[i].tool_calls = p[i].ids /\ p[i] \in Message
    BY <1>1, WireFields
  <2>2. p[i].ids \in Seq(CallIds) /\ Len(p[i].ids) \in Nat /\ k \in 1..Len(p[i].ids)
    BY <2>1 DEF Message
  <2>3. i + k \in 1..Len(p) /\ p[i + k] = ToolResult(p[i].by, p[i].ids[k])
    BY <1>1, <2>1, <2>2 DEF Paired
  <2>4. wire[i + k].tool_call_id = {p[i].ids[k]}
    BY <1>1, <2>3, WireFields DEF ToolResult
  <2> QED BY <1>1, <2>1, <2>3, <2>4
<1>3. ASSUME NEW i \in 1..Len(wire), wire[i].role = "tool"
      PROVE  \E j \in 1..i - 1 : i - j <= Len(wire[j].tool_calls)
  <2>1. PICK j \in 1..i - 1 : p[j].role = "assistant" /\ i - j <= Len(p[j].ids)
    <3>1. i \in 1..Len(p) /\ p[i].role = "tool"
      BY <1>1, <1>3, WireFields
    <3> QED BY <3>1 DEF Called
  <2>2. j \in 1..Len(p)
    BY <1>1
  <2> QED BY <1>1, <2>1, <2>2, WireFields
<1>4. Acceptable(wire)
  BY <1>2, <1>3 DEF Acceptable
<1> QED BY <1>4 DEF wire

LEMMA PromptIsInSync ==
  ASSUME TypeInv, TurnInProgress, PromptInv
  PROVE  PromptInSync
<1> SUFFICES ASSUME NEW r \in Requests, pc[r] = "llm"
             PROVE  /\ Acceptable(ChatBody(r).messages)
                    /\ \E n \in 0..Len(messages[r]) :
                         /\ SubSeq(messages[r], n + 1, Len(messages[r])) = transcript[r]
                         /\ Ordered(SubSeq(messages[r], Len(SystemPrompt) + 1, n))
  BY DEF PromptInSync
<1>1. PICK h : Loaded(r, h)
  BY DEF PromptInv, PromptIs
<1> DEFINE t == transcript[r]
           p == SystemPrompt
<1>2. /\ h \in Seq(Message) /\ WholeTurns(h) /\ Called(h) /\ messages[r] = (p \o h) \o t
      /\ t \in Seq(Message) /\ t # <<>> /\ p \in Seq(Message)
  BY <1>1, SystemPromptType DEF Loaded, TurnInProgress, InProgress, Waiting, TypeInv, TypeOK
<1>3. Called(t) /\ Paired(t)
  BY AnticipatedNow DEF PromptInv, PromptIs, TurnInProgress, InProgress, Waiting
<1>4. Called(p) /\ Paired(p) /\ Paired(h)
  BY <1>2 DEF SystemPrompt, System, Called, Paired, WholeTurns
<1> HIDE DEF t, p
<1>5. p \o h \in Seq(Message) /\ Called(p \o h) /\ Paired(p \o h)
  <2>1. p \o h \in Seq(Message)
    BY <1>2
  <2> QED BY <1>2, <1>4, <2>1, CalledConcat, PairedConcat
<1>6. messages[r] \in Seq(Message) /\ Called(messages[r]) /\ Paired(messages[r])
  <2>1. (p \o h) \o t \in Seq(Message)
    BY <1>2, <1>5
  <2> QED BY <1>2, <1>3, <1>5, <2>1, CalledConcat, PairedConcat
<1>7. Acceptable(ChatBody(r).messages)
  BY <1>6, PairedIsAcceptable
<1> DEFINE n == Len(p \o h)
<1>8. /\ n = Len(p) + Len(h) /\ Len(p) \in Nat /\ Len(h) \in Nat /\ Len(t) \in Nat /\ Len(t) >= 1
      /\ Len(messages[r]) = n + Len(t)
  BY <1>2, <1>5
<1>9. SubSeq(messages[r], n + 1, Len(messages[r])) = t
  <2>1. /\ n + 1 \in n + 1..n + Len(t) /\ n + Len(t) \in n + 1..n + Len(t)
        /\ n + 1 - n = 1 /\ n + Len(t) - n = Len(t)
    BY <1>8
  <2>2. SubSeq((p \o h) \o t, n + 1, n + Len(t)) = SubSeq(t, 1, Len(t))
    BY <1>2, <1>5, <2>1, SubSeqOfConcat2
  <2> QED BY <1>2, <1>8, <2>2, SubSeqFull
<1>10. Ordered(SubSeq(messages[r], Len(p) + 1, n))
  <2>1. CASE h = <<>>
    BY <1>6, <1>8, <2>1 DEF Ordered
  <2>2. CASE h # <<>>
    <3>1. Len(h) >= 1
      BY <1>2, <2>2
    <3>2. SubSeq((p \o h) \o t, Len(p) + 1, n) = SubSeq(p \o h, Len(p) + 1, n)
      <4>1. Len(p) + 1 \in 1..n /\ n \in 1..n
        BY <1>8, <3>1
      <4> QED BY <1>2, <1>5, <4>1, SubSeqOfConcat1
    <3>3. SubSeq(p \o h, Len(p) + 1, Len(p) + Len(h)) = SubSeq(h, 1, Len(h))
      <4>1. /\ Len(p) + 1 \in Len(p) + 1..Len(p) + Len(h)
            /\ Len(p) + Len(h) \in Len(p) + 1..Len(p) + Len(h)
            /\ Len(p) + 1 - Len(p) = 1 /\ Len(p) + Len(h) - Len(p) = Len(h)
        BY <1>8, <3>1
      <4> QED BY <1>2, <4>1, SubSeqOfConcat2
    <3>4. SubSeq(messages[r], Len(p) + 1, n) = h
      BY <1>2, <1>8, <3>2, <3>3, SubSeqFull
    <3> QED BY <1>2, <3>4 DEF WholeTurns
  <2> QED BY <2>1, <2>2
<1>11. n \in 0..Len(messages[r])
  BY <1>8
<1> HIDE DEF n
<1> QED BY <1>7, <1>9, <1>10, <1>11 DEF t, p

\* Whatever tools the model calls and however turns interleave, a provider is
\* asked with a prompt it accepts: whole turns, then exactly what the turn will
\* store (the two lists of chat_with_tools).
THEOREM PromptsStayInSync == Spec => []PromptInSync
<1>1. Init => PromptInv
  BY DEF Init, PromptInv, PromptIs, Called, Waiting
<1>2. TypeInv /\ TurnInProgress /\ PromptInv => PromptInSync
  BY PromptIsInSync
<1> QED BY <1>1, <1>2, PromptStep, AgentInvariant, PTL DEF Spec

-----------------------------------------------------------------------------
(* The bill: one entry for each completion received. *)

Completions == {x \in Requests \X (1..RoundLimit) : x[2] <= rounds[x[1]]}

BillInv == ReportsUsage => IsFiniteSet(Completions) /\ usage = Cardinality(Completions)

LEMMA BillStep == TypeInv /\ RoundsBounded /\ BillInv /\ [Next]_vars => BillInv'
<1> SUFFICES ASSUME TypeInv, RoundsBounded, BillInv, [Next]_vars, ReportsUsage
             PROVE  IsFiniteSet(Completions') /\ usage' = Cardinality(Completions')
  BY DEF BillInv
<1>1. IsFiniteSet(Completions) /\ usage = Cardinality(Completions)
  BY DEF BillInv
<1>2. ASSUME NEW r \in Requests, pc[r] = "llm", usage' = Bill(usage),
             rounds' = [rounds EXCEPT ![r] = @ + 1]
      PROVE  IsFiniteSet(Completions') /\ usage' = Cardinality(Completions')
  <2> DEFINE x == <<r, rounds[r] + 1>>
  <2>1. rounds[r] \in Nat /\ rounds[r] + 1 \in 1..RoundLimit
    BY <1>2, RoundLimitPositive DEF RoundsBounded, TypeInv, TypeOK
  <2>2. x \notin Completions
    BY <2>1 DEF Completions
  <2>3. Completions' = Completions \cup {x}
    <3>1. ASSUME NEW q \in Requests, NEW n \in 1..RoundLimit
          PROVE  n <= rounds'[q] <=> n <= rounds[q] \/ <<q, n>> = x
      <4>1. n \in Nat /\ rounds[q] \in Nat
        BY RoundLimitPositive DEF TypeInv, TypeOK
      <4>2. rounds'[q] = IF q = r THEN rounds[r] + 1 ELSE rounds[q]
        BY <1>2 DEF TypeInv, TypeOK
      <4> QED BY <4>1, <4>2
    <3>2. RoundLimit' = RoundLimit
      BY DEF RoundLimit
    <3> QED BY <2>1, <3>1, <3>2 DEF Completions
  <2>4. usage' = usage + 1
    BY <1>2 DEF Bill
  <2> QED BY <1>1, <2>2, <2>3, <2>4, FS_AddElement
<1>3. ASSUME usage' = usage, rounds' = rounds
      PROVE  IsFiniteSet(Completions') /\ usage' = Cardinality(Completions')
  BY <1>1, <1>3 DEF Completions
<1>4. ASSUME NEW r \in Requests,
             AnswerText(r) \/ \E ids \in ToolRequests : AnswerCalls(r, ids)
      PROVE  IsFiniteSet(Completions') /\ usage' = Cardinality(Completions')
  BY <1>2, <1>4 DEF AnswerText, AnswerCalls
<1>5. ASSUME NEW r \in Requests,
             \/ Load(r) \/ RunSkill(r) \/ OpenStream(r) \/ StreamDone(r)
             \/ ProviderFails(r) \/ Commit(r) \/ Drop(r)
      PROVE  IsFiniteSet(Completions') /\ usage' = Cardinality(Completions')
  BY <1>3, <1>5 DEF Load, RunSkill, OpenStream, StreamDone, ProviderFails, Commit, Drop
<1>6. ASSUME NEW s \in Sessions, ClearSession(s)
      PROVE  IsFiniteSet(Completions') /\ usage' = Cardinality(Completions')
  BY <1>3, <1>6 DEF ClearSession
<1>7. CASE UNCHANGED vars
  BY <1>3, <1>7 DEF vars
<1> QED BY <1>4, <1>5, <1>6, <1>7 DEF Next, Step

\* Every completion whose usage the provider reported is counted once, whatever
\* became of its turn (record_usage).
THEOREM CompletionsAreBilled == Spec => []EveryCompletionBilled
<1>1. Init => BillInv
  <2> SUFFICES ASSUME Init
               PROVE  Completions = {} /\ usage = 0
    BY FS_EmptySet DEF BillInv
  <2>1. \A q \in Requests, n \in 1..RoundLimit : ~(n <= rounds[q])
    BY RoundLimitPositive DEF Init
  <2> QED BY <2>1 DEF Completions, Init
<1>2. BillInv => EveryCompletionBilled
  BY DEF BillInv, Completions, EveryCompletionBilled
<1> QED BY <1>1, <1>2, BillStep, AgentInvariant, RoundsAreBounded, PTL DEF Spec
=============================================================================
