----------------------------- MODULE Mcp_proofs -----------------------------
(***************************************************************************)
(* Over stdio, the lock on the pipes excludes, and a call ends with the    *)
(* answer to its own request as long as the server's own ids are none of   *)
(* the client's: for any number of calls, dropped wherever they are, and   *)
(* whatever the server sends unasked.                                      *)
(*                                                                         *)
(* Over HTTP, a client follows its server's session until its responses    *)
(* overtake one another, and the servers are connected in their order: for *)
(* any manifest, any number of calls, and any loss of their responses.     *)
(***************************************************************************)
EXTENDS Mcp, TLAPS

Line == [kind : Kinds, id : Nat]

\* A line that is no response has no id, or one of the server's.
Unrelated(line) ==
  line.kind \notin {"result", "error"} => line.id = NoId \/ line.id \in ServerIds

Clean(s) == \A k \in 1..Len(s) : Unrelated(s[k])

LEMMA AppendNat ==
  ASSUME NEW s \in Seq(Nat), NEW n \in Nat
  PROVE  Append(s, n) \in Seq(Nat)
OBVIOUS

LEMMA CleanTail ==
  ASSUME NEW s \in Seq(Line), s # <<>>, Clean(s)
  PROVE  Tail(s) \in Seq(Line) /\ Clean(Tail(s)) /\ Head(s) \in Line /\ Unrelated(Head(s))
<1>1. Head(s) = s[1] /\ 1 \in 1..Len(s)
  OBVIOUS
<1>2. Tail(s) \in Seq(Line) /\ Len(Tail(s)) = Len(s) - 1
  OBVIOUS
<1>3. \A k \in 1..Len(Tail(s)) : Tail(s)[k] = s[k + 1] /\ k + 1 \in 1..Len(s)
  OBVIOUS
<1> QED BY <1>1, <1>2, <1>3 DEF Clean

LEMMA CleanAppend ==
  ASSUME NEW s \in Seq(Line), Clean(s), NEW x \in Line, Unrelated(x)
  PROVE  Append(s, x) \in Seq(Line) /\ Clean(Append(s, x))
BY DEF Clean

LEMMA CleanCut ==
  ASSUME NEW s \in Seq(Line), s # <<>>, Clean(s)
  PROVE  <<Garbled>> \o Tail(s) \in Seq(Line) /\ Clean(<<Garbled>> \o Tail(s))
<1> DEFINE t == <<Garbled>> \o Tail(s)
<1>1. Garbled \in Line /\ Unrelated(Garbled)
  BY DEF Garbled, Line, Kinds, NoId, Unrelated
<1>2. Tail(s) \in Seq(Line) /\ Clean(Tail(s))
  BY CleanTail
<1>3. t \in Seq(Line) /\ Len(t) = Len(Tail(s)) + 1 /\ t[1] = Garbled
  BY <1>1, <1>2
<1>4. \A k \in 1..Len(t) : k # 1 => t[k] = Tail(s)[k - 1] /\ k - 1 \in 1..Len(Tail(s))
  BY <1>1, <1>2
<1> QED BY <1>1, <1>2, <1>3, <1>4 DEF Clean

\* Ids are taken once.
IdsTaken ==
  \A c \in Calls :
    /\ id[c] < nextId
    /\ pc[c] # "idle" => id[c] # NoId
    /\ \A d \in Calls : id[c] = id[d] /\ id[c] # NoId => c = d

\* What a call took for its response carries its id.
Answered ==
  \A c \in Calls :
    pc[c] \in {"result", "error"} => answer[c].id = id[c] /\ answer[c].kind = pc[c]

StdioInv == TypeOK /\ OneAtATime /\ IdsTaken /\ Clean(stdout)

\* No call has an id that the server uses for its own requests.
IdsApart == \A c \in Calls : id[c] \notin ServerIds

LEMMA StdioInit == Init => StdioInv /\ Answered
<1> SUFFICES ASSUME Init
             PROVE  StdioInv /\ Answered
  OBVIOUS
<1> USE McpAssumption DEF Init, NoId
<1>1. Garbled \in [kind : Kinds, id : Nat]
  BY DEF Garbled, Kinds
<1>2. stdin \in Seq(Nat) /\ stdout \in Seq([kind : Kinds, id : Nat])
  OBVIOUS
<1>3. answer \in [Calls -> [kind : Kinds, id : Nat]]
  BY <1>1
<1>4. TypeOK
  <2>1. nextId \in Nat \ {NoId}
    OBVIOUS
  <2>2. pc \in [Calls -> {"idle"} \cup Active \cup Ended]
    OBVIOUS
  <2>3. id \in [Calls -> Nat]
    OBVIOUS
  <2>4. unasked \in 0..MaxUnasked
    OBVIOUS
  <2>5. holder \in Calls \cup {Nobody} /\ torn \in BOOLEAN /\ spoiled \in BOOLEAN
    OBVIOUS
  <2>6. asked \subseteq Nat /\ server \in {"up", "down"}
    OBVIOUS
  <2> HIDE DEF Init
  <2>7. phase \in {"connecting", "notifying", "ready", "failed"}
    BY DEF Init
  <2> QED BY <1>2, <1>3, <2>1, <2>2, <2>3, <2>4, <2>5, <2>6, <2>7 DEF TypeOK
<1>5. OneAtATime /\ IdsTaken /\ Clean(stdout) /\ Answered
  BY DEF OneAtATime, Holding, IdsTaken, Clean, Answered
<1> QED BY <1>4, <1>5 DEF StdioInv

LEMMA NotifyStdin ==
  ASSUME stdin \in Seq(Nat), Notify
  PROVE  stdin' \in Seq(Nat)
<1>1. CASE stdin' = Append(stdin, NoId)
  <2>1. NoId \in Nat
    BY DEF NoId
  <2> QED BY <1>1, <2>1, AppendNat
<1>2. CASE stdin' = stdin
  BY <1>2
<1> QED BY <1>1, <1>2 DEF Notify

LEMMA StdioStep == StdioInv /\ [Next]_vars => StdioInv'
<1> SUFFICES ASSUME StdioInv, [Next]_vars
             PROVE  StdioInv'
  OBVIOUS
<1> USE McpAssumption
    DEF StdioInv, TypeOK, OneAtATime, IdsTaken, Holding, Active, Ended,
        clientVars, serverVars, NoId
<1>0. Line = [kind : Kinds, id : Nat] /\ stdout \in Seq(Line)
  BY DEF Line
<1>1. ASSUME NEW c \in Calls, Begin(c)
      PROVE  StdioInv'
  <2>1. nextId' \in Nat \ {NoId} /\ id' \in [Calls -> Nat]
    BY <1>1 DEF Begin
  <2>2. TypeOK' /\ OneAtATime' /\ Clean(stdout)'
    BY <1>1, <2>1 DEF Begin
  <2>3. IdsTaken'
    BY <1>1 DEF Begin
  <2> QED BY <2>2, <2>3
<1>2. ASSUME NEW c \in Calls, Lock(c)
      PROVE  StdioInv'
  BY <1>2 DEF Lock
<1>3. ASSUME NEW c \in Calls, Write(c)
      PROVE  StdioInv'
  <2>1. stdin' \in Seq(Nat)
    BY <1>3 DEF Write
  <2> QED BY <1>3, <2>1 DEF Write
<1>4. ASSUME NEW c \in Calls, Broken(c)
      PROVE  StdioInv'
  BY <1>4 DEF Broken
<1>5. ASSUME NEW c \in Calls, Skip(c)
      PROVE  StdioInv'
  <2>1. stdout' \in Seq(Line) /\ Clean(stdout')
    BY <1>0, <1>5, CleanTail DEF Skip
  <2> QED BY <1>0, <1>5, <2>1 DEF Skip
<1>17. ASSUME NEW c \in Calls, Unreadable(c)
       PROVE  StdioInv'
  <2>1. stdout' \in Seq(Line) /\ Clean(stdout')
    BY <1>0, <1>17, CleanTail DEF Unreadable
  <2> QED BY <1>0, <1>17, <2>1 DEF Unreadable
<1>6. ASSUME NEW c \in Calls, Read(c)
      PROVE  StdioInv'
  <2>1. stdout # <<>>
    BY <1>6 DEF Read, Takes
  <2>2. stdout' \in Seq(Line) /\ Clean(stdout') /\ Head(stdout) \in Line
    BY <1>0, <1>6, <2>1, CleanTail DEF Read
  <2>3. Result(Head(stdout)) \in {"result", "error"}
    BY DEF Result
  <2> QED BY <1>0, <1>6, <2>2, <2>3 DEF Read
<1>7. ASSUME NEW c \in Calls, Leave(c)
      PROVE  StdioInv'
  <2>1. stdout' \in Seq(Line) /\ Clean(stdout')
    BY <1>0, <1>7, CleanCut DEF Leave
  <2>2. torn' \in BOOLEAN /\ spoiled' \in BOOLEAN
    BY <1>7 DEF Leave
  <2> QED BY <1>0, <1>7, <2>1, <2>2 DEF Leave
<1>8. CASE Notify
  <2>1. stdin' \in Seq(Nat)
    BY <1>8, NotifyStdin
  <2>2. phase' \in {"ready", "failed"}
    BY <1>8 DEF Notify
  <2> QED BY <1>8, <2>1, <2>2 DEF Notify
<1>9. CASE Shutdown
  BY <1>9 DEF Shutdown
<1>10. CASE Accept
  <2>1. stdin' \in Seq(Nat) /\ Head(stdin) \in Nat
    BY <1>10 DEF Accept
  <2> QED BY <1>10, <2>1 DEF Accept
<1>11. ASSUME NEW i \in asked, NEW kind \in {"result", "error"}, Answer(i, kind)
       PROVE  StdioInv'
  <2> DEFINE line == [kind |-> kind, id |-> i]
  <2>1. line \in Line /\ Unrelated(line)
    BY DEF Line, Kinds, Unrelated
  <2>2. stdout' = Append(stdout, line)
    BY <1>11 DEF Answer
  <2>3. stdout' \in Seq(Line) /\ Clean(stdout')
    BY <1>0, <2>1, <2>2, CleanAppend
  <2> QED BY <1>0, <1>11, <2>3 DEF Answer
<1>12. ASSUME NEW line \in Line, Unrelated(line), Unasked(line)
       PROVE  StdioInv'
  <2>1. stdout' \in Seq(Line) /\ Clean(stdout')
    BY <1>0, <1>12, CleanAppend DEF Unasked
  <2> QED BY <1>0, <1>12, <2>1 DEF Unasked
<1>13. \A kind \in {"notification", "garbled"} :
         [kind |-> kind, id |-> NoId] \in Line /\ Unrelated([kind |-> kind, id |-> NoId])
  BY DEF Line, Kinds, Unrelated
<1>14. \A i \in ServerIds : [kind |-> "request", id |-> i] \in Line
                            /\ Unrelated([kind |-> "request", id |-> i])
  BY DEF Line, Kinds, Unrelated
<1>15. CASE Die
  BY <1>15 DEF Die
<1>16. CASE UNCHANGED vars
  BY <1>16 DEF vars
<1> QED
  BY <1>1, <1>2, <1>3, <1>4, <1>5, <1>6, <1>7, <1>8, <1>9, <1>10, <1>11, <1>12,
     <1>13, <1>14, <1>15, <1>16, <1>17
  DEF Next, Proceed, ServerTurn

LEMMA AnsweredStep == StdioInv /\ IdsApart /\ Answered /\ [Next]_vars => Answered'
<1> SUFFICES ASSUME StdioInv, IdsApart, Answered, [Next]_vars
             PROVE  Answered'
  OBVIOUS
<1> USE DEF StdioInv, TypeOK, OneAtATime, IdsTaken, Answered, Active, Holding, clientVars,
            serverVars
<1>0. Line = [kind : Kinds, id : Nat] /\ stdout \in Seq(Line)
  BY DEF Line
<1>1. ASSUME NEW c \in Calls,
             Begin(c) \/ Lock(c) \/ Write(c) \/ Broken(c) \/ Skip(c) \/ Unreadable(c)
      PROVE  Answered'
  BY <1>1 DEF Begin, Lock, Write, Broken, Skip, Unreadable
<1>2. ASSUME NEW c \in Calls, Read(c)
      PROVE  Answered'
  <2>1. stdout # <<>> /\ Head(stdout).id = id[c] /\ pc[c] = "reading"
    BY <1>2 DEF Read, Takes
  <2>2. Unrelated(Head(stdout))
    BY <1>0, <2>1, CleanTail
  <2>3. Head(stdout).kind \in {"result", "error"}
    BY <2>1, <2>2 DEF Unrelated, IdsApart
  <2>4. Result(Head(stdout)) = Head(stdout).kind
    BY <2>3 DEF Result
  <2> QED BY <1>2, <2>1, <2>4 DEF Read
<1>3. ASSUME NEW c \in Calls, Leave(c)
      PROVE  Answered'
  BY <1>3 DEF Leave
<1>4. CASE Notify \/ Shutdown \/ Accept \/ Die
  BY <1>4 DEF Notify, Shutdown, Accept, Die
<1>5. ASSUME NEW i \in asked, NEW kind \in {"result", "error"}, Answer(i, kind)
      PROVE  Answered'
  BY <1>5 DEF Answer
<1>6. ASSUME NEW line, Unasked(line)
      PROVE  Answered'
  BY <1>6 DEF Unasked
<1>7. CASE UNCHANGED vars
  BY <1>7 DEF vars
<1> QED BY <1>1, <1>2, <1>3, <1>4, <1>5, <1>6, <1>7 DEF Next, Proceed, ServerTurn

LEMMA StdioInvariant == Spec => []StdioInv
<1>1. Init => StdioInv
  BY StdioInit
<1> QED BY <1>1, StdioStep, PTL DEF Spec

\* Whoever is between writing a request and reading its response is alone there,
\* however many calls share the connection and are dropped (io.lock()).
THEOREM LockExcludes == Spec => []OneAtATime
<1>1. StdioInv => OneAtATime
  BY DEF StdioInv
<1> QED BY <1>1, StdioInvariant, PTL

\* A call ends with the server's answer to its own request, as long as none has an
\* id that the server uses for requests of its own.
THEOREM AnswersAreOwn == Spec /\ []IdsApart => []OwnAnswer
<1>1. StdioInv /\ Answered => OwnAnswer
  BY DEF StdioInv, TypeOK, IdsTaken, Answered, OwnAnswer
<1>2. Init => Answered
  BY StdioInit
<1> QED BY <1>1, <1>2, StdioInvariant, AnsweredStep, PTL DEF Spec

-----------------------------------------------------------------------------
(* Over HTTP *)

Pcs    == {"idle", "sent", "served", "answered", "ended"}
Bodies == {"", "json", "fault", "events", "other events", "status"}
Post   == [pc : Pcs, to : 0..Len(Declared), carried : Nat, seen : Nat, reply : Nat, body : Bodies]

HttpTypeOK ==
  /\ next \in 0..Len(Declared)
  /\ stage \in {"idle", "initializing", "notifying", "failed"}
  /\ clients \in [Names -> 0..Len(Declared)]
  /\ session \in [Servers -> Nat]
  /\ nextIds \in [Servers -> Nat]
  /\ post \in [Posters -> Post]
  /\ serving \in [Servers -> Nat]
  /\ arrivals \in [Servers -> Nat]
  /\ latest \in [Servers -> Nat]
  /\ raced \in [Servers -> BOOLEAN]

\* A response to a request that nothing has overtaken so far names a session as new
\* as any the client was told of.
PostFollows(p) ==
  LET i == post[p].to
  IN  post[p].pc \in {"sent", "served"} =>
        /\ i \in Servers
        /\ post[p].seen <= arrivals[i]
        /\ post[p].reply <= serving[i]
        /\ post[p].pc = "served" /\ post[p].reply # 0 /\ post[p].seen = arrivals[i]
             => latest[i] <= post[p].reply

FollowInv ==
  /\ \A p \in Posters : PostFollows(p)
  /\ \A i \in Servers : latest[i] <= serving[i]
  /\ SessionFollows

\* A handshake under way is with the next server, by POSTs of its own.
Shaking ==
  stage \in {"initializing", "notifying"} =>
    /\ next < Len(Declared)
    /\ Declared[next + 1].url
    /\ post["connect"].pc \in {"sent", "served"}
    /\ post["connect"].to = next + 1
    /\ stage = "notifying" => arrivals[next + 1] >= 1

\* The last of the first k servers declared of a name, or none.
LastNamed(n, k, i) ==
  /\ i = 0 \/ (i \in 1..k /\ Declared[i].name = n)
  /\ \A j \in 1..k : Declared[j].name = n => j <= i

InOrder ==
  /\ \A n \in Names : LastNamed(n, next, clients[n])
  /\ \A i \in 1..next : Declared[i].url => arrivals[i] >= 2
  /\ \A i \in Servers : i > next + 1 => nextIds[i] = 1
  /\ \A c \in HttpCalls : post[c].to <= next

HttpInv ==
  /\ HttpTypeOK
  /\ FollowInv
  /\ Shaking
  /\ \A n \in Names : clients[n] <= next
  /\ InOrder

LEMMA Declarations ==
  /\ Len(Declared) \in Nat /\ Servers = 1..Len(Declared)
  /\ \A i \in Servers : Declared[i].name \in Names /\ Declared[i].url \in BOOLEAN
  /\ "connect" \in Posters
<1> DEFINE Servable == [name : STRING, url : BOOLEAN, command : BOOLEAN]
<1>1. Declared \in Seq(Servable)
  BY HttpAssumption
<1> HIDE DEF Servable
<1>2. Len(Declared) \in Nat /\ \A i \in 1..Len(Declared) : Declared[i] \in Servable
  BY <1>1
<1> USE DEF Servable
<1> QED BY <1>2 DEF Servers, Names, Posters

LEMMA HttpStart == HttpInit => HttpInv
<1> SUFFICES ASSUME HttpInit
             PROVE  HttpInv
  OBVIOUS
<1>1. Idle \in Post /\ Idle.pc = "idle" /\ Idle.to = 0
  <2>1. "idle" \in Pcs /\ "" \in Bodies /\ 0 \in 0..Len(Declared)
    BY Declarations DEF Pcs, Bodies
  <2> QED BY <2>1 DEF Idle, Post
<1> USE Declarations DEF HttpInit
<1>2. \A p \in Posters : post[p] = Idle
  OBVIOUS
<1>3. HttpTypeOK
  BY <1>1 DEF HttpTypeOK
<1>4. FollowInv
  BY <1>1, <1>2 DEF FollowInv, PostFollows, SessionFollows
<1>5. Shaking
  BY DEF Shaking
<1>6. 1..next = {}
  OBVIOUS
<1>7. InOrder
  BY <1>1, <1>2, <1>6 DEF InOrder, LastNamed, Posters
<1> QED BY <1>3, <1>4, <1>5, <1>7 DEF HttpInv

\* Its arrival at a client overtakes what is under way there.
LEMMA ReceiveFollows ==
  ASSUME HttpTypeOK, FollowInv, NEW p \in Posters, post[p].pc = "served", Receive(p),
         serving' = serving, post' \in [Posters -> Post],
         \A q \in Posters : q # p => post'[q] = post[q], PostFollows(p)'
  PROVE  FollowInv' /\ session' \in [Servers -> Nat] /\ arrivals' \in [Servers -> Nat]
         /\ latest' \in [Servers -> Nat] /\ raced' \in [Servers -> BOOLEAN]
<1> DEFINE i == post[p].to
           r == post[p].reply
<1>1. i \in Servers /\ r \in Nat /\ r <= serving[i] /\ post[p].seen <= arrivals[i]
      /\ (r # 0 /\ post[p].seen = arrivals[i] => latest[i] <= r)
  BY DEF FollowInv, PostFollows, HttpTypeOK, Post
<1>2. arrivals' = [arrivals EXCEPT ![i] = @ + 1]
      /\ latest' = [latest EXCEPT ![i] = IF r > @ THEN r ELSE @]
      /\ raced' = [raced EXCEPT ![i] = @ \/ post[p].seen # arrivals[i]]
      /\ session' = [session EXCEPT ![i] = IF r = 0 THEN session[i] ELSE r]
  BY DEF Receive, Adopt
<1> HIDE DEF r, i
<1>3. session' \in [Servers -> Nat] /\ arrivals' \in [Servers -> Nat]
      /\ latest' \in [Servers -> Nat] /\ raced' \in [Servers -> BOOLEAN]
  BY <1>1, <1>2 DEF HttpTypeOK
<1>4. \A j \in Servers : latest'[j] <= serving[j]
  BY <1>1, <1>2 DEF HttpTypeOK, FollowInv
<1>5. SessionFollows'
  <2>1. \A j \in Servers : j # i => session'[j] = session[j] /\ latest'[j] = latest[j]
                                  /\ raced'[j] = raced[j]
    BY <1>1, <1>2 DEF HttpTypeOK
  <2>2. session'[i] <= serving[i]
    BY <1>1, <1>2 DEF HttpTypeOK, FollowInv, SessionFollows
  <2>3. ~raced'[i] => ~raced[i] /\ post[p].seen = arrivals[i]
    BY <1>1, <1>2 DEF HttpTypeOK
  <2>4. ~raced'[i] => session'[i] = latest'[i]
    BY <1>1, <1>2, <2>3 DEF HttpTypeOK, FollowInv, SessionFollows
  <2> QED BY <2>1, <2>2, <2>4 DEF FollowInv, SessionFollows
<1>6. ASSUME NEW q \in Posters, q # p
      PROVE  PostFollows(q)'
  <2>1. post'[q] = post[q] /\ PostFollows(q)
    BY <1>6 DEF FollowInv
  <2>2. post[q].seen \in Nat /\ \A j \in Servers : arrivals[j] \in Nat /\ arrivals'[j] \in Nat
    BY <1>3 DEF HttpTypeOK, Post
  <2>3. \A j \in Servers : arrivals[j] <= arrivals'[j]
                           /\ (j # i => latest'[j] = latest[j] /\ arrivals'[j] = arrivals[j])
    BY <1>1, <1>2 DEF HttpTypeOK
  <2>4. arrivals'[i] = arrivals[i] + 1
    BY <1>1, <1>2 DEF HttpTypeOK
  <2>5. post[q].pc \in {"sent", "served"} /\ post[q].to = i => post[q].seen # arrivals'[i]
    BY <1>1, <2>1, <2>2, <2>4 DEF PostFollows
  <2> QED BY <2>1, <2>2, <2>3, <2>5 DEF PostFollows
<1> QED BY <1>3, <1>4, <1>5, <1>6 DEF FollowInv

\* What else happens leaves the responses as they are, or makes one.
LEMMA OtherwiseFollows ==
  ASSUME HttpTypeOK, FollowInv, UNCHANGED <<session, historyVars>>,
         serving' \in [Servers -> Nat], \A i \in Servers : serving[i] <= serving'[i],
         post' \in [Posters -> Post],
         \A p \in Posters : post'[p] = post[p] \/ PostFollows(p)'
  PROVE  FollowInv'
<1>1. \A i \in Servers : serving[i] \in Nat /\ serving'[i] \in Nat /\ latest[i] \in Nat
                         /\ session[i] \in Nat
  BY DEF HttpTypeOK
<1>2. ASSUME NEW p \in Posters, post'[p] = post[p]
      PROVE  PostFollows(p)'
  <2>1. post[p].reply \in Nat /\ PostFollows(p)
    BY DEF HttpTypeOK, Post, FollowInv
  <2> QED BY <1>1, <1>2, <2>1 DEF PostFollows, historyVars
<1>3. SessionFollows' /\ \A i \in Servers : latest'[i] <= serving'[i]
  BY <1>1 DEF FollowInv, SessionFollows, historyVars
<1> QED BY <1>2, <1>3 DEF FollowInv

Posted(i, carried, seen) ==
  [Idle EXCEPT !.pc = "sent", !.to = i, !.carried = carried, !.seen = seen]

Fresh(i, carried, seen) ==
  [pc |-> "sent", to |-> i, carried |-> carried, seen |-> seen, reply |-> 0, body |-> ""]

LEMMA FreshIs ==
  ASSUME NEW i \in 0..Len(Declared), NEW carried \in Nat, NEW seen \in Nat,
         NEW x, x = Fresh(i, carried, seen)
  PROVE  x \in Post /\ x.pc = "sent" /\ x.to = i /\ x.seen = seen /\ x.reply = 0
<1>1. "sent" \in Pcs /\ "" \in Bodies
  BY DEF Pcs, Bodies
<1> QED BY <1>1 DEF Post, Fresh

LEMMA PostedIs ==
  ASSUME NEW i \in Servers, NEW carried \in Nat, NEW seen \in Nat,
         NEW x, x = Posted(i, carried, seen)
  PROVE  x \in Post /\ x.pc = "sent" /\ x.to = i /\ x.seen = seen /\ x.reply = 0
<1>1. x = Fresh(i, carried, seen)
  BY DEF Idle, Posted, Fresh
<1>2. i \in 0..Len(Declared)
  BY Declarations
<1> QED BY <1>1, <1>2, FreshIs

\* A request takes an id and is on its way.
LEMMA Sends ==
  ASSUME HttpTypeOK, NEW p \in Posters, NEW i \in Servers, Send(p, i, TRUE),
         UNCHANGED <<arrivals, serving>>
  PROVE  /\ post' \in [Posters -> Post] /\ PostFollows(p)'
         /\ post'[p].pc = "sent" /\ post'[p].to = i
         /\ \A q \in Posters : q # p => post'[q] = post[q]
         /\ nextIds' \in [Servers -> Nat]
         /\ \A j \in Servers : j # i => nextIds'[j] = nextIds[j]
<1> DEFINE x == Posted(i, session[i], arrivals[i])
<1>1. session[i] \in Nat /\ arrivals[i] \in Nat
  BY DEF HttpTypeOK
<1>2. x \in Post /\ x.pc = "sent" /\ x.to = i /\ x.seen = arrivals[i] /\ x.reply = 0
  BY <1>1, PostedIs
<1>3. post' = [post EXCEPT ![p] = x] /\ nextIds' = [nextIds EXCEPT ![i] = @ + 1]
  BY DEF Send, Posted
<1> HIDE DEF x
<1>6. post' \in [Posters -> Post] /\ post'[p] = x
      /\ \A q \in Posters : q # p => post'[q] = post[q]
  BY <1>2, <1>3 DEF HttpTypeOK
<1>7. nextIds' \in [Servers -> Nat] /\ \A j \in Servers : j # i => nextIds'[j] = nextIds[j]
  BY <1>3 DEF HttpTypeOK
<1>8. PostFollows(p)'
  <2>1. UNCHANGED <<arrivals, serving>> /\ serving[i] \in Nat
    BY DEF HttpTypeOK
  <2>2. post'[p].seen = arrivals'[post'[p].to] /\ post'[p].reply = 0 /\ post'[p].to \in Servers
        /\ post'[p].pc # "served"
    BY <1>2, <1>6, <2>1
  <2>3. post'[p].to = i /\ post'[p].seen \in Nat
    BY <1>1, <1>2, <1>6
  <2> HIDE <1>1, <1>2, <1>6
  <2> QED BY <2>1, <2>2, <2>3 DEF PostFollows
<1> QED BY <1>2, <1>6, <1>7, <1>8

LEMMA LastNamedIs ==
  ASSUME NEW n, NEW k \in Nat, NEW i \in Nat
  PROVE  LastNamed(n, k, i) <=>
           LET connected == {j \in 1..k : Declared[j].name = n}
           IN  IF connected = {} THEN i = 0
               ELSE i \in connected /\ \A j \in connected : j <= i
BY DEF LastNamed

LEMMA InOrderIs ==
  ASSUME next \in Nat, clients \in [Names -> Nat]
  PROVE  InOrder <=> ConnectedInOrder
<1>1. \A n \in Names : clients[n] \in Nat
  OBVIOUS
<1>2. \A n \in Names : LastNamed(n, next, clients[n]) <=>
           LET connected == {j \in 1..next : Declared[j].name = n}
           IN  IF connected = {} THEN clients[n] = 0
               ELSE clients[n] \in connected /\ \A j \in connected : j <= clients[n]
  BY <1>1, LastNamedIs
<1> QED BY <1>2 DEF InOrder, ConnectedInOrder

LEMMA EarlierServers ==
  ASSUME next \in 0..Len(Declared)
  PROVE  \A i \in 1..next : i \in Servers
BY Declarations

\* What registers nothing keeps the order.
LEMMA KeepsOrder ==
  ASSUME HttpTypeOK, InOrder, UNCHANGED <<next, clients>>, arrivals' \in [Servers -> Nat],
         \A i \in Servers : arrivals[i] <= arrivals'[i],
         \A i \in Servers : i > next + 1 => nextIds'[i] = nextIds[i],
         \A c \in HttpCalls : post'[c].to <= next
  PROVE  InOrder'
<1>1. \A i \in 1..next : i \in Servers
  BY EarlierServers DEF HttpTypeOK
<1>2. \A i \in 1..next : arrivals[i] \in Nat /\ arrivals'[i] \in Nat
  BY <1>1 DEF HttpTypeOK
<1> QED BY <1>1, <1>2 DEF InOrder

\* The next server is registered, or only counted if it is no server of ours to ask.
LEMMA RegisterKeepsOrder ==
  ASSUME HttpTypeOK, InOrder, next < Len(Declared), next' = next + 1,
         clients' = [clients EXCEPT ![Connecting.name] = next + 1],
         arrivals' \in [Servers -> Nat], \A i \in Servers : arrivals[i] <= arrivals'[i],
         Connecting.url => arrivals'[next + 1] >= 2, nextIds' = nextIds,
         \A c \in HttpCalls : post'[c].to = post[c].to
  PROVE  InOrder' /\ clients' \in [Names -> 0..Len(Declared)]
         /\ ((\A n \in Names : clients[n] <= next) => \A n \in Names : clients'[n] <= next')
<1>1. next \in Nat /\ next + 1 \in Servers /\ Connecting.name \in Names
      /\ 1..(next + 1) = (1..next) \cup {next + 1} /\ next' \in Nat
  BY Declarations DEF HttpTypeOK, Connecting
<1>2. \A i \in 1..next : i \in Servers /\ arrivals[i] \in Nat /\ arrivals'[i] \in Nat
  <2>1. \A i \in 1..next : i \in Servers
    BY EarlierServers DEF HttpTypeOK
  <2> QED BY <2>1 DEF HttpTypeOK
<1>3. clients' \in [Names -> 0..Len(Declared)]
  BY Declarations, <1>1 DEF HttpTypeOK
<1>4. ASSUME NEW n \in Names
      PROVE  LastNamed(n, next', clients'[n])
  <2>1. LastNamed(n, next, clients[n]) /\ clients[n] \in Nat
    BY <1>4 DEF InOrder, HttpTypeOK
  <2>2. CASE n = Connecting.name
    <3>1. clients'[n] = next + 1 /\ Declared[next + 1].name = n
      BY <2>2, <1>1 DEF HttpTypeOK, Connecting
    <3> QED BY <1>1, <3>1 DEF LastNamed
  <2>3. CASE n # Connecting.name
    <3>1. clients'[n] = clients[n] /\ Declared[next + 1].name # n
      BY <2>3, <1>1 DEF HttpTypeOK, Connecting
    <3> QED BY <1>1, <2>1, <3>1 DEF LastNamed
  <2> QED BY <2>2, <2>3
<1>5. \A i \in 1..next' : Declared[i].url => arrivals'[i] >= 2
  BY <1>1, <1>2 DEF InOrder, Connecting
<1>6. \A i \in Servers : i > next' + 1 => nextIds'[i] = 1
  BY <1>1, Declarations DEF InOrder
<1>7. \A c \in HttpCalls : post'[c].to <= next'
  <2>1. \A c \in HttpCalls : post[c].to \in Nat
    BY Declarations DEF HttpTypeOK, Post, Posters
  <2> QED BY <1>1, <2>1 DEF InOrder
<1>8. ASSUME \A n \in Names : clients[n] <= next, NEW n \in Names
      PROVE  clients'[n] <= next'
  <2>1. clients[n] \in Nat /\ clients[n] <= next
    BY <1>8 DEF HttpTypeOK
  <2> QED BY <1>1, <2>1 DEF HttpTypeOK
<1> QED BY <1>3, <1>4, <1>5, <1>6, <1>7, <1>8 DEF InOrder

LEMMA IdleIs == Idle \in Post /\ Idle.pc = "idle" /\ Idle.to = 0
<1>1. "idle" \in Pcs /\ "" \in Bodies /\ 0 \in 0..Len(Declared)
  BY Declarations DEF Pcs, Bodies
<1> QED BY <1>1 DEF Idle, Post

LEMMA ConnectStep == HttpInv /\ Connect => HttpInv'
<1> SUFFICES ASSUME HttpInv, Connect
             PROVE  HttpInv'
  OBVIOUS
<1> USE Declarations DEF HttpInv
<1>1. next < Len(Declared) /\ next + 1 \in Servers /\ next \in Nat
  BY DEF Connect, HttpTypeOK
<1>2. UNCHANGED <<session, serving, historyVars>> /\ UNCHANGED <<arrivals, latest, raced>>
  BY DEF Connect, historyVars
<1>3. /\ arrivals' \in [Servers -> Nat]
      /\ \A i \in Servers : arrivals[i] <= arrivals'[i]
      /\ \A i \in Servers : serving[i] <= serving'[i]
  <2>1. \A i \in Servers : arrivals[i] \in Nat /\ serving[i] \in Nat
    BY DEF HttpTypeOK
  <2> QED BY <1>2, <2>1 DEF HttpTypeOK
<1>4. CASE Connecting.url /\ stage' = "initializing" /\ Send("connect", next + 1, TRUE)
           /\ UNCHANGED <<next, clients>>
  <2>1. /\ post' \in [Posters -> Post] /\ PostFollows("connect")'
        /\ post'["connect"].pc = "sent" /\ post'["connect"].to = next + 1
        /\ \A q \in Posters : q # "connect" => post'[q] = post[q]
        /\ nextIds' \in [Servers -> Nat]
        /\ \A j \in Servers : j # next + 1 => nextIds'[j] = nextIds[j]
    BY <1>1, <1>2, <1>4, Sends
  <2>2. HttpTypeOK'
    BY <1>2, <1>4, <2>1 DEF HttpTypeOK
  <2>3. FollowInv'
    BY <1>2, <1>3, <2>1, <2>2, OtherwiseFollows DEF HttpTypeOK
  <2>4. Shaking'
    BY <1>1, <1>4, <2>1 DEF Shaking, Connecting
  <2>5. \A c \in HttpCalls : post'[c].to <= next
    BY <2>1, HttpAssumption DEF InOrder, Posters
  <2>6. \A j \in Servers : j > next + 1 => nextIds'[j] = nextIds[j]
    BY <1>1, <2>1
  <2>7. InOrder'
    BY <1>3, <1>4, <2>5, <2>6, KeepsOrder
  <2> QED BY <1>4, <2>2, <2>3, <2>4, <2>7
<1>5. CASE ~Connecting.url /\ stage' = "idle" /\ next' = next + 1
           /\ clients' = [clients EXCEPT ![Connecting.name] = next + 1]
           /\ UNCHANGED <<nextIds, post>>
  <2>1. InOrder' /\ clients' \in [Names -> 0..Len(Declared)]
        /\ \A n \in Names : clients'[n] <= next'
    BY <1>1, <1>3, <1>5, RegisterKeepsOrder
  <2>2. HttpTypeOK'
    BY <1>1, <1>2, <1>5, <2>1 DEF HttpTypeOK
  <2>3. FollowInv'
    BY <1>2, <1>3, <1>5, <2>2, OtherwiseFollows DEF HttpTypeOK
  <2>4. Shaking'
    BY <1>5 DEF Shaking
  <2> QED BY <2>1, <2>2, <2>3, <2>4
<1>6. CASE stage' = "failed" /\ UNCHANGED <<next, clients, nextIds, post>>
  <2>1. HttpTypeOK'
    BY <1>2, <1>6 DEF HttpTypeOK
  <2>2. FollowInv'
    BY <1>2, <1>3, <1>6, <2>1, OtherwiseFollows DEF HttpTypeOK
  <2>3. Shaking'
    BY <1>6 DEF Shaking
  <2>4. InOrder'
    BY <1>3, <1>6, KeepsOrder DEF InOrder
  <2> QED BY <1>6, <2>1, <2>2, <2>3, <2>4
<1> QED BY <1>4, <1>5, <1>6 DEF Connect

LEMMA ReceiveArrivals ==
  ASSUME HttpTypeOK, NEW p \in Posters, post[p].to \in Servers, Receive(p)
  PROVE  /\ \A i \in Servers : arrivals[i] <= arrivals'[i]
         /\ arrivals'[post[p].to] = arrivals[post[p].to] + 1
<1>1. \A i \in Servers : arrivals[i] \in Nat
  BY DEF HttpTypeOK
<1> QED BY <1>1 DEF Receive, HttpTypeOK

LEMMA HandshakeFailsStep == HttpInv /\ HandshakeFails => HttpInv'
<1> SUFFICES ASSUME HttpInv, HandshakeFails
             PROVE  HttpInv'
  OBVIOUS
<1> USE Declarations DEF HttpInv
<1>1. UNCHANGED <<next, clients, nextIds, serving>> /\ stage' = "failed"
      /\ post' = [post EXCEPT !["connect"] = Idle]
  BY DEF HandshakeFails
<1>2. post' \in [Posters -> Post] /\ PostFollows("connect")'
      /\ \A q \in Posters : q # "connect" => post'[q] = post[q]
  BY <1>1, IdleIs DEF HttpTypeOK, PostFollows
<1>3. \A c \in HttpCalls : post'[c].to <= next
  BY <1>2, HttpAssumption DEF InOrder, Posters
<1>4. Shaking'
  BY <1>1 DEF Shaking
<1>5. CASE post["connect"].pc = "served" /\ Receive("connect")
  <2>1. FollowInv' /\ session' \in [Servers -> Nat] /\ arrivals' \in [Servers -> Nat]
        /\ latest' \in [Servers -> Nat] /\ raced' \in [Servers -> BOOLEAN]
    BY <1>1, <1>2, <1>5, ReceiveFollows
  <2>2. HttpTypeOK'
    BY <1>1, <1>2, <2>1 DEF HttpTypeOK
  <2>3. \A i \in Servers : arrivals[i] <= arrivals'[i]
    BY <1>5, ReceiveArrivals DEF FollowInv, PostFollows
  <2>4. InOrder'
    BY <1>1, <1>3, <2>1, <2>3, KeepsOrder
  <2> QED BY <1>1, <1>4, <2>1, <2>2, <2>4
<1>6. CASE UNCHANGED <<session, historyVars>>
  <2>1. HttpTypeOK'
    BY <1>1, <1>2, <1>6 DEF HttpTypeOK, historyVars
  <2>2. \A i \in Servers : arrivals[i] \in Nat /\ serving[i] \in Nat
    BY DEF HttpTypeOK
  <2>3. FollowInv'
    BY <1>1, <1>2, <1>6, <2>1, <2>2, OtherwiseFollows DEF HttpTypeOK
  <2>4. InOrder'
    BY <1>1, <1>3, <1>6, <2>1, <2>2, KeepsOrder DEF HttpTypeOK, historyVars
  <2> QED BY <1>1, <1>4, <2>1, <2>3, <2>4
<1> QED BY <1>5, <1>6 DEF HandshakeFails

LEMMA InitializedStep == HttpInv /\ Initialized => HttpInv'
<1> SUFFICES ASSUME HttpInv, Initialized
             PROVE  HttpInv'
  OBVIOUS
<1> USE Declarations DEF HttpInv
<1> DEFINE i == next + 1
           x == Posted(i, session'[i], arrivals'[i])
<1>1. i \in Servers /\ post["connect"].to = i /\ Declared[i].url
  BY DEF Initialized, Shaking, HttpTypeOK
<1>2. UNCHANGED <<next, clients, nextIds, serving>> /\ stage' = "notifying"
      /\ post["connect"].pc = "served" /\ Receive("connect")
      /\ post' = [post EXCEPT !["connect"] = x]
  BY DEF Initialized, Posted
<1>3. session' \in [Servers -> Nat] /\ arrivals' \in [Servers -> Nat]
  <2>1. post["connect"].reply \in Nat
    BY DEF HttpTypeOK, Post
  <2>2. session' \in [Servers -> Nat]
    BY <1>1, <1>2, <2>1 DEF Receive, Adopt, HttpTypeOK
  <2>3. arrivals' = [arrivals EXCEPT ![i] = @ + 1]
    BY <1>1, <1>2 DEF Receive
  <2>4. arrivals' \in [Servers -> Nat]
    BY <1>1, <2>3 DEF HttpTypeOK
  <2> QED BY <2>2, <2>4
<1>4. x \in Post /\ x.pc = "sent" /\ x.to = i /\ x.seen = arrivals'[i] /\ x.reply = 0
  BY <1>1, <1>3, PostedIs
<1> HIDE DEF x
<1>5. post' \in [Posters -> Post] /\ post'["connect"] = x
      /\ \A q \in Posters : q # "connect" => post'[q] = post[q]
  BY <1>2, <1>4 DEF HttpTypeOK
<1>6. PostFollows("connect")'
  <2>1. serving'[i] \in Nat /\ arrivals'[i] \in Nat
    BY <1>1, <1>2, <1>3 DEF HttpTypeOK
  <2> QED BY <1>1, <1>4, <1>5, <2>1 DEF PostFollows
<1>7. FollowInv' /\ latest' \in [Servers -> Nat] /\ raced' \in [Servers -> BOOLEAN]
  BY <1>2, <1>5, <1>6, ReceiveFollows
<1>8. HttpTypeOK'
  BY <1>2, <1>3, <1>5, <1>7 DEF HttpTypeOK
<1>9. /\ \A j \in Servers : arrivals[j] <= arrivals'[j]
      /\ arrivals'[i] = arrivals[i] + 1
  BY <1>1, <1>2, ReceiveArrivals
<1>10. Shaking'
  <2>1. arrivals'[i] >= 1 /\ next < Len(Declared)
    BY <1>1, <1>9 DEF HttpTypeOK
  <2> QED BY <1>1, <1>2, <1>4, <1>5, <2>1 DEF Shaking
<1>11. \A c \in HttpCalls : post'[c].to <= next
  BY <1>5, HttpAssumption DEF InOrder, Posters
<1>12. InOrder'
  BY <1>2, <1>3, <1>9, <1>11, KeepsOrder
<1> QED BY <1>2, <1>7, <1>8, <1>10, <1>12

LEMMA RegisterStep == HttpInv /\ Register => HttpInv'
<1> SUFFICES ASSUME HttpInv, Register
             PROVE  HttpInv'
  OBVIOUS
<1> USE Declarations DEF HttpInv
<1>1. next + 1 \in Servers /\ post["connect"].to = next + 1 /\ next < Len(Declared)
      /\ arrivals[next + 1] >= 1
  BY DEF Register, Shaking, HttpTypeOK
<1>2. UNCHANGED <<nextIds, serving>> /\ stage' = "idle" /\ next' = next + 1
      /\ post["connect"].pc = "served" /\ Receive("connect")
      /\ clients' = [clients EXCEPT ![Connecting.name] = next + 1]
      /\ post' = [post EXCEPT !["connect"] = Idle]
  BY DEF Register
<1>3. post' \in [Posters -> Post] /\ PostFollows("connect")'
      /\ \A q \in Posters : q # "connect" => post'[q] = post[q]
  BY <1>2, IdleIs DEF HttpTypeOK, PostFollows
<1>4. \A c \in HttpCalls : post'[c].to = post[c].to
  BY <1>3, HttpAssumption DEF Posters
<1>5. FollowInv' /\ session' \in [Servers -> Nat] /\ arrivals' \in [Servers -> Nat]
      /\ latest' \in [Servers -> Nat] /\ raced' \in [Servers -> BOOLEAN]
  BY <1>2, <1>3, ReceiveFollows
<1>6. /\ \A i \in Servers : arrivals[i] <= arrivals'[i]
      /\ arrivals'[next + 1] >= 2
  <2>1. arrivals'[next + 1] = arrivals[next + 1] + 1 /\ arrivals[next + 1] \in Nat
    BY <1>1, <1>2, ReceiveArrivals DEF HttpTypeOK
  <2> QED BY <1>1, <1>2, <2>1, ReceiveArrivals
<1>7. InOrder' /\ clients' \in [Names -> 0..Len(Declared)]
      /\ \A n \in Names : clients'[n] <= next'
  BY <1>1, <1>2, <1>4, <1>5, <1>6, RegisterKeepsOrder
<1>8. HttpTypeOK'
  BY <1>1, <1>2, <1>3, <1>5, <1>7 DEF HttpTypeOK
<1>9. Shaking'
  BY <1>2 DEF Shaking
<1> QED BY <1>5, <1>7, <1>8, <1>9

\* What does not come of connect_mcp_servers moves no handshake along.
LEMMA CallersKeep ==
  ASSUME HttpInv, HttpTypeOK', FollowInv', UNCHANGED connectVars,
         \A i \in Servers : arrivals[i] <= arrivals'[i],
         \A i \in Servers : i > next => nextIds'[i] = nextIds[i],
         \A c \in HttpCalls : post'[c].to <= next,
         post["connect"].pc \in {"sent", "served"} => post'["connect"].pc \in {"sent", "served"},
         post'["connect"].to = post["connect"].to
  PROVE  HttpInv'
<1>1. next \in Nat /\ UNCHANGED <<next, stage, clients>>
  BY Declarations DEF HttpInv, HttpTypeOK, connectVars
<1>2. \A i \in Servers : arrivals[i] \in Nat /\ arrivals'[i] \in Nat
  BY DEF HttpInv, HttpTypeOK
<1>3. Shaking'
  <2>1. next < Len(Declared) => next + 1 \in Servers
    BY <1>1, Declarations
  <2> QED BY <1>1, <1>2, <2>1 DEF HttpInv, Shaking
<1>4. \A i \in Servers : i > next + 1 => nextIds'[i] = nextIds[i]
  BY <1>1, Declarations
<1>5. InOrder'
  BY <1>1, <1>4, KeepsOrder DEF HttpInv, HttpTypeOK
<1> QED BY <1>1, <1>3, <1>5 DEF HttpInv

LEMMA ServeStep ==
  ASSUME HttpInv, NEW p \in Posters, Serve(p)
  PROVE  HttpInv'
<1> DEFINE i == post[p].to
<1>1. PICK told, form :
        /\ told = 0 \/ told = serving[i]
        /\ form \in {"json", "fault", "events", "other events", "status"}
        /\ post' = [post EXCEPT ![p].pc = "served", ![p].reply = told, ![p].body = form]
  BY DEF Serve
<1>2. post[p].pc = "sent" /\ UNCHANGED <<connectVars, session, nextIds, serving, historyVars>>
      /\ UNCHANGED <<next, stage, clients, arrivals, latest, raced>>
  BY DEF Serve, connectVars, historyVars
<1>3. i \in Servers /\ told \in Nat /\ form \in Bodies /\ "served" \in Pcs
      /\ post[p] \in Post /\ serving[i] \in Nat /\ latest[i] <= serving[i]
      /\ told <= serving[i] /\ post[p].seen <= arrivals[i]
  <2>1. i \in Servers /\ post[p].seen <= arrivals[i]
    BY <1>2 DEF HttpInv, FollowInv, PostFollows
  <2>2. serving[i] \in Nat /\ latest[i] <= serving[i] /\ post[p] \in Post
    BY <2>1 DEF HttpInv, HttpTypeOK, FollowInv
  <2>3. form \in Bodies /\ "served" \in Pcs
    BY <1>1 DEF Bodies, Pcs
  <2>4. told = 0 \/ told = serving[i]
    BY <1>1
  <2>5. told \in Nat /\ told <= serving[i]
    BY <2>2, <2>4
  <2> QED BY <2>1, <2>2, <2>3, <2>5
<1> HIDE DEF i
<1> DEFINE x == [post[p] EXCEPT !.pc = "served", !.reply = told, !.body = form]
<1>4. x \in Post
  BY <1>3 DEF Post
<1>5. x.pc = "served" /\ x.reply = told /\ x.to = post[p].to /\ x.seen = post[p].seen
  BY <1>3 DEF Post
<1>6. post' = [post EXCEPT ![p] = x]
  BY <1>1
<1> HIDE DEF x
<1>7. post' \in [Posters -> Post] /\ post'[p] = x
      /\ \A q \in Posters : q # p => post'[q] = post[q]
  BY <1>4, <1>6 DEF HttpInv, HttpTypeOK
<1>8. PostFollows(p)'
  <2>1. UNCHANGED <<arrivals, serving, latest>> /\ post'[p].to = i
    BY <1>2, <1>5, <1>7 DEF i
  <2>2. post'[p].pc = "served" /\ post'[p].reply = told /\ post'[p].seen = post[p].seen
    BY <1>5, <1>7
  <2>3. told # 0 => told = serving[i]
    BY <1>1 DEF i
  <2> QED BY <1>3, <2>1, <2>2, <2>3 DEF PostFollows
<1>9. HttpTypeOK'
  BY <1>2, <1>7 DEF HttpInv, HttpTypeOK
<1>10. /\ \A j \in Servers : arrivals[j] <= arrivals'[j]
       /\ \A j \in Servers : serving[j] <= serving'[j]
       /\ serving' \in [Servers -> Nat]
  <2>1. \A j \in Servers : arrivals[j] \in Nat /\ serving[j] \in Nat
    BY DEF HttpInv, HttpTypeOK
  <2>2. serving' = serving /\ arrivals' = arrivals
    BY <1>2
  <2>3. serving' \in [Servers -> Nat]
    BY <2>2 DEF HttpInv, HttpTypeOK
  <2> QED BY <2>1, <2>2, <2>3
<1>11. FollowInv'
  <2>1. \A q \in Posters : post'[q] = post[q] \/ PostFollows(q)'
    BY <1>7, <1>8
  <2> QED BY <1>2, <1>7, <1>10, <2>1, OtherwiseFollows DEF HttpInv
<1>12. \A c \in HttpCalls : post'[c].to <= next
  BY <1>5, <1>7 DEF HttpInv, InOrder, Posters
<1>13. /\ post["connect"].pc \in {"sent", "served"} => post'["connect"].pc \in {"sent", "served"}
       /\ post'["connect"].to = post["connect"].to
  BY <1>5, <1>7, Declarations
<1> QED BY <1>2, <1>9, <1>10, <1>11, <1>12, <1>13, CallersKeep

\* A call's POST is over, or was never made.
LEMMA OverIs ==
  ASSUME HttpTypeOK, NEW c \in HttpCalls, NEW x \in Post, x.pc \notin {"sent", "served"},
         x.to <= next, post' = [post EXCEPT ![c] = x]
  PROVE  /\ post' \in [Posters -> Post] /\ PostFollows(c)'
         /\ \A q \in Posters : q # c => post'[q] = post[q]
         /\ post'["connect"] = post["connect"]
         /\ InOrder => \A d \in HttpCalls : post'[d].to <= next
<1>1. c \in Posters /\ c # "connect" /\ "connect" \in Posters /\ HttpCalls \subseteq Posters
  BY HttpAssumption DEF Posters
<1>2. post' \in [Posters -> Post] /\ post'[c] = x
      /\ \A q \in Posters : q # c => post'[q] = post[q]
  BY <1>1 DEF HttpTypeOK
<1> QED BY <1>1, <1>2 DEF PostFollows, InOrder

LEMMA OverPosts ==
  ASSUME NEW pc2 \in Pcs, NEW x, x = [Idle EXCEPT !.pc = pc2]
  PROVE  x \in Post /\ x.pc = pc2 /\ x.to = 0
<1>1. "" \in Bodies /\ 0 \in 0..Len(Declared)
  BY Declarations DEF Bodies
<1>2. Idle \in Post
  BY IdleIs
<1>3. x \in Post
  BY <1>2 DEF Post
<1> QED BY <1>3 DEF Idle

LEMMA CallStep ==
  ASSUME HttpInv, NEW c \in HttpCalls, NEW n \in Names, Call(c, n)
  PROVE  HttpInv'
<1> USE DEF HttpInv
<1>1. c \in Posters /\ c # "connect" /\ "connect" \in Posters /\ HttpCalls \subseteq Posters
  BY HttpAssumption DEF Posters
<1>2. UNCHANGED <<connectVars, session, serving, historyVars>> /\ post[c].pc = "idle"
      /\ UNCHANGED <<arrivals, serving, latest, raced, session, next, stage, clients>>
  BY DEF Call, connectVars, historyVars
<1>3. /\ \A i \in Servers : arrivals[i] <= arrivals'[i]
      /\ \A i \in Servers : serving[i] <= serving'[i]
      /\ serving' \in [Servers -> Nat]
  <2>1. \A i \in Servers : arrivals[i] \in Nat /\ serving[i] \in Nat
    BY DEF HttpTypeOK
  <2> QED BY <1>2, <2>1 DEF HttpTypeOK
<1>4. clients[n] \in 0..Len(Declared) /\ clients[n] <= next /\ next \in Nat
  BY Declarations DEF HttpTypeOK
<1>5. CASE clients[n] # 0 /\ Declared[clients[n]].url /\ Send(c, clients[n], TRUE)
  <2> DEFINE i == clients[n]
  <2>1. i \in Servers
    BY <1>4, <1>5, Declarations
  <2>2. /\ post' \in [Posters -> Post] /\ PostFollows(c)'
        /\ post'[c].pc = "sent" /\ post'[c].to = i
        /\ \A q \in Posters : q # c => post'[q] = post[q]
        /\ nextIds' \in [Servers -> Nat]
        /\ \A j \in Servers : j # i => nextIds'[j] = nextIds[j]
    BY <1>1, <1>2, <1>5, <2>1, Sends
  <2>3. HttpTypeOK'
    BY <1>2, <2>2 DEF HttpTypeOK
  <2>4. FollowInv'
    BY <1>2, <1>3, <2>2, <2>3, OtherwiseFollows
  <2>5. \A d \in HttpCalls : post'[d].to <= next
    BY <1>1, <1>4, <2>2 DEF InOrder
  <2>6. \A j \in Servers : j > next => nextIds'[j] = nextIds[j]
    BY <1>4, <2>2, Declarations
  <2> QED BY <1>1, <1>2, <1>3, <2>2, <2>3, <2>4, <2>5, <2>6, CallersKeep
<1>6. CASE post' = [post EXCEPT ![c].pc = "ended"] /\ UNCHANGED nextIds
  <2> DEFINE x == [post[c] EXCEPT !.pc = "ended"]
  <2>1. post[c] \in Post /\ "ended" \in Pcs
    BY <1>1 DEF HttpTypeOK, Pcs
  <2>2. x \in Post /\ x.pc = "ended" /\ x.to = post[c].to
    BY <2>1 DEF Post
  <2>3. post' = [post EXCEPT ![c] = x] /\ post[c].to <= next
    BY <1>6 DEF InOrder
  <2> HIDE DEF x
  <2>4. /\ post' \in [Posters -> Post] /\ PostFollows(c)'
        /\ \A q \in Posters : q # c => post'[q] = post[q]
        /\ post'["connect"] = post["connect"]
        /\ \A d \in HttpCalls : post'[d].to <= next
    BY <2>2, <2>3, OverIs
  <2>5. HttpTypeOK'
    BY <1>2, <1>6, <2>4 DEF HttpTypeOK
  <2>6. FollowInv'
    BY <1>2, <1>3, <2>4, <2>5, OtherwiseFollows
  <2> QED BY <1>2, <1>3, <1>6, <2>4, <2>5, <2>6, CallersKeep
<1> QED BY <1>5, <1>6 DEF Call

LEMMA ReturnStep ==
  ASSUME HttpInv, NEW c \in HttpCalls, Return(c)
  PROVE  HttpInv'
<1> USE DEF HttpInv
<1> DEFINE pc2 == IF Proper(c) THEN "answered" ELSE "ended"
           x == [Idle EXCEPT !.pc = pc2]
<1>1. c \in Posters /\ pc2 \in Pcs /\ pc2 \notin {"sent", "served"} /\ next \in Nat
  BY Declarations DEF Posters, Pcs, HttpTypeOK
<1>2. UNCHANGED <<connectVars, nextIds, serving>> /\ post[c].pc = "served" /\ Receive(c)
      /\ UNCHANGED <<nextIds, serving, next, stage, clients>> /\ post' = [post EXCEPT ![c] = x]
  BY DEF Return, connectVars
<1> HIDE DEF pc2
<1>3. x \in Post /\ x.pc \notin {"sent", "served"} /\ x.to <= next
  <2>1. x \in Post /\ x.pc = pc2 /\ x.to = 0
    BY <1>1, OverPosts
  <2> HIDE DEF x
  <2> QED BY <1>1, <2>1
<1> HIDE DEF x
<1>4. /\ post' \in [Posters -> Post] /\ PostFollows(c)'
      /\ \A q \in Posters : q # c => post'[q] = post[q]
      /\ post'["connect"] = post["connect"]
      /\ \A d \in HttpCalls : post'[d].to <= next
  BY <1>1, <1>2, <1>3, OverIs
<1>5. FollowInv' /\ session' \in [Servers -> Nat] /\ arrivals' \in [Servers -> Nat]
      /\ latest' \in [Servers -> Nat] /\ raced' \in [Servers -> BOOLEAN]
  BY <1>1, <1>2, <1>4, ReceiveFollows
<1>6. HttpTypeOK'
  BY <1>2, <1>4, <1>5 DEF HttpTypeOK
<1>7. \A i \in Servers : arrivals[i] <= arrivals'[i]
  BY <1>1, <1>2, ReceiveArrivals DEF FollowInv, PostFollows
<1> QED BY <1>2, <1>4, <1>5, <1>6, <1>7, CallersKeep

LEMMA LostStep ==
  ASSUME HttpInv, NEW c \in HttpCalls, Lost(c)
  PROVE  HttpInv'
<1> USE DEF HttpInv
<1> DEFINE x == [Idle EXCEPT !.pc = "ended"]
<1>1. c \in Posters /\ "ended" \in Pcs /\ next \in Nat
  BY Declarations DEF Posters, Pcs, HttpTypeOK
<1>2. UNCHANGED <<connectVars, session, nextIds, serving, historyVars>>
      /\ UNCHANGED <<arrivals, latest, raced, session, nextIds, serving, next, stage, clients>>
      /\ post' = [post EXCEPT ![c] = x]
  BY DEF Lost, connectVars, historyVars
<1>3. x \in Post /\ x.pc \notin {"sent", "served"} /\ x.to <= next
  <2>1. x \in Post /\ x.pc = "ended" /\ x.to = 0
    BY <1>1, OverPosts
  <2> HIDE DEF x
  <2> QED BY <1>1, <2>1
<1> HIDE DEF x
<1>4. /\ post' \in [Posters -> Post] /\ PostFollows(c)'
      /\ \A q \in Posters : q # c => post'[q] = post[q]
      /\ post'["connect"] = post["connect"]
      /\ \A d \in HttpCalls : post'[d].to <= next
  BY <1>1, <1>2, <1>3, OverIs
<1>5. HttpTypeOK'
  BY <1>2, <1>4 DEF HttpTypeOK
<1>6. /\ \A i \in Servers : arrivals[i] <= arrivals'[i]
      /\ \A i \in Servers : serving[i] <= serving'[i]
      /\ serving' \in [Servers -> Nat]
  <2>1. \A i \in Servers : arrivals[i] \in Nat /\ serving[i] \in Nat
    BY DEF HttpTypeOK
  <2> QED BY <1>2, <2>1 DEF HttpTypeOK
<1>7. FollowInv'
  BY <1>2, <1>4, <1>5, <1>6, OtherwiseFollows
<1> QED BY <1>2, <1>4, <1>5, <1>6, <1>7, CallersKeep

LEMMA RenewStep ==
  ASSUME HttpInv, NEW i \in Servers, Renew(i)
  PROVE  HttpInv'
<1> USE DEF HttpInv
<1>1. UNCHANGED <<connectVars, session, nextIds, post, historyVars>>
      /\ UNCHANGED <<arrivals, latest, raced, session, nextIds, post, next, stage, clients>>
      /\ serving' = [serving EXCEPT ![i] = @ + 1]
  BY DEF Renew, connectVars, historyVars
<1>2. /\ \A j \in Servers : arrivals[j] <= arrivals'[j]
      /\ \A j \in Servers : serving[j] <= serving'[j]
      /\ serving' \in [Servers -> Nat]
  <2>1. \A j \in Servers : arrivals[j] \in Nat /\ serving[j] \in Nat
    BY DEF HttpTypeOK
  <2> QED BY <1>1, <2>1 DEF HttpTypeOK
<1>3. HttpTypeOK'
  BY <1>1, <1>2 DEF HttpTypeOK
<1>4. FollowInv'
  BY <1>1, <1>2, <1>3, OtherwiseFollows DEF HttpTypeOK
<1>5. \A c \in HttpCalls : post'[c].to <= next
  BY <1>1 DEF InOrder
<1> QED BY <1>1, <1>2, <1>3, <1>4, <1>5, CallersKeep

LEMMA HttpStep == HttpInv /\ [HttpNext]_httpVars => HttpInv'
<1> SUFFICES ASSUME HttpInv, [HttpNext]_httpVars
             PROVE  HttpInv'
  OBVIOUS
<1>1. CASE Connect
  BY <1>1, ConnectStep
<1>2. CASE HandshakeFails
  BY <1>2, HandshakeFailsStep
<1>3. CASE Initialized
  BY <1>3, InitializedStep
<1>4. CASE Register
  BY <1>4, RegisterStep
<1>5. ASSUME NEW p \in Posters, Serve(p)
      PROVE  HttpInv'
  BY <1>5, ServeStep
<1>6. ASSUME NEW c \in HttpCalls, (\E n \in Names : Call(c, n)) \/ Return(c) \/ Lost(c)
      PROVE  HttpInv'
  BY <1>6, CallStep, ReturnStep, LostStep
<1>7. ASSUME NEW i \in Servers, Renew(i)
      PROVE  HttpInv'
  BY <1>7, RenewStep
<1>8. ASSUME NEW n \in Names, EndSession(n)
      PROVE  HttpInv'
  <2>1. clients[n] \in 0..Len(Declared) /\ clients[n] # 0
    BY <1>8 DEF EndSession, HttpInv, HttpTypeOK
  <2>2. clients[n] \in Servers
    BY <2>1, Declarations
  <2> QED BY <1>8, <2>2, RenewStep DEF EndSession
<1>9. CASE UNCHANGED httpVars
  BY <1>9 DEF httpVars, HttpInv, HttpTypeOK, FollowInv, PostFollows, SessionFollows, Shaking,
              InOrder
<1> QED BY <1>1, <1>2, <1>3, <1>4, <1>5, <1>6, <1>7, <1>8, <1>9 DEF HttpNext

-----------------------------------------------------------------------------
(* Of the two together *)

LEMMA StepOfOne == [McpNext]_allVars => [Next]_vars /\ [HttpNext]_httpVars
BY DEF McpNext, Stdio, Http, allVars

LEMMA McpInvariant == McpSpec => []HttpInv
<1>1. McpInit => HttpInv
  BY HttpStart DEF McpInit
<1> QED BY <1>1, HttpStep, StepOfOne, PTL DEF McpSpec

\* A client has one transport or the other, and over stdio it does what McpStdio
\* says: what is proved of that holds of it.
THEOREM McpIsStdio == McpSpec => Spec
<1>1. McpInit => Init
  BY DEF McpInit
<1> QED BY <1>1, StepOfOne, PTL DEF McpSpec, Spec

\* A client carries no session id but one that its server gave it, and the newest it
\* was told of until its responses overtake one another, whatever is lost, dropped
\* or refused on the way (http_post).
THEOREM SessionIsFollowed == McpSpec => []SessionFollows
<1>1. HttpInv => SessionFollows
  BY DEF HttpInv, FollowInv
<1> QED BY <1>1, McpInvariant, PTL

\* The clients to be reached are those of the first servers declared, the last of
\* each name, for every manifest (connect_mcp_servers).
THEOREM ServersConnectInOrder == McpSpec => []ConnectedInOrder
<1>1. HttpInv => ConnectedInOrder
  BY Declarations, InOrderIs DEF HttpInv, HttpTypeOK
<1> QED BY <1>1, McpInvariant, PTL
=============================================================================
