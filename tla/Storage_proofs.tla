--------------------------- MODULE Storage_proofs ---------------------------
(***************************************************************************)
(* However many processes share a session store and whatever fails,        *)
(* crashes or is dropped, each turn's rows are in its order, turns are     *)
(* kept apart as far as one lock or one command reaches, a load sees whole *)
(* turns up to the exceptions LoadSeesWholeTurns names, and what Ok was    *)
(* said of is stored.  With what is proved of Memory (Memory_proofs) this  *)
(* holds of an agent that has both.                                        *)
(***************************************************************************)
EXTENDS Storage, Memory_proofs

-----------------------------------------------------------------------------
(* The order of the rows *)

RowType == [by : Requests, at : Nat]

LEMMA TurnRows ==
  ASSUME NEW r \in Requests
  PROVE  /\ Turn(r) \in Seq(RowType) /\ Len(Turn(r)) = Size[r]
         /\ \A k \in 1..Size[r] : Turn(r)[k].by = r /\ Turn(r)[k].at = k
<1>1. \A k \in 1..Size[r] : Row(r, k) \in RowType /\ Row(r, k).by = r /\ Row(r, k).at = k
  BY DEF Row, RowType
<1>2. Size[r] \in Nat
  BY StoreAssumption
<1>3. Turn(r) \in [1..Size[r] -> RowType]
  BY <1>1 DEF Turn
<1>4. Turn(r) \in Seq(RowType) /\ Len(Turn(r)) = Size[r]
  BY <1>2, <1>3 DEF Turn
<1>5. \A k \in 1..Size[r] : Turn(r)[k] = Row(r, k)
  BY DEF Turn
<1> QED BY <1>1, <1>4, <1>5

LEMMA ConcatRows ==
  ASSUME NEW s \in Seq(RowType), NEW t \in Seq(RowType), NEW r,
         \A k \in 1..Len(t) : t[k].by = r /\ t[k].at = k
  PROVE  /\ Len(s \o t) = Len(s) + Len(t) /\ Len(s) \in Nat
         /\ \A i \in 1..Len(s) : (s \o t)[i] = s[i] /\ s[i] \in RowType
         /\ \A i \in (Len(s) + 1)..(Len(s) + Len(t)) :
              (s \o t)[i].by = r /\ (s \o t)[i].at = i - Len(s)
<1>1. Len(s \o t) = Len(s) + Len(t) /\ Len(s) \in Nat /\ Len(t) \in Nat
  OBVIOUS
<1>2. \A i \in 1..Len(s) : (s \o t)[i] = s[i]
  OBVIOUS
<1>3. \A i \in 1..Len(s) : s[i] \in RowType
  OBVIOUS
<1>4. \A i \in (Len(s) + 1)..(Len(s) + Len(t)) :
        (s \o t)[i] = t[i - Len(s)] /\ i - Len(s) \in 1..Len(t)
  BY <1>1
<1> QED BY <1>1, <1>2, <1>3, <1>4

LEMMA RowsAre ==
  ASSUME NEW s \in Seq([by : Requests, at : Nat])
  PROVE  \A i \in 1..Len(s) : s[i].by \in Requests
<1> DEFINE T == [by : Requests, at : Nat]
<1>1. \A i \in 1..Len(s) : s[i] \in T
  <2> HIDE DEF T
  <2>1. s \in Seq(T)
    BY DEF T
  <2> QED BY <2>1
<1> QED BY <1>1

LEMMA NoRows == <<>> \in Seq([by : Requests, at : Nat])
OBVIOUS

\* A row is one of the messages its append has stored so far.
RowsWereSent == \A i \in 1..Len(rows) : rows[i].at \in 1..sent[rows[i].by]

\* An append has stored nothing before it runs.
NothingSentYet == \A r \in Requests : pc[r] \in {"idle", "queued"} => sent[r] = 0

\* A job inserts only under the lock of its process.
InsertsUnderLock ==
  \A r \in Requests : pc[r] = "inserting" => backend = "sqlite" /\ mutex[home[r]] = r

Near(a, b) == backend = "redis" \/ home[a] = home[b]

\* An append that another one near it has followed stores nothing more.
FollowedIsOver ==
  \A i, j \in 1..Len(rows) :
    i < j /\ rows[i].by # rows[j].by /\ Near(rows[i].by, rows[j].by) =>
      pc[rows[i].by] \notin {"idle", "queued", "inserting"}

SessionInv ==
  /\ SessionTypeOK
  /\ RowsWereSent
  /\ NothingSentYet
  /\ InsertsUnderLock
  /\ FollowedIsOver
  /\ TurnsApart

LEMMA SessionInitInv == SessionInit => SessionInv
<1> SUFFICES ASSUME SessionInit PROVE SessionInv
  OBVIOUS
<1>1. rows = <<>> /\ rows \in Seq(RowType) /\ Len(rows) = 0
  BY DEF SessionInit
<1>2. ttl \in Ttls \cup {NoTtl}
  BY DEF SessionInit
<1>3. SessionTypeOK
  BY <1>1, <1>2 DEF SessionInit, SessionTypeOK, RowType, Callers
<1>4. NothingSentYet /\ InsertsUnderLock
  BY DEF SessionInit, NothingSentYet, InsertsUnderLock
<1>5. RowsWereSent /\ FollowedIsOver /\ TurnsApart
  BY <1>1 DEF RowsWereSent, FollowedIsOver, TurnsApart, InTurnOrder, Apart
<1> QED BY <1>3, <1>4, <1>5 DEF SessionInv

\* What may happen without a new row: an append goes on to a state from which it
\* inserts only under the lock, and none goes back.
LEMMA SameRows ==
  ASSUME SessionInv, SessionTypeOK',
         UNCHANGED <<backend, home, sent>>,
         rows' = rows \/ rows' = <<>>,
         \A r \in Requests : pc'[r] \in {"idle", "queued"} =>
           pc[r] \in {"idle", "queued"},
         \A r \in Requests : pc'[r] = "inserting" =>
           /\ backend = "sqlite" /\ mutex'[home[r]] = r
           /\ pc[r] \in {"queued", "inserting"}
  PROVE  SessionInv'
<1> USE DEF SessionInv
<1>1. NothingSentYet' /\ InsertsUnderLock'
  BY DEF NothingSentYet, InsertsUnderLock
<1>2. CASE rows' = <<>>
  BY <1>1, <1>2 DEF RowsWereSent, FollowedIsOver, TurnsApart, InTurnOrder, Apart
<1>3. CASE rows' = rows
  <2>1. RowsWereSent' /\ TurnsApart'
    BY <1>3 DEF RowsWereSent, TurnsApart, InTurnOrder, Apart
  <2>2. FollowedIsOver'
    <3> SUFFICES ASSUME NEW i \in 1..Len(rows), NEW j \in 1..Len(rows),
                        i < j, rows[i].by # rows[j].by, Near(rows[i].by, rows[j].by)
                 PROVE  pc'[rows[i].by] \notin {"idle", "queued", "inserting"}
      BY <1>3 DEF FollowedIsOver, Near
    <3>1. rows \in Seq(RowType)
      BY DEF SessionTypeOK, RowType
    <3>2. rows[i] \in RowType
      BY <3>1
    <3>3. rows[i].by \in Requests
      BY <3>2 DEF RowType
    <3>4. pc[rows[i].by] \notin {"idle", "queued", "inserting"}
      BY DEF FollowedIsOver
    <3> QED BY <3>3, <3>4
  <2> QED BY <1>1, <2>1, <2>2
<1> QED BY <1>2, <1>3

\* One row more, of an append that holds the lock of its process.
LEMMA InsertInv ==
  ASSUME SessionInv, NEW r \in Requests, Insert(r)
  PROVE  SessionInv'
<1> DEFINE n == Len(rows)  new == Row(r, sent[r] + 1)
<1> USE DEF SessionInv
<1>1. /\ rows' = Append(rows, new) /\ sent' = [sent EXCEPT ![r] = @ + 1]
      /\ rows \in Seq(RowType) /\ new \in RowType /\ sent \in [Requests -> Nat]
      /\ pc[r] = "inserting" /\ backend = "sqlite" /\ mutex[home[r]] = r
      /\ UNCHANGED <<config, up, mutex, pc, caller, timer, emptied>>
  BY DEF Insert, SessionTypeOK, Row, RowType, InsertsUnderLock
<1>2. /\ Len(rows') = n + 1 /\ n \in Nat
      /\ \A i \in 1..n : rows'[i] = rows[i] /\ rows[i] \in RowType
      /\ rows'[n + 1].by = r /\ rows'[n + 1].at = sent[r] + 1
  BY <1>1 DEF Row
<1>3. SessionTypeOK'
  BY <1>1 DEF SessionTypeOK, config, emptied, RowType
<1>4. RowsWereSent'
  BY <1>1, <1>2 DEF RowsWereSent, RowType
<1>5. NothingSentYet' /\ InsertsUnderLock'
  BY <1>1 DEF NothingSentYet, InsertsUnderLock, config
<1>6. \A i \in 1..n : rows[i].by # r /\ Near(rows[i].by, r) =>
        pc[rows[i].by] \notin {"idle", "queued", "inserting"}
  <2> SUFFICES ASSUME NEW i \in 1..n, rows[i].by # r, Near(rows[i].by, r),
                      pc[rows[i].by] \in {"idle", "queued", "inserting"}
               PROVE  FALSE
    OBVIOUS
  <2>1. rows[i].by \in Requests /\ sent[rows[i].by] # 0
    BY <1>1, <1>2 DEF RowsWereSent, RowType
  <2>2. pc[rows[i].by] = "inserting"
    BY <2>1 DEF NothingSentYet
  <2> QED BY <1>1, <2>1, <2>2 DEF InsertsUnderLock, Near
<1>7. FollowedIsOver'
  <2> SUFFICES ASSUME NEW i \in 1..(n + 1), NEW j \in 1..(n + 1), i < j,
                      rows'[i].by # rows'[j].by, Near(rows'[i].by, rows'[j].by)
               PROVE  pc[rows'[i].by] \notin {"idle", "queued", "inserting"}
    BY <1>1, <1>2 DEF FollowedIsOver, Near, config
  <2>1. i \in 1..n /\ rows'[i] = rows[i]
    BY <1>2
  <2>2. CASE j = n + 1
    BY <1>2, <1>6, <2>1, <2>2
  <2>3. CASE j \in 1..n
    BY <1>2, <2>1, <2>3 DEF FollowedIsOver
  <2> QED BY <1>2, <2>2, <2>3
<1>8. InTurnOrder'
  <2> SUFFICES ASSUME NEW i \in 1..(n + 1), NEW j \in 1..(n + 1), i < j,
                      rows'[i].by = rows'[j].by
               PROVE  rows'[i].at < rows'[j].at
    BY <1>2 DEF InTurnOrder
  <2>1. i \in 1..n /\ rows'[i] = rows[i]
    BY <1>2
  <2>2. CASE j = n + 1
    BY <1>1, <1>2, <2>1, <2>2 DEF RowsWereSent, RowType
  <2>3. CASE j \in 1..n
    BY <1>2, <2>1, <2>3 DEF TurnsApart, InTurnOrder
  <2> QED BY <1>2, <2>2, <2>3
<1>9. Apart'
  <2> SUFFICES ASSUME NEW i \in 1..(n + 1), NEW j \in 1..(n + 1), NEW k \in 1..(n + 1),
                      i < j, j < k, rows'[i].by = rows'[k].by, rows'[j].by # rows'[i].by,
                      home[rows'[j].by] = home[rows'[i].by]
               PROVE  FALSE
    BY <1>1, <1>2 DEF Apart, config
  <2>1. i \in 1..n /\ j \in 1..n
    BY <1>2
  <2>2. CASE k = n + 1
    <3>1. rows[i].by = r /\ rows[j].by # rows[i].by /\ Near(rows[i].by, rows[j].by)
      BY <1>2, <2>1, <2>2 DEF Near
    <3> QED BY <1>1, <2>1, <3>1 DEF FollowedIsOver
  <2>3. CASE k \in 1..n
    BY <1>1, <1>2, <2>1, <2>3 DEF TurnsApart, Apart
  <2> QED BY <1>2, <2>2, <2>3
<1> QED BY <1>3, <1>4, <1>5, <1>7, <1>8, <1>9 DEF TurnsApart

\* A whole turn more, of an append that had stored nothing.
LEMMA PushInv ==
  ASSUME SessionInv, NEW r \in Requests, Push(r)
  PROVE  SessionInv'
<1> DEFINE n == Len(rows)  m == Size[r]
<1> USE DEF SessionInv
<1>1. /\ rows' = rows \o Turn(r) /\ sent' = [sent EXCEPT ![r] = m]
      /\ pc' = [pc EXCEPT ![r] = "pushed"] /\ pc \in [Requests -> {"idle"} \cup Working \cup Over]
      /\ rows \in Seq(RowType) /\ m \in Nat /\ sent \in [Requests -> Nat]
      /\ pc[r] = "queued" /\ backend = "redis"
      /\ UNCHANGED <<config, up, mutex, caller, timer, emptied>>
  BY StoreAssumption DEF Push, SessionTypeOK, RowType
<1>2. /\ Turn(r) \in Seq(RowType) /\ Len(Turn(r)) = m
      /\ \A k \in 1..m : Turn(r)[k].by = r /\ Turn(r)[k].at = k
  BY TurnRows
<1>3. /\ Len(rows') = n + m /\ n \in Nat
      /\ \A i \in 1..n : rows'[i] = rows[i] /\ rows[i] \in RowType
      /\ \A i \in (n + 1)..(n + m) : rows'[i].by = r /\ rows'[i].at = i - n
  <2> DEFINE t == Turn(r)
  <2>1. rows \in Seq(RowType) /\ t \in Seq(RowType) /\ Len(t) = m
        /\ \A k \in 1..Len(t) : t[k].by = r /\ t[k].at = k
    BY <1>1, <1>2
  <2>2. rows' = rows \o t
    BY <1>1
  <2> HIDE DEF t, m
  <2>3. /\ Len(rows \o t) = n + Len(t) /\ n \in Nat
        /\ \A i \in 1..n : (rows \o t)[i] = rows[i] /\ rows[i] \in RowType
        /\ \A i \in (n + 1)..(n + Len(t)) :
             (rows \o t)[i].by = r /\ (rows \o t)[i].at = i - n
    BY <2>1, ConcatRows
  <2> QED BY <2>1, <2>2, <2>3
<1>4. SessionTypeOK'
  <2>1. rows' \in Seq(RowType)
    BY <1>1, <1>2
  <2> QED BY <1>1, <2>1 DEF SessionTypeOK, config, emptied, RowType, Working
<1>5. \A i \in 1..n : rows[i].by # r
  BY <1>1, <1>3 DEF RowsWereSent, NothingSentYet, RowType
<1>6. RowsWereSent'
  <2> SUFFICES ASSUME NEW i \in 1..(n + m)
               PROVE  rows'[i].at \in 1..sent'[rows'[i].by]
    BY <1>3 DEF RowsWereSent
  <2>1. CASE i \in 1..n
    BY <1>1, <1>3, <1>5, <2>1 DEF RowsWereSent, RowType
  <2>2. CASE i \in (n + 1)..(n + m)
    BY <1>1, <1>3, <2>2
  <2> QED BY <1>1, <1>3, <2>1, <2>2
<1>7. NothingSentYet' /\ InsertsUnderLock'
  BY <1>1 DEF NothingSentYet, InsertsUnderLock, config
<1>8. \A i \in 1..n : pc[rows[i].by] \notin {"idle", "queued", "inserting"}
  BY <1>1, <1>3 DEF RowsWereSent, NothingSentYet, InsertsUnderLock, RowType
<1>9. FollowedIsOver'
  <2> SUFFICES ASSUME NEW i \in 1..(n + m), NEW j \in 1..(n + m), i < j,
                      rows'[i].by # rows'[j].by
               PROVE  pc'[rows'[i].by] \notin {"idle", "queued", "inserting"}
    BY <1>3 DEF FollowedIsOver
  <2>1. i \in 1..n
    <3>1. n \in Nat /\ m \in Nat
      BY <1>1, <1>3
    <3>2. i \notin 1..n => i \in (n + 1)..(n + m) /\ j \in (n + 1)..(n + m)
      BY <3>1
    <3>3. \A k \in (n + 1)..(n + m) : rows'[k].by = r
      BY <1>3
    <3> QED BY <3>2, <3>3
  <2> QED BY <1>1, <1>3, <1>5, <1>8, <2>1 DEF RowType
<1>10. InTurnOrder'
  <2> SUFFICES ASSUME NEW i \in 1..(n + m), NEW j \in 1..(n + m), i < j,
                      rows'[i].by = rows'[j].by
               PROVE  rows'[i].at < rows'[j].at
    BY <1>3 DEF InTurnOrder
  <2>1. CASE j \in 1..n
    BY <1>3, <2>1 DEF TurnsApart, InTurnOrder
  <2>2. CASE j \in (n + 1)..(n + m)
    <3>1. i \in (n + 1)..(n + m)
      BY <1>1, <1>3, <1>5, <2>2
    <3> QED BY <1>1, <1>3, <2>2, <3>1
  <2> QED BY <1>1, <1>3, <2>1, <2>2
<1>11. Apart'
  <2> SUFFICES ASSUME NEW i \in 1..(n + m), NEW j \in 1..(n + m), NEW k \in 1..(n + m),
                      i < j, j < k, rows'[i].by = rows'[k].by, rows'[j].by # rows'[i].by
               PROVE  FALSE
    BY <1>3 DEF Apart
  <2>1. CASE k \in 1..n
    <3>1. i \in 1..n /\ j \in 1..n /\ n \in Nat
      BY <1>3, <2>1
    <3>2. rows'[i] = rows[i] /\ rows'[j] = rows[j] /\ rows'[k] = rows[k]
      BY <1>3, <2>1, <3>1
    <3>3. rows[j].by = rows[i].by \/ (backend = "sqlite" /\ home[rows[j].by] # home[rows[i].by])
      BY <2>1, <3>1, <3>2 DEF TurnsApart, Apart
    <3> QED BY <1>1, <3>2, <3>3
  <2>2. CASE k \in (n + 1)..(n + m)
    <3>1. i \in (n + 1)..(n + m) /\ j \in (n + 1)..(n + m)
      BY <1>1, <1>3, <1>5, <2>2
    <3> QED BY <1>3, <3>1
  <2> QED BY <1>1, <1>3, <2>1, <2>2
<1> QED BY <1>4, <1>6, <1>7, <1>9, <1>10, <1>11 DEF TurnsApart

LEMMA EndInv ==
  ASSUME SessionInv, NEW r \in Requests, NEW state \in Over, NEW result \in Callers,
         End(r, state, result)
  PROVE  SessionInv'
<1>1. SessionTypeOK'
  BY DEF SessionInv, SessionTypeOK, End, Tell, config, emptied
<1>2. \A q \in Requests : pc'[q] = pc[q] \/ (q = r /\ pc'[q] = state)
  BY DEF SessionInv, SessionTypeOK, End
<1>3. \A q \in Requests : pc'[q] = "inserting" =>
        backend = "sqlite" /\ mutex'[home[q]] = q /\ pc[q] = "inserting"
  BY <1>2 DEF SessionInv, SessionTypeOK, End, InsertsUnderLock, Over
<1> QED BY <1>1, <1>2, <1>3, SameRows DEF End, config, Over

LEMMA SessionStepInv == SessionInv /\ [SessionNext]_sessionVars => SessionInv'
<1> SUFFICES ASSUME SessionInv, [SessionNext]_sessionVars
             PROVE  SessionInv'
  OBVIOUS
<1> USE DEF config, emptied, Working, Over, Callers
<1>1. ASSUME NEW r \in Requests, BeginAppend(r) \/ AppendNothing(r)
      PROVE  SessionInv'
  <2>1. SessionTypeOK'
    BY <1>1 DEF BeginAppend, AppendNothing, SessionInv, SessionTypeOK
  <2> QED BY <1>1, <2>1, SameRows
          DEF BeginAppend, AppendNothing, SessionInv, SessionTypeOK, InsertsUnderLock
<1>2. ASSUME NEW r \in Requests, Lock(r)
      PROVE  SessionInv'
  <2>1. SessionTypeOK'
    BY <1>2 DEF Lock, SessionInv, SessionTypeOK
  <2> QED BY <1>2, <2>1, SameRows, StoreAssumption DEF Lock, SessionInv, SessionTypeOK, InsertsUnderLock
<1>3. ASSUME NEW r \in Requests, Finish(r) \/ InsertFails(r) \/ Return(r) \/ CommandFails(r)
      PROVE  SessionInv'
  BY <1>3, EndInv DEF Finish, InsertFails, Return, CommandFails
<1>4. ASSUME NEW r \in Requests, SendExpire(r) \/ Expire(r) \/ Drop(r)
      PROVE  SessionInv'
  <2>1. SessionTypeOK'
    BY <1>4, NoRows DEF SendExpire, Expire, Drop, Empty, SessionInv, SessionTypeOK
  <2> QED BY <1>4, <2>1, SameRows
          DEF SendExpire, Expire, Drop, Empty, SessionInv, SessionTypeOK, InsertsUnderLock
<1>5. ASSUME NEW p \in Processes, Clear(p)
      PROVE  SessionInv'
  <2>1. SessionTypeOK'
    BY <1>5, NoRows DEF Clear, Empty, SessionInv, SessionTypeOK
  <2> QED BY <1>5, <2>1, SameRows DEF Clear, Empty, SessionInv, SessionTypeOK, InsertsUnderLock
<1>6. ASSUME NEW p \in Processes, Crash(p)
      PROVE  SessionInv'
  <2>1. SessionTypeOK'
    BY <1>6 DEF Crash, SessionInv, SessionTypeOK
  <2> QED BY <1>6, <2>1, SameRows DEF Crash, SessionInv, SessionTypeOK, InsertsUnderLock
<1>7. ASSUME NEW p \in Processes, Restart(p)
      PROVE  SessionInv'
  <2>1. SessionTypeOK'
    BY <1>7 DEF Restart, SessionInv, SessionTypeOK
  <2> QED BY <1>7, <2>1, SameRows DEF Restart, SessionInv, SessionTypeOK, InsertsUnderLock
<1>8. CASE KeyExpires
  <2>1. SessionTypeOK'
    BY <1>8, NoRows DEF KeyExpires, Empty, SessionInv, SessionTypeOK
  <2> QED BY <1>8, <2>1, SameRows DEF KeyExpires, Empty, SessionInv, SessionTypeOK, InsertsUnderLock
<1>9. CASE UNCHANGED sessionVars
  <2>1. SessionTypeOK'
    BY <1>9 DEF sessionVars, SessionInv, SessionTypeOK
  <2> QED BY <1>9, <2>1, SameRows DEF sessionVars, SessionInv, SessionTypeOK, InsertsUnderLock
<1> QED
  BY <1>1, <1>2, <1>3, <1>4, <1>5, <1>6, <1>7, <1>8, <1>9, InsertInv, PushInv
  DEF SessionNext, Work

-----------------------------------------------------------------------------
(* What an append that came to its end has stored                          *)

Unlost == Requests \ lost

\* What an append has stored is there as long as the session is not emptied after it.
SentIsThere ==
  \A r \in Unlost : \A k \in 1..sent[r] : \E i \in 1..Len(rows) : rows[i] = Row(r, k)

\* An append is past its messages only when it has stored them all, and Redis
\* stores all or none.
SentWhole ==
  \A r \in Requests :
    /\ sent[r] \in 0..Size[r]
    /\ pc[r] \in {"pushed", "expiring", "expired", "done"} => sent[r] = Size[r]
    /\ pc[r] \in {"pushed", "expiring", "expired"} => backend = "redis"
    /\ backend = "redis" => sent[r] \in {0, Size[r]}
    /\ caller[r] = "ok" => pc[r] = "done"

\* An append to Redis is past its EXPIRE only when the key has an expiry.
ExpirySet ==
  \A r \in Unlost :
    /\ backend = "redis" /\ ttl # NoTtl /\ Size[r] > 0
    /\ pc[r] \in {"expired", "done"}
    => timer

\* An append whose messages were removed adds none, unless that was in the midst of them.
LostIsGone ==
  /\ \A r \in lost \ overrun :
       sent[r] > 0 /\ NothingOf(r) /\ (pc[r] = "inserting" => sent[r] = Size[r])
  /\ overrun # {} => backend = "sqlite"

WholeInv == SentIsThere /\ SentWhole /\ ExpirySet /\ LostIsGone

LEMMA InitWhole == SessionInit => WholeInv
BY StoreAssumption DEF SessionInit, WholeInv, SentIsThere, SentWhole, ExpirySet, LostIsGone, Unlost

\* What is not there any more is not missed.
LEMMA EmptyWhole ==
  ASSUME SessionInv, WholeInv, Empty, UNCHANGED <<backend, ttl, sent, caller>>,
         \A q \in Requests : pc'[q] = pc[q] \/ (pc[q] = "expiring" /\ pc'[q] = "expired")
  PROVE  WholeInv'
<1> USE StoreAssumption DEF WholeInv
<1>1. SessionTypeOK /\ InsertsUnderLock
  BY DEF SessionInv
<1>2. /\ rows' = <<>> /\ lost' = lost \cup {q \in Requests : sent[q] > 0}
      /\ overrun' = overrun \cup {q \in Requests : pc[q] = "inserting" /\ sent[q] \in 1..(Size[q] - 1)}
  BY DEF Empty
<1>3. SentWhole'
  BY DEF SentWhole
<1>4. \A q \in Unlost' : q \in Requests /\ sent[q] = 0
  BY <1>2 DEF Unlost, SentWhole
<1>5. SentIsThere'
  BY <1>4 DEF SentIsThere
<1>6. ExpirySet'
  BY <1>3, <1>4 DEF ExpirySet, SentWhole
<1>7. LostIsGone'
  <2>1. ASSUME NEW q \in lost' \ overrun'
        PROVE  sent'[q] > 0 /\ NothingOf(q)' /\ (pc'[q] = "inserting" => sent'[q] = Size[q])
    <3>1. q \in Requests /\ sent[q] > 0
      BY <1>1, <1>2, <2>1 DEF SessionTypeOK, LostIsGone
    <3>2. NothingOf(q)'
      BY <1>2 DEF NothingOf
    <3>3. sent[q] \in 0..Size[q] /\ Size[q] \in Nat
      BY <3>1 DEF SentWhole
    <3> QED BY <1>2, <2>1, <3>1, <3>2, <3>3
  <2>2. overrun' # {} => backend' = "sqlite"
    BY <1>1, <1>2 DEF LostIsGone, InsertsUnderLock
  <2> QED BY <2>1, <2>2 DEF LostIsGone
<1> QED BY <1>3, <1>5, <1>6, <1>7

\* Nothing changes in what is stored, and no append gets past its messages.
LEMMA SameWhole ==
  ASSUME SessionInv, WholeInv, UNCHANGED <<backend, ttl, sent, rows, timer, lost, overrun>>,
         SentWhole',
         \A q \in Requests : pc'[q] \in {"expired", "done"} /\ pc'[q] # pc[q] =>
           \/ timer \/ Size[q] = 0 \/ backend = "sqlite" \/ ttl = NoTtl
           \/ pc[q] = "expired",
         \A q \in Requests : pc'[q] = "inserting" => pc[q] \in {"queued", "inserting"}
  PROVE  WholeInv'
<1> USE StoreAssumption DEF WholeInv
<1>1. SentIsThere'
  BY DEF SentIsThere, Unlost
<1>2. ExpirySet'
  BY DEF ExpirySet, Unlost
<1>3. lost \subseteq Requests /\ NothingSentYet
  BY DEF SessionInv, SessionTypeOK
<1>4. LostIsGone'
  <2> SUFFICES ASSUME NEW q \in lost \ overrun
               PROVE  NothingOf(q)' /\ (pc'[q] = "inserting" => sent[q] = Size[q])
    BY DEF LostIsGone
  <2>1. NothingOf(q)'
    BY DEF LostIsGone, NothingOf
  <2>2. pc[q] # "queued"
    BY <1>3 DEF LostIsGone, NothingSentYet
  <2> QED BY <1>3, <2>1, <2>2 DEF LostIsGone
<1> QED BY <1>1, <1>2, <1>4

LEMMA InsertWhole ==
  ASSUME SessionInv, WholeInv, NEW r \in Requests, Insert(r)
  PROVE  WholeInv'
<1> USE StoreAssumption DEF WholeInv
<1>1. SessionTypeOK /\ InsertsUnderLock
  BY DEF SessionInv
<1>2. /\ rows' = Append(rows, Row(r, sent[r] + 1)) /\ sent' = [sent EXCEPT ![r] = @ + 1]
      /\ rows \in Seq(RowType) /\ sent \in [Requests -> Nat]
      /\ pc[r] = "inserting" /\ sent[r] < Size[r]
      /\ UNCHANGED <<backend, ttl, pc, caller, timer, lost, overrun>>
  BY <1>1 DEF Insert, SessionTypeOK, RowType, config, emptied
<1>3. /\ Len(rows') = Len(rows) + 1 /\ rows'[Len(rows) + 1] = Row(r, sent[r] + 1)
      /\ \A i \in 1..Len(rows) : rows'[i] = rows[i] /\ i \in 1..Len(rows')
      /\ Len(rows) + 1 \in 1..Len(rows') /\ Len(rows) \in Nat
  BY <1>2
<1>4. SentIsThere'
  <2> SUFFICES ASSUME NEW q \in Unlost, NEW k \in 1..sent'[q]
               PROVE  \E i \in 1..Len(rows') : rows'[i] = Row(q, k)
    BY <1>2 DEF SentIsThere, Unlost
  <2>1. CASE k \in 1..sent[q]
    BY <1>3, <2>1 DEF SentIsThere
  <2>2. CASE q = r /\ k = sent[r] + 1
    BY <1>3, <2>2
  <2>3. q \in Requests /\ (k \in 1..sent[q] \/ (q = r /\ k = sent[r] + 1))
    BY <1>2 DEF Unlost
  <2> QED BY <2>1, <2>2, <2>3
<1>5. SentWhole'
  <2> SUFFICES ASSUME NEW q \in Requests
               PROVE  /\ sent'[q] \in 0..Size[q]
                      /\ pc[q] \in {"pushed", "expiring", "expired", "done"} => sent'[q] = Size[q]
                      /\ backend = "redis" => sent'[q] \in {0, Size[q]}
    BY <1>2 DEF SentWhole
  <2>1. CASE q = r
    BY <1>1, <1>2, <2>1 DEF SentWhole, InsertsUnderLock
  <2>2. CASE q # r
    BY <1>2, <2>2 DEF SentWhole
  <2> QED BY <2>1, <2>2
<1>6. ExpirySet'
  BY <1>1, <1>2 DEF ExpirySet, InsertsUnderLock
<1>7. LostIsGone'
  <2>1. r \notin lost \ overrun
    BY <1>2 DEF LostIsGone
  <2> SUFFICES ASSUME NEW q \in lost \ overrun
               PROVE  sent'[q] > 0 /\ NothingOf(q)' /\ (pc[q] = "inserting" => sent'[q] = Size[q])
    BY <1>2 DEF LostIsGone
  <2>2. q # r /\ q \in Requests /\ sent'[q] = sent[q]
    BY <1>1, <1>2, <2>1 DEF SessionTypeOK
  <2>3. NothingOf(q)'
    BY <1>3, <2>2 DEF LostIsGone, NothingOf, Row
  <2> QED BY <2>2, <2>3 DEF LostIsGone
<1> QED BY <1>4, <1>5, <1>6, <1>7

LEMMA PushWhole ==
  ASSUME SessionInv, WholeInv, NEW r \in Requests, Push(r)
  PROVE  WholeInv'
<1> USE StoreAssumption DEF WholeInv
<1>1. SessionTypeOK /\ NothingSentYet
  BY DEF SessionInv
<1>2. /\ rows' = rows \o Turn(r) /\ sent' = [sent EXCEPT ![r] = Size[r]]
      /\ pc' = [pc EXCEPT ![r] = "pushed"] /\ pc[r] = "queued" /\ sent[r] = 0 /\ backend = "redis"
      /\ rows \in Seq(RowType) /\ sent \in [Requests -> Nat] /\ Size[r] \in Nat
      /\ pc \in [Requests -> {"idle"} \cup Working \cup Over]
      /\ Turn(r) \in Seq(RowType) /\ Len(Turn(r)) = Size[r]
      /\ UNCHANGED <<backend, ttl, caller, timer, lost, overrun>>
  BY <1>1, TurnRows DEF Push, SessionTypeOK, RowType, NothingSentYet, config, emptied
<1>3. /\ \A i \in 1..Len(rows) : rows'[i] = rows[i] /\ i \in 1..Len(rows')
      /\ \A k \in 1..Size[r] : rows'[Len(rows) + k] = Turn(r)[k]
                               /\ Len(rows) + k \in 1..Len(rows')
      /\ \A i \in 1..Len(rows') : i \in 1..Len(rows) \/ rows'[i].by = r
  <2> DEFINE t == Turn(r)  m == Size[r]
  <2>1. \A k \in 1..m : t[k].by = r
    BY TurnRows
  <2>2. rows \in Seq(RowType) /\ t \in Seq(RowType) /\ Len(t) = m /\ rows' = rows \o t /\ m \in Nat
    BY <1>2
  <2> HIDE DEF t, m
  <2>3. /\ Len(rows \o t) = Len(rows) + m /\ Len(rows) \in Nat
        /\ \A i \in 1..Len(rows) : (rows \o t)[i] = rows[i]
        /\ \A k \in 1..m : (rows \o t)[Len(rows) + k] = t[k]
    <3>1. rows \in Seq(RowType) /\ t \in Seq(RowType) /\ Len(t) = m
      BY <2>2
    <3>2. Len(rows \o t) = Len(rows) + m /\ Len(rows) \in Nat
      BY <3>1
    <3>3. \A i \in 1..Len(rows) : (rows \o t)[i] = rows[i]
      BY <3>1
    <3>4. \A k \in 1..Len(t) : (rows \o t)[Len(rows) + k] = t[k]
      BY <3>1
    <3> QED BY <3>1, <3>2, <3>3, <3>4
  <2>4. \A i \in 1..(Len(rows) + m) : i \in 1..Len(rows) \/ i - Len(rows) \in 1..m
    BY <2>2, <2>3
  <2>5. \A i \in 1..(Len(rows) + m) : i \in 1..Len(rows) \/ (rows \o t)[i].by = r
    <3> SUFFICES ASSUME NEW i \in 1..(Len(rows) + m), i - Len(rows) \in 1..m
                 PROVE  (rows \o t)[i].by = r
      BY <2>4
    <3>1. i = Len(rows) + (i - Len(rows))
      BY <2>3
    <3> QED BY <2>1, <2>3, <3>1
  <2>6. /\ \A i \in 1..Len(rows) : i \in 1..(Len(rows) + m)
        /\ \A k \in 1..m : Len(rows) + k \in 1..(Len(rows) + m)
    BY <2>2, <2>3
  <2> QED BY <2>2, <2>3, <2>5, <2>6 DEF t, m
<1>4. SentIsThere'
  <2> SUFFICES ASSUME NEW q \in Unlost, NEW k \in 1..sent'[q]
               PROVE  \E i \in 1..Len(rows') : rows'[i] = Row(q, k)
    BY <1>2 DEF SentIsThere, Unlost
  <2>1. CASE q = r
    <3>1. \A j \in 1..Size[r] : Turn(r)[j] = Row(r, j)
      BY DEF Turn
    <3>2. k \in 1..Size[r] /\ q = r
      BY <1>2, <2>1
    <3> QED BY <1>3, <3>1, <3>2
  <2>2. CASE q # r
    <3>1. q \in Requests /\ sent'[q] = sent[q]
      BY <1>2, <2>2 DEF Unlost
    <3> QED BY <1>3, <3>1 DEF SentIsThere
  <2> QED BY <2>1, <2>2
<1>5. SentWhole'
  <2> SUFFICES ASSUME NEW q \in Requests
               PROVE  /\ sent'[q] \in 0..Size[q]
                      /\ pc'[q] \in {"pushed", "expiring", "expired", "done"} => sent'[q] = Size[q]
                      /\ sent'[q] \in {0, Size[q]}
                      /\ caller[q] = "ok" => pc'[q] = "done"
    BY <1>2 DEF SentWhole
  <2>1. CASE q = r
    BY <1>2, <2>1 DEF SentWhole
  <2>2. CASE q # r
    BY <1>2, <2>2 DEF SentWhole
  <2> QED BY <2>1, <2>2
<1>6. ExpirySet'
  <2>1. \A q \in Unlost : pc'[q] \in {"expired", "done"} => pc[q] = pc'[q]
    BY <1>2 DEF Unlost
  <2> QED BY <1>2, <2>1 DEF ExpirySet, Unlost
<1>7. LostIsGone'
  <2> SUFFICES ASSUME NEW q \in lost \ overrun
               PROVE  sent'[q] > 0 /\ NothingOf(q)' /\ (pc'[q] = "inserting" => sent'[q] = Size[q])
    BY <1>2 DEF LostIsGone
  <2>1. q # r
    BY <1>2 DEF LostIsGone
  <2>2. q \in Requests /\ sent'[q] = sent[q] /\ pc'[q] = pc[q]
    BY <1>1, <1>2, <2>1 DEF SessionTypeOK
  <2>3. NothingOf(q)'
    BY <1>3, <2>1 DEF LostIsGone, NothingOf
  <2> QED BY <2>2, <2>3 DEF LostIsGone
<1> QED BY <1>4, <1>5, <1>6, <1>7

LEMMA EndWhole ==
  ASSUME SessionInv, WholeInv, NEW r \in Requests,
         Finish(r) \/ InsertFails(r) \/ Return(r) \/ CommandFails(r)
  PROVE  WholeInv'
<1> USE StoreAssumption DEF WholeInv
<1>1. SessionTypeOK /\ InsertsUnderLock
  BY DEF SessionInv
<1>2. UNCHANGED <<backend, ttl, rows, sent, timer, lost, overrun>>
  BY DEF Finish, InsertFails, Return, CommandFails, End, config, emptied
<1>3. PICK state \in {"done", "failed"} :
        /\ pc' = [pc EXCEPT ![r] = state]
        /\ Tell(r, IF state = "done" THEN "ok" ELSE "err")
        /\ state = "done" => sent[r] = Size[r]
        /\ state = "done" => pc[r] = "expired" \/ backend = "sqlite" \/ ttl = NoTtl
  BY <1>1 DEF Finish, InsertFails, Return, CommandFails, End, SentWhole, InsertsUnderLock
<1>4. pc[r] # "done" /\ \A q \in Requests : pc'[q] = IF q = r THEN state ELSE pc[q]
  BY <1>1, <1>3 DEF SessionTypeOK, Finish, InsertFails, Return, CommandFails, Working
<1>5. SentWhole'
  <2> SUFFICES ASSUME NEW q \in Requests
               PROVE  /\ pc'[q] \in {"pushed", "expiring", "expired", "done"} =>
                           sent[q] = Size[q]
                      /\ pc'[q] \in {"pushed", "expiring", "expired"} => backend = "redis"
                      /\ caller'[q] = "ok" => pc'[q] = "done"
    BY <1>2 DEF SentWhole
  <2>1. caller'[q] = "ok" => caller[q] = "ok" \/ (q = r /\ state = "done")
    BY <1>1, <1>3 DEF Tell, SessionTypeOK
  <2> QED BY <1>3, <1>4, <2>1 DEF SentWhole
<1> QED BY <1>2, <1>3, <1>4, <1>5, SameWhole

LEMMA ExpireWhole ==
  ASSUME SessionInv, WholeInv, NEW r \in Requests, Expire(r)
  PROVE  WholeInv'
<1> USE StoreAssumption DEF WholeInv
<1>1. SessionTypeOK
  BY DEF SessionInv
<1>2. /\ UNCHANGED <<backend, ttl, sent, caller>> /\ pc[r] = "expiring"
      /\ \A q \in Requests : pc'[q] = IF q = r THEN "expired" ELSE pc[q]
  BY <1>1 DEF Expire, SessionTypeOK, config
<1>3. CASE AsI64(ttl) <= 0
  BY <1>2, <1>3, EmptyWhole DEF Expire
<1>4. CASE ~(AsI64(ttl) <= 0)
  <2>1. timer' = (rows # <<>>) /\ UNCHANGED <<rows, lost, overrun>>
    BY <1>4 DEF Expire, emptied
  <2>2. SentWhole'
    BY <1>2 DEF SentWhole
  <2>3. SentIsThere'
    BY <1>2, <2>1 DEF SentIsThere, Unlost
  <2>4. ExpirySet'
    <3> SUFFICES ASSUME NEW q \in Unlost, Size[q] > 0, pc'[q] \in {"expired", "done"}
                 PROVE  timer'
      BY <1>2, <2>1 DEF ExpirySet, Unlost
    <3>1. q \in Requests /\ sent[q] = Size[q] /\ Size[q] \in Nat
      BY <1>2 DEF SentWhole, Unlost
    <3>2. 1 \in 1..sent[q]
      BY <3>1
    <3>3. PICK i \in 1..Len(rows) : rows[i] = Row(q, 1)
      BY <3>2 DEF SentIsThere
    <3>4. rows # <<>>
      BY <3>3
    <3> QED BY <2>1, <3>4
  <2>5. LostIsGone'
    BY <1>1, <1>2, <2>1 DEF LostIsGone, NothingOf, SessionTypeOK
  <2> QED BY <2>2, <2>3, <2>4, <2>5
<1> QED BY <1>3, <1>4

LEMMA StepWhole == SessionInv /\ WholeInv /\ [SessionNext]_sessionVars => WholeInv'
<1> SUFFICES ASSUME SessionInv, WholeInv, [SessionNext]_sessionVars
             PROVE  WholeInv'
  OBVIOUS
<1> USE StoreAssumption DEF config, emptied
<1>0. SessionTypeOK /\ NothingSentYet /\ InsertsUnderLock /\ SentWhole
  BY DEF SessionInv, WholeInv
<1>1. ASSUME NEW r \in Requests, BeginAppend(r) \/ AppendNothing(r)
      PROVE  WholeInv'
  <2>1. /\ UNCHANGED <<backend, ttl, sent, rows, timer, lost, overrun>>
        /\ pc[r] = "idle" /\ sent[r] = 0
        /\ \A q \in Requests : q # r => pc'[q] = pc[q] /\ caller'[q] = caller[q]
        /\ \/ pc'[r] = "queued" /\ caller'[r] = "waiting"
           \/ pc'[r] = "done" /\ Size[r] = 0
    BY <1>0, <1>1 DEF BeginAppend, AppendNothing, SessionTypeOK, NothingSentYet
  <2>2. SentWhole'
    BY <1>0, <2>1 DEF SentWhole
  <2>3. \A q \in Requests : pc'[q] \in {"expired", "done"} /\ pc'[q] # pc[q] => Size[q] = 0
    BY <2>1
  <2>4. \A q \in Requests : pc'[q] = "inserting" => pc[q] \in {"queued", "inserting"}
    BY <2>1
  <2> QED BY <2>1, <2>2, <2>3, <2>4, SameWhole
<1>2. ASSUME NEW r \in Requests, Lock(r) \/ SendExpire(r)
      PROVE  WholeInv'
  <2>1. /\ UNCHANGED <<backend, ttl, rows, sent, timer, lost, overrun, caller>>
        /\ \A q \in Requests : q # r => pc'[q] = pc[q]
        /\ \/ pc[r] = "queued" /\ pc'[r] = "inserting"
           \/ pc[r] = "pushed" /\ pc'[r] = "expiring"
    BY <1>0, <1>2 DEF Lock, SendExpire, SessionTypeOK
  <2>2. SentWhole'
    <3> SUFFICES ASSUME NEW q \in Requests
                 PROVE  /\ pc'[q] \in {"pushed", "expiring", "expired", "done"} => sent[q] = Size[q]
                        /\ pc'[q] \in {"pushed", "expiring", "expired"} => backend = "redis"
                        /\ caller[q] = "ok" => pc'[q] = "done"
      BY <1>0, <2>1 DEF SentWhole
    <3> QED BY <1>0, <2>1 DEF SentWhole
  <2>3. \A q \in Requests : pc'[q] \in {"expired", "done"} => pc'[q] = pc[q]
    BY <2>1
  <2>4. \A q \in Requests : pc'[q] = "inserting" => pc[q] \in {"queued", "inserting"}
    BY <2>1
  <2> QED BY <2>1, <2>2, <2>3, <2>4, SameWhole
<1>3. ASSUME NEW p \in Processes, Clear(p)
      PROVE  WholeInv'
  BY <1>3, EmptyWhole DEF Clear
<1>4. ASSUME NEW p \in Processes, Crash(p) \/ Restart(p)
      PROVE  WholeInv'
  <2>1. /\ UNCHANGED <<backend, ttl, rows, sent, timer, lost, overrun>>
        /\ \A q \in Requests : pc'[q] = pc[q] \/ (pc[q] # "done" /\ pc'[q] = "crashed")
        /\ \A q \in Requests : caller'[q] = "ok" => caller[q] = "ok"
    BY <1>0, <1>4 DEF Crash, Restart, SessionTypeOK, Working
  <2>2. SentWhole'
    BY <1>0, <2>1 DEF SentWhole
  <2> QED BY <2>1, <2>2, SameWhole
<1>5. CASE KeyExpires
  BY <1>5, EmptyWhole DEF KeyExpires
<1>6. ASSUME NEW r \in Requests, Drop(r)
       PROVE  WholeInv'
  <2>1. /\ UNCHANGED <<backend, ttl, rows, sent, timer, lost, overrun, pc>>
        /\ \A q \in Requests : caller'[q] = "ok" => caller[q] = "ok"
    BY <1>0, <1>6 DEF Drop, SessionTypeOK
  <2>2. SentWhole'
    BY <1>0, <2>1 DEF SentWhole
  <2> QED BY <2>1, <2>2, SameWhole
<1>7. CASE UNCHANGED sessionVars
  <2>1. UNCHANGED <<backend, ttl, rows, sent, timer, lost, overrun, pc, caller>>
    BY <1>7 DEF sessionVars
  <2>2. SentWhole'
    BY <1>0, <2>1 DEF SentWhole
  <2> QED BY <2>1, <2>2, SameWhole
<1> QED
  BY <1>1, <1>2, <1>3, <1>4, <1>5, <1>6, <1>7, InsertWhole, PushWhole, EndWhole, ExpireWhole
  DEF SessionNext, Work

LEMMA WholeIsSafe == SessionInv /\ WholeInv => OkIsStored /\ LoadSeesWholeTurns /\ SessionExpires
<1> SUFFICES ASSUME SessionInv, WholeInv
             PROVE  OkIsStored /\ LoadSeesWholeTurns /\ SessionExpires
  OBVIOUS
<1> USE StoreAssumption DEF SessionInv, WholeInv
<1>1. \A r \in Unlost : sent[r] = Size[r] => WholeOf(r)
  BY DEF SentIsThere, WholeOf, Unlost
<1>2. \A r \in Requests : sent[r] = 0 => NothingOf(r)
  <2>1. \A i \in 1..Len(rows) : rows[i].by \in Requests
    BY RowsAre DEF SessionTypeOK
  <2> QED BY <2>1 DEF RowsWereSent, NothingOf
<1>3. OkIsStored
  BY <1>1 DEF SentWhole, OkIsStored, Unlost
<1>4. LoadSeesWholeTurns
  <2> SUFFICES ASSUME NEW r \in Requests, Free(home[r]),
                      backend = "redis" \/ (pc[r] \notin {"failed", "crashed"} /\ r \notin overrun)
               PROVE  NothingOf(r) \/ WholeOf(r)
    BY DEF LoadSeesWholeTurns, SessionTypeOK
  <2>1. CASE r \in lost
    BY <2>1 DEF LostIsGone
  <2>2. CASE r \notin lost
    <3>1. pc[r] # "inserting"
      BY DEF InsertsUnderLock, Free
    <3>2. sent[r] \in {0, Size[r]}
      BY <3>1 DEF SessionTypeOK, Working, Over, NothingSentYet, SentWhole
    <3> QED BY <1>1, <1>2, <2>2, <3>2 DEF Unlost
  <2> QED BY <2>1, <2>2
<1>5. SessionExpires
  BY DEF ExpirySet, SessionExpires, Unlost
<1> QED BY <1>3, <1>4, <1>5

LEMMA SessionInvariant == SessionSpec => [](SessionInv /\ WholeInv)
BY SessionInitInv, SessionStepInv, InitWhole, StepWhole, PTL DEF SessionSpec

-----------------------------------------------------------------------------
(* Both kinds of storage *)

\* What happens is of the one or of the other.
LEMMA StorageIs == StorageSpec => SessionSpec /\ Spec
<1>1. StorageInit => SessionInit /\ Init
  BY DEF StorageInit
<1>2. [StorageNext]_storageVars => [SessionNext]_sessionVars
  BY DEF StorageNext, Keeping, Remembering, storageVars
<1>3. [StorageNext]_storageVars => [Next]_vars
  BY DEF StorageNext, Keeping, Remembering, storageVars
<1> QED BY <1>1, <1>2, <1>3, PTL DEF StorageSpec, SessionSpec, Spec

\* THEOREM.  The stores keep the order of each turn's messages, and keep the turns of
\* one process, and all turns in Redis, apart (the insert loop under with_conn's lock,
\* one RPUSH per turn).
THEOREM TurnsStayApart == StorageSpec => []TurnsApart
<1>1. SessionInv => TurnsApart
  BY DEF SessionInv
<1> QED BY <1>1, SessionInvariant, StorageIs, PTL

\* THEOREM.  append returns Ok only for a turn that is stored whole, and a turn handed
\* to the blocking pool is, also when its caller went away, as long as the session is
\* not emptied after its first message.
THEOREM OkTurnsAreStored == StorageSpec => []OkIsStored
BY WholeIsSafe, SessionInvariant, StorageIs, PTL

\* THEOREM.  A load never finds a part of a turn, but for the three kinds of SQLite
\* appends LoadSeesWholeTurns names: failed, crashed, and overrun by another process'
\* clear (with_conn's lock, one RPUSH per turn).
THEOREM LoadsSeeWholeTurns == StorageSpec => []LoadSeesWholeTurns
BY WholeIsSafe, SessionInvariant, StorageIs, PTL

\* THEOREM.  After an append that returned Ok a Redis session with a ttl has an expiry.
THEOREM SessionsExpire == StorageSpec => []SessionExpires
BY WholeIsSafe, SessionInvariant, StorageIs, PTL

\* THEOREM.  Every variable of the session stores has its type.
THEOREM StoresTypeCorrect == StorageSpec => []SessionTypeOK
<1>1. SessionInv => SessionTypeOK
  BY DEF SessionInv
<1> QED BY <1>1, SessionInvariant, StorageIs, PTL

\* THEOREM.  What is proved of Memory alone holds beside the session stores
\* (remember_batch, recall_filtered, post_json).
THEOREM MemoryIsKept == StorageSpec => []StoredAPrefix /\ []RecallFinds /\ []RetriesBackOff /\ []CallsCover
BY BeginningsAreStored, RecallFindsTheBest, RetriesAreBounded, NoWordIsLost, StorageIs, PTL
=============================================================================
