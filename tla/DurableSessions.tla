-------------------------- MODULE DurableSessions --------------------------
(***************************************************************************)
(* The stores that keep a session outside the process: SQLite              *)
(* (src/session/sqlite.rs) and Redis (src/session/redis.rs).  Each request *)
(* appends one turn to one session; sessions do not touch each other.      *)
(* Several processes may have the same store open, a process may crash and *)
(* restart, a statement or command may fail, the answer to a command that  *)
(* was carried out may be lost, and the caller of append may be dropped at *)
(* any await.                                                              *)
(*                                                                         *)
(* A row is one message: whose turn it is of, and its place there.         *)
(***************************************************************************)
EXTENDS Width, Sequences, FiniteSets

CONSTANTS
  Requests,   \* appends; each happens once
  Processes,
  Size,       \* how many messages each turn has
  NoTtl,      \* the value of ttl when with_ttl was not used
  Ttls,       \* the other values of ttl_seconds to consider
  Nobody

ASSUME StoreAssumption ==
  /\ Size \in [Requests -> Nat]
  /\ Nobody \notin Requests
  /\ Ttls \subseteq 0..(2 * MaxI64 + 1) /\ NoTtl \notin Nat

VARIABLES
  backend,  \* "sqlite" or "redis"
  ttl,      \* ttl_seconds of the Redis store
  home,     \* the process each request runs in
  up,       \* the processes that run
  mutex,    \* who holds the connection of each process (SQLite)
  pc,       \* how far each append has come
  sent,     \* how many messages of each turn it has stored
  caller,   \* what the caller of each append knows
  rows,     \* the session, in the order load returns it
  timer,    \* does the Redis key have an expiry?
  lost,     \* history variable: appends of which something was there when the
            \* session was emptied
  overrun   \* history variable: those of them that went on inserting after it

config      == <<backend, ttl, home>>
emptied     == <<lost, overrun>>
sessionVars == <<config, up, mutex, pc, sent, caller, rows, timer, emptied>>

-----------------------------------------------------------------------------
Over    == {"done", "failed", "crashed"}
Working == {"queued", "inserting", "pushed", "expiring", "expired"}
Callers == {"none", "waiting", "ok", "err", "gone"}

Row(r, k) == [by |-> r, at |-> k]
Turn(r)   == [k \in 1..Size[r] |-> Row(r, k)]

NothingOf(r) == \A i \in 1..Len(rows) : rows[i].by # r
WholeOf(r)   == \A k \in 1..Size[r] : \E i \in 1..Len(rows) : rows[i] = Row(r, k)

SessionInit ==
  /\ backend \in {"sqlite", "redis"}
  /\ ttl \in IF backend = "redis" THEN Ttls \cup {NoTtl} ELSE {NoTtl}
  /\ home \in [Requests -> Processes]
  /\ up = Processes
  /\ mutex = [p \in Processes |-> Nobody]
  /\ pc = [r \in Requests |-> "idle"]
  /\ sent = [r \in Requests |-> 0]
  /\ caller = [r \in Requests |-> "none"]
  /\ rows = <<>>
  /\ timer = FALSE
  /\ lost = {} /\ overrun = {}

\* The caller learns the result, if it is still there.
Tell(r, result) ==
  caller' = [caller EXCEPT ![r] = IF @ = "waiting" THEN result ELSE @]

\* append is called.
BeginAppend(r) ==
  /\ pc[r] = "idle"
  /\ home[r] \in up
  /\ backend = "redis" => Size[r] # 0
  /\ pc' = [pc EXCEPT ![r] = "queued"]
  /\ caller' = [caller EXCEPT ![r] = "waiting"]
  /\ UNCHANGED <<config, up, mutex, sent, rows, timer, emptied>>

\* Redis has nothing to do for an empty turn.
AppendNothing(r) ==
  /\ pc[r] = "idle"
  /\ home[r] \in up
  /\ backend = "redis" /\ Size[r] = 0
  /\ pc' = [pc EXCEPT ![r] = "done"]
  /\ caller' = [caller EXCEPT ![r] = "ok"]
  /\ UNCHANGED <<config, up, mutex, sent, rows, timer, emptied>>

\* The session is emptied, in the midst of the appends that run.
Empty ==
  /\ rows' = <<>> /\ timer' = FALSE
  /\ lost' = lost \cup {r \in Requests : sent[r] > 0}
  /\ overrun' = overrun \cup {r \in Requests : pc[r] = "inserting" /\ sent[r] \in 1..(Size[r] - 1)}

-----------------------------------------------------------------------------
(* SQLite: the statements of an append run in a job of the blocking pool.  *)

\* Altered: the connection is not locked for the whole job.
LockNothing(r) ==
  /\ backend = "sqlite" /\ pc[r] = "queued"
  /\ pc' = [pc EXCEPT ![r] = "inserting"]
  /\ UNCHANGED <<config, up, mutex, sent, caller, rows, timer, emptied>>

\* with_conn: the job takes the connection of its process.
Lock(r) ==
  /\ backend = "sqlite" /\ pc[r] = "queued"
  /\ mutex[home[r]] = Nobody
  /\ mutex' = [mutex EXCEPT ![home[r]] = r]
  /\ pc' = [pc EXCEPT ![r] = "inserting"]
  /\ UNCHANGED <<config, up, sent, caller, rows, timer, emptied>>

\* One INSERT of the loop, its seq one past the largest of the session.  No
\* transaction: each is there for every other process at once.
Insert(r) ==
  /\ pc[r] = "inserting" /\ sent[r] < Size[r]
  /\ rows' = Append(rows, Row(r, sent[r] + 1))
  /\ sent' = [sent EXCEPT ![r] = @ + 1]
  /\ UNCHANGED <<config, up, mutex, pc, caller, timer, emptied>>

\* A job ends, gives the connection back and tells the caller.
End(r, state, result) ==
  /\ pc' = [pc EXCEPT ![r] = state]
  /\ mutex' = [p \in Processes |-> IF mutex[p] = r THEN Nobody ELSE mutex[p]]
  /\ Tell(r, result)
  /\ UNCHANGED <<config, up, sent, rows, timer, emptied>>

\* Altered: the job hands its result over and waits until it is taken.
FinishNeedsCaller(r) ==
  pc[r] = "inserting" /\ sent[r] = Size[r] /\ caller[r] = "waiting" /\ End(r, "done", "ok")

\* The last row is in.
Finish(r) == pc[r] = "inserting" /\ sent[r] = Size[r] /\ End(r, "done", "ok")

\* Altered: a failing INSERT is skipped and the append succeeds.
InsertFailsQuietly(r) ==
  pc[r] = "inserting" /\ sent[r] < Size[r] /\ End(r, "done", "ok")

\* An INSERT fails (the file is locked by another process, the disk is full):
\* the rows before it stay.
InsertFails(r) ==
  pc[r] = "inserting" /\ sent[r] < Size[r] /\ End(r, "failed", "err")

-----------------------------------------------------------------------------
(* Redis: RPUSH, then EXPIRE when there is a ttl.                          *)

\* Altered: one RPUSH for each message.
PushOneByOne(r) ==
  /\ backend = "redis" /\ pc[r] = "queued"
  /\ rows' = Append(rows, Row(r, sent[r] + 1))
  /\ sent' = [sent EXCEPT ![r] = @ + 1]
  /\ pc' = [pc EXCEPT ![r] = IF sent[r] + 1 = Size[r] THEN "pushed" ELSE "queued"]
  /\ UNCHANGED <<config, up, mutex, caller, timer, emptied>>

\* The server carries out the RPUSH, whether or not anyone waits for it.
Push(r) ==
  /\ backend = "redis" /\ pc[r] = "queued"
  /\ rows' = rows \o Turn(r)
  /\ sent' = [sent EXCEPT ![r] = Size[r]]
  /\ pc' = [pc EXCEPT ![r] = "pushed"]
  /\ UNCHANGED <<config, up, mutex, caller, timer, emptied>>

\* Its answer has arrived: EXPIRE is sent, by a caller that is still there.
SendExpire(r) ==
  /\ pc[r] = "pushed" /\ ttl # NoTtl
  /\ caller[r] = "waiting"
  /\ pc' = [pc EXCEPT ![r] = "expiring"]
  /\ UNCHANGED <<config, up, mutex, sent, caller, rows, timer, emptied>>

\* Altered: EXPIRE comes before RPUSH, so a new key gets no expiry.
ExpireBeforePush(r) ==
  /\ pc[r] = "expiring"
  /\ pc' = [pc EXCEPT ![r] = "expired"]
  /\ timer' = (timer \/ Len(rows) > Size[r])
  /\ UNCHANGED <<config, up, mutex, sent, caller, rows, emptied>>

\* EXPIRE on a key that is there, with `ttl as i64' seconds; with 0 of them, which is
\* what a ttl under a second comes to, or fewer, it deletes the key.  (A number the
\* server refuses is a CommandFails.)
Expire(r) ==
  /\ pc[r] = "expiring"
  /\ pc' = [pc EXCEPT ![r] = "expired"]
  /\ IF AsI64(ttl) <= 0 THEN Empty
     ELSE timer' = (rows # <<>>) /\ UNCHANGED <<rows, emptied>>
  /\ UNCHANGED <<config, up, mutex, sent, caller>>

\* The last answer has arrived.
Return(r) ==
  /\ \/ pc[r] = "pushed" /\ ttl = NoTtl
     \/ pc[r] = "expired"
  /\ caller[r] = "waiting"
  /\ End(r, "done", "ok")

\* A command fails, or the answer to one that was carried out is lost.
CommandFails(r) ==
  /\ backend = "redis" /\ pc[r] \in Working
  /\ caller[r] = "waiting"
  /\ End(r, "failed", "err")

\* The server drops a key whose time is over.
KeyExpires ==
  /\ timer
  /\ Empty
  /\ UNCHANGED <<config, up, mutex, pc, sent, caller>>

-----------------------------------------------------------------------------
(* Both *)

\* The connection of process p is free for a statement: a load or a clear.
Free(p) == p \in up /\ mutex[p] = Nobody

\* clear: one DELETE, or one DEL.
Clear(p) ==
  /\ Free(p)
  /\ Empty
  /\ UNCHANGED <<config, up, mutex, pc, sent, caller>>

\* The future of append is dropped: what has been handed to the blocking pool or
\* sent to the server takes its course.
Drop(r) ==
  /\ caller[r] = "waiting"
  /\ caller' = [caller EXCEPT ![r] = "gone"]
  /\ UNCHANGED <<config, up, mutex, pc, sent, rows, timer, emptied>>

\* The process goes down with everything it was doing, and comes back.
Crash(p) ==
  /\ p \in up
  /\ up' = up \ {p}
  /\ mutex' = [mutex EXCEPT ![p] = Nobody]
  /\ pc' = [r \in Requests |-> IF home[r] = p /\ pc[r] \in Working
                               THEN "crashed" ELSE pc[r]]
  /\ caller' = [r \in Requests |-> IF home[r] = p /\ caller[r] = "waiting"
                                   THEN "gone" ELSE caller[r]]
  /\ UNCHANGED <<config, sent, rows, timer, emptied>>

Restart(p) ==
  /\ p \notin up
  /\ up' = up \cup {p}
  /\ UNCHANGED <<config, mutex, pc, sent, caller, rows, timer, emptied>>

\* What goes on by itself once it has begun.
Work(r) ==
  \/ Lock(r) \/ Insert(r) \/ Finish(r)
  \/ Push(r) \/ SendExpire(r) \/ Expire(r) \/ Return(r)

SessionNext ==
  \/ \E r \in Requests :
       \/ BeginAppend(r) \/ AppendNothing(r)
       \/ Work(r) \/ InsertFails(r) \/ CommandFails(r) \/ Drop(r)
  \/ \E p \in Processes : Clear(p) \/ Crash(p) \/ Restart(p)
  \/ KeyExpires

SessionSpec == SessionInit /\ [][SessionNext]_sessionVars

\* The blocking pool runs every job it was given, and a connection that stays
\* idle lets one that waits for it in; nothing else is taken for granted.
FairSessionSpec == SessionSpec /\ \A r \in Requests : WF_sessionVars(Lock(r)) /\ WF_sessionVars(Insert(r) \/ Finish(r))

-----------------------------------------------------------------------------
(* Properties *)

SessionTypeOK ==
  /\ backend \in {"sqlite", "redis"}
  /\ ttl \in Ttls \cup {NoTtl}
  /\ home \in [Requests -> Processes]
  /\ up \subseteq Processes
  /\ mutex \in [Processes -> Requests \cup {Nobody}]
  /\ pc \in [Requests -> {"idle"} \cup Working \cup Over]
  /\ sent \in [Requests -> Nat]
  /\ caller \in [Requests -> Callers]
  /\ rows \in Seq([by : Requests, at : Nat])
  /\ timer \in BOOLEAN
  /\ lost \subseteq Requests /\ overrun \subseteq Requests

\* Whatever fails, crashes, is dropped or runs next to it, no message of a turn
\* is stored twice or before one that precedes it (the insert loop, RPUSH).
InTurnOrder ==
  \A i, j \in 1..Len(rows) : i < j /\ rows[i].by = rows[j].by => rows[i].at < rows[j].at

\* Turns of one process are never woven into each other, nor are turns kept in
\* Redis; two processes on one SQLite file may do so.
Apart ==
  \A i, j, k \in 1..Len(rows) :
    i < j /\ j < k /\ rows[i].by = rows[k].by =>
      \/ rows[j].by = rows[i].by
      \/ backend = "sqlite" /\ home[rows[j].by] # home[rows[i].by]

\* The store keeps the order of each turn and, as far as one lock or one command
\* reaches, keeps turns apart.
TurnsApart == InTurnOrder /\ Apart

\* What a load can find of a turn of its process, or of any turn in Redis, is all
\* of it or nothing: never a part of one that is being stored (the lock of
\* with_conn, one RPUSH).  Three kinds of SQLite appends leave a part of their turn:
\* one that failed, one that went down with its process, and one that another
\* process' clear came in the midst of, which then returns Ok although only the
\* messages after the clear are there (one INSERT for each, no transaction).
LoadSeesWholeTurns ==
  \A r \in Requests :
    \/ ~Free(home[r])
    \/ backend = "sqlite" /\ (pc[r] \in {"failed", "crashed"} \/ r \in overrun)
    \/ NothingOf(r) \/ WholeOf(r)

\* append returns Ok only for a turn that is stored whole, and one that was
\* abandoned by its caller while SQLite was at it is still stored whole, as long as
\* the session is not emptied after the first of its messages was stored.
OkIsStored ==
  \A r \in Requests \ lost : caller[r] = "ok" \/ pc[r] = "done" => WholeOf(r)

\* Once an append to the session has returned Ok, the session has an expiry
\* (ttl_seconds; `expire` after every `rpush`): a failed or abandoned append
\* after it does not take the expiry away.
SessionExpires ==
  /\ backend = "redis" /\ ttl # NoTtl
  /\ \E r \in Requests \ lost : pc[r] = "done" /\ Size[r] > 0
  => timer

\* A turn handed to the blocking pool is stored, or fails, although its caller
\* may be gone: no job waits for the connection for ever.
JobsEnd ==
  \A r \in Requests :
    backend = "sqlite" /\ pc[r] \in {"queued", "inserting"} ~> pc[r] \in Over
=============================================================================
