--------------------------- MODULE SkillExecution ---------------------------
(***************************************************************************)
(* Agent::execute_skill (src/agent/runtime.rs) under the SkillPolicy       *)
(* (src/skills/mod.rs).  A call has two actors: the caller's future, which *)
(* checks the policy, spawns a task and waits for it under the policy's    *)
(* timeout, and the spawned task, which runs the skill.  The caller may be *)
(* dropped while it waits; the task may hang, fail or panic.  Tasks run on *)
(* the worker threads of the runtime, and a skill that does not await      *)
(* keeps its worker: when it has them all, nothing else is polled.         *)
(***************************************************************************)
EXTENDS Naturals, FiniteSets

CONSTANTS
  Invocations,   \* calls of execute_skill
  SkillNames,    \* skill names callers use
  Registered,    \* those the registry knows
  AnyAllowed,    \* is there no allowlist (allowed_skills = None)?
  Allowed,       \* the allowlist, when there is one
  Granted,       \* granted permission labels
  Required,      \* name -> the labels a skill requires
  HasTimeout,    \* does the policy have a timeout?
  Cooperative,   \* skills that keep reaching await points
  Workers,       \* worker threads of the runtime
  NoName

ASSUME SkillAssumption ==
  /\ Registered \subseteq SkillNames
  /\ Allowed \subseteq SkillNames
  /\ Cooperative \subseteq SkillNames
  /\ AnyAllowed \in BOOLEAN /\ HasTimeout \in BOOLEAN
  /\ DOMAIN Required = SkillNames
  /\ Workers \in Nat \ {0}
  /\ NoName \notin SkillNames

VARIABLES
  name,     \* the skill each call asks for
  caller,   \* the caller's future: where it is, or what it got
  job,      \* the spawned task
  overdue,  \* has the policy's time passed since the spawn?
  aborted   \* has the task been asked to stop?

skillVars == <<name, caller, job, overdue, aborted>>

Outcomes == {"value", "skill_error", "panicked"}
Answers  == Outcomes \cup {"not_found", "denied", "timed_out"}

\* Every worker is held by a skill that does not await.
Saturated ==
  Cardinality({i \in Invocations : job[i] = "running" /\ name[i] \notin Cooperative}) >= Workers

-----------------------------------------------------------------------------
\* Altered: one granted permission is enough.
PermittedByAny(n) ==
  /\ AnyAllowed \/ n \in Allowed
  /\ Required[n] = {} \/ Required[n] \cap Granted # {}

\* SkillPolicy::check
Permitted(n) ==
  /\ AnyAllowed \/ n \in Allowed
  /\ Required[n] \subseteq Granted

SkillInit ==
  /\ name = [i \in Invocations |-> NoName]
  /\ caller = [i \in Invocations |-> "idle"]
  /\ job = [i \in Invocations |-> "none"]
  /\ overdue = {}
  /\ aborted = {}

\* The skill is unknown, or the policy does not let it run: nothing is spawned.
Refuse(i, n) ==
  /\ caller[i] = "idle"
  /\ \/ n \notin Registered /\ caller' = [caller EXCEPT ![i] = "not_found"]
     \/ n \in Registered /\ ~Permitted(n) /\ caller' = [caller EXCEPT ![i] = "denied"]
  /\ name' = [name EXCEPT ![i] = n]
  /\ UNCHANGED <<job, overdue, aborted>>

\* The policy holds: the skill gets a task of its own, which waits for a worker.
Spawn(i, n) ==
  /\ caller[i] = "idle"
  /\ n \in Registered
  /\ Permitted(n)
  /\ name' = [name EXCEPT ![i] = n]
  /\ caller' = [caller EXCEPT ![i] = "waiting"]
  /\ job' = [job EXCEPT ![i] = "queued"]
  /\ UNCHANGED <<overdue, aborted>>

-----------------------------------------------------------------------------
(* The task *)

\* A worker polls the task for the first time.
Start(i) ==
  /\ job[i] = "queued" /\ i \notin aborted
  /\ ~Saturated
  /\ job' = [job EXCEPT ![i] = "running"]
  /\ UNCHANGED <<name, caller, overdue, aborted>>

\* The skill returns a value or an error, or panics.  A task that was asked to
\* stop can still do so if it gets there before its next await point.
Finish(i, outcome) ==
  /\ job[i] = "running"
  /\ name[i] \in Cooperative => ~Saturated
  /\ job' = [job EXCEPT ![i] = outcome]
  /\ UNCHANGED <<name, caller, overdue, aborted>>

\* Altered: the abort handle is a plain JoinHandle clone that is just dropped.
CancelNever(i) ==
  /\ job[i] = "running"
  /\ i \in aborted
  /\ FALSE
  /\ UNCHANGED skillVars

\* A task that was asked to stop does before its first poll, and at its next await.
Cancel(i) ==
  /\ job[i] = "queued" \/ (job[i] = "running" /\ name[i] \in Cooperative)
  /\ i \in aborted
  /\ ~Saturated
  /\ job' = [job EXCEPT ![i] = "cancelled"]
  /\ UNCHANGED <<name, caller, overdue, aborted>>

-----------------------------------------------------------------------------
(* The caller: each poll of timeout(limit, handle) looks at the handle, and if *)
(* that is not ready at the clock.                                             *)

TimePasses(i) ==
  /\ HasTimeout
  /\ job[i] # "none"
  /\ i \notin overdue
  /\ overdue' = overdue \cup {i}
  /\ UNCHANGED <<name, caller, job, aborted>>

\* The handle is ready: the caller gets what the task ended with, however late.
Return(i) ==
  /\ caller[i] = "waiting"
  /\ job[i] \in Outcomes
  /\ caller' = [caller EXCEPT ![i] = job[i]]
  /\ UNCHANGED <<name, job, overdue, aborted>>

\* The handle is not ready.
Look(i) ==
  /\ HasTimeout
  /\ caller[i] = "waiting"
  /\ job[i] \notin Outcomes
  /\ caller' = [caller EXCEPT ![i] = "looked"]
  /\ UNCHANGED <<name, job, overdue, aborted>>

\* Altered: the clock alone is looked at, and a finished skill reported late.
TimeOutFirst(i) ==
  /\ caller[i] \in {"waiting", "looked"}
  /\ i \in overdue
  /\ aborted' = aborted \cup {i}
  /\ caller' = [caller EXCEPT ![i] = "timed_out"]
  /\ UNCHANGED <<name, job, overdue>>

\* Altered: a timeout that hands its caller nothing.
TimeOutAbortsOnly(i) ==
  /\ caller[i] = "looked"
  /\ i \in overdue
  /\ aborted' = aborted \cup {i}
  /\ caller' = [caller EXCEPT ![i] = "waiting"]
  /\ UNCHANGED <<name, job, overdue>>

\* Then the clock has run out: abort the task and report the timeout, although
\* the skill may have finished since the handle was looked at.
TimeOut(i) ==
  /\ caller[i] = "looked"
  /\ i \in overdue
  /\ aborted' = aborted \cup {i}
  /\ caller' = [caller EXCEPT ![i] = "timed_out"]
  /\ UNCHANGED <<name, job, overdue>>

\* Neither is ready: the caller is polled again when one of them is.
Wait(i) ==
  /\ caller[i] = "looked"
  /\ i \notin overdue
  /\ caller' = [caller EXCEPT ![i] = "waiting"]
  /\ UNCHANGED <<name, job, overdue, aborted>>

\* The caller's future is dropped (its client disconnected): dropping the join
\* handle detaches the task, and nobody is left to abort it.
Abandon(i) ==
  /\ caller[i] = "waiting"
  /\ caller' = [caller EXCEPT ![i] = "gone"]
  /\ UNCHANGED <<name, job, overdue, aborted>>

Poll(i) == Return(i) \/ Look(i) \/ TimeOut(i) \/ Wait(i)

Act(i) ==
  \/ \E n \in SkillNames : Refuse(i, n) \/ Spawn(i, n)
  \/ Start(i)
  \/ \E outcome \in Outcomes : Finish(i, outcome)
  \/ Cancel(i)
  \/ TimePasses(i)
  \/ Poll(i)
  \/ Abandon(i)

SkillNext == \E i \in Invocations : Act(i)

SkillSpec == SkillInit /\ [][SkillNext]_skillVars

\* While a worker is free the runtime polls what is ready, and time passes.  Nothing
\* makes a skill finish, and nothing is polled while no worker is free.
FairSkillSpec ==
  /\ SkillSpec
  /\ \A i \in Invocations :
       /\ WF_skillVars(Start(i) \/ Cancel(i))
       /\ WF_skillVars(TimePasses(i))
       /\ WF_skillVars(~Saturated /\ Poll(i))

-----------------------------------------------------------------------------
(* Properties *)

\* Every variable has its type.
SkillTypeOK ==
  /\ name \in [Invocations -> SkillNames \cup {NoName}]
  /\ caller \in [Invocations -> {"idle", "waiting", "looked", "gone"} \cup Answers]
  /\ job \in [Invocations -> {"none", "queued", "running", "cancelled"} \cup Outcomes]
  /\ overdue \subseteq Invocations
  /\ aborted \subseteq Invocations

\* What a caller is told is what happened: a value, an error or a panic is the
\* task's own, a refused skill never started and was not permitted, a timeout
\* is reported only of a skill that was out of time and told to stop, and a
\* task that runs on unattended is one whose caller went away.
AnswersAreTrue ==
  \A i \in Invocations :
    /\ caller[i] \in Outcomes => job[i] = caller[i]
    /\ job[i] = "none" <=> caller[i] \in {"idle", "not_found", "denied"}
    /\ job[i] # "none" => /\ name[i] \in Registered
                          /\ AnyAllowed \/ name[i] \in Allowed
                          /\ \A label \in Required[name[i]] : label \in Granted
    /\ caller[i] = "timed_out" <=> i \in aborted
    /\ i \in aborted => i \in overdue
    /\ i \in overdue => HasTimeout /\ job[i] # "none"
    /\ job[i] \in {"queued", "running"} => caller[i] \in {"waiting", "looked", "gone", "timed_out"}
    /\ job[i] = "cancelled" => caller[i] = "timed_out"

\* A skill that has finished when its caller is polled is never reported as timed
\* out, though its time may have run out as well: the caller gets what the skill
\* ended with (timeout looks at the handle first), unless skills that never await
\* keep holding every worker.
FinishedIsReturned ==
  \A i \in Invocations :
    caller[i] = "waiting" /\ job[i] \in Outcomes
      ~> caller[i] \in Outcomes \cup {"gone"} \/ Saturated

\* Under a timeout every caller that stays gets an answer, though the skill may
\* hang for ever (execute_skill: tokio::time::timeout), with the same exception.
CallersAnswered ==
  HasTimeout =>
    \A i \in Invocations :
      caller[i] \in {"waiting", "looked"}
        ~> caller[i] \in Answers \cup {"gone"} \/ Saturated

\* A skill whose call timed out stops running, if it ever awaits anything, and is
\* never started if it still waited for a worker ("don't leave the runaway skill
\* running"), with the same exception.
TimedOutStops ==
  \A i \in Invocations :
    caller[i] = "timed_out" /\ (name[i] \in Cooperative \/ job[i] = "queued")
      ~> job[i] \notin {"queued", "running"} \/ Saturated

\* with_timeout is documented to "cap how long a single skill execution may run":
\* past its time, a skill that awaits something stops.
CapHolds ==
  \A i \in Invocations :
    i \in overdue /\ name[i] \in Cooperative ~> job[i] \notin {"queued", "running"} \/ Saturated
=============================================================================
