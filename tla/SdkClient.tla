----------------------------- MODULE SdkClient ------------------------------
(***************************************************************************)
(* TryItClient of packages/sdk-node/src/client.ts: callers that create a   *)
(* try-on and wait for one by polling, each with an API key of its own.    *)
(* Requests and replies travel as long as they like or are lost, timers    *)
(* fire late, keys expire and jobs advance meanwhile.                      *)
(***************************************************************************)
EXTENDS KeyAccess

CONSTANTS Callers,
          JobIds,
          PollChoices,    \* pollMs a caller may pass
          TimeoutChoices, \* timeoutMs a caller may pass
          Horizon,        \* bound: the clock
          MaxPolls        \* bound of the type: polls of one wait

ASSUME ClientAssumption ==
  /\ PollChoices \subseteq Nat /\ TimeoutChoices \subseteq Nat
  /\ Horizon \in Nat /\ MaxPolls \in Nat

VARIABLES
  now,  \* the clock, the same for callers and service
  jobs, \* [JobIds -> the job the service stores, or an absent one]
  key,  \* [Callers -> the secret the client was constructed with]
  call  \* [Callers -> the call under way]

vars == <<now, jobs, key, call>>

Terminal == {"succeeded", "failed"}
Statuses == {"queued", "processing"} \cup Terminal
Absent == [tenant |-> "none", status |-> "absent"]

Waiting == {"getting", "answered", "sleeping"}
NoReply == [http |-> 0, body |-> "none"]
Idle == [step |-> "idle", id |-> "none", poll |-> 0, timeout |-> 0, start |-> 0,
         wake |-> 0, polls |-> 0, reply |-> NoReply, outcome |-> "none"]

Init ==
  /\ now = 0
  /\ jobs \in [JobIds -> {Absent} \cup [tenant : Tenants, status : {"queued"}]]
  /\ key \in [Callers -> Secrets \cup {Blank}]
  /\ call = [c \in Callers |-> Idle]

-----------------------------------------------------------------------------
Becomes(c, next) == call' = [call EXCEPT ![c] = next]

End(c, outcome) ==
  Becomes(c, [call[c] EXCEPT !.step = "over", !.reply = NoReply, !.outcome = outcome])

Answered(c, step, reply) == Becomes(c, [call[c] EXCEPT !.step = step, !.reply = reply])

\* The contract is checked before anything is sent.
CreateTryOn(c) ==
  /\ call[c].step = "idle"
  /\ \/ Becomes(c, [call[c] EXCEPT !.step = "posting"])
     \/ End(c, "INVALID_INPUT")
  /\ UNCHANGED <<now, jobs, key>>

\* The service refuses, or stores a job at whatever stage it is by now.
ServeCreate(c) ==
  /\ call[c].step = "posting"
  /\ \/ \E t \in Tenants, id \in JobIds, status \in Statuses :
          /\ jobs[id] = Absent
          /\ CanReadJob(key[c], [tenant |-> t], now)
          /\ jobs' = [jobs EXCEPT ![id] = [tenant |-> t, status |-> status]]
          /\ Answered(c, "posted", [http |-> 201, body |-> status])
     \/ /\ \E code \in {"UNAUTHORIZED", "RATE_LIMITED"} :
             Answered(c, "posted", ErrorReply(code))
        /\ UNCHANGED jobs
  /\ UNCHANGED <<now, key>>

\* parseJobResponse of the reply to a create.
CreateReturns(c) ==
  /\ call[c].step = "posted"
  /\ IF Success(call[c].reply) THEN Becomes(c, Idle) ELSE End(c, CodeOf(call[c].reply))
  /\ UNCHANGED <<now, jobs, key>>

ValidOptions(poll) == poll > 0

\* waitForJob: the options and the id are checked, then the first poll is sent.
WaitForJob(c) ==
  /\ call[c].step = "idle"
  /\ \E id \in JobIds, poll \in PollChoices, timeout \in TimeoutChoices :
       /\ now + timeout <= Horizon
       /\ IF ValidOptions(poll)
          THEN Becomes(c, [call[c] EXCEPT !.step = "getting", !.id = id, !.poll = poll,
                                          !.timeout = timeout, !.start = now, !.polls = 1])
          ELSE End(c, "INVALID_INPUT")
  /\ UNCHANGED <<now, jobs, key>>

ServeRead(c) ==
  /\ call[c].step = "getting"
  /\ Answered(c, "answered", ReadReply(key[c], jobs[call[c].id], now))
  /\ UNCHANGED <<now, jobs, key>>

\* A request or its reply is lost, or the reply cannot be read.
TransportFails(c) ==
  /\ call[c].step \in {"posting", "posted", "getting", "answered"}
  /\ End(c, "PROVIDER_ERROR")
  /\ UNCHANGED <<now, jobs, key>>

\* Mutants: the deadline moves with every poll; a poll is always allowed.
TimeIsUpMoving(c) == call[c].poll > call[c].timeout
TimeIsUpNever(c) == FALSE

\* The next poll would be sent after the deadline.
TimeIsUp(c) == now + call[c].poll > call[c].start + call[c].timeout

\* One turn of waitForJob's loop, on the reply to its poll.
PollReturns(c) ==
  LET reply == call[c].reply IN
  /\ call[c].step = "answered"
  /\ IF ~Success(reply) THEN End(c, CodeOf(reply))
     ELSE IF reply.body \in Terminal THEN End(c, reply.body)
     ELSE IF TimeIsUp(c) THEN End(c, "PROVIDER_ERROR")
     ELSE Becomes(c, [call[c] EXCEPT !.step = "sleeping", !.wake = now + call[c].poll,
                                         !.reply = NoReply])
  /\ UNCHANGED <<now, jobs, key>>

Wake(c) ==
  /\ call[c].step = "sleeping"
  /\ now >= call[c].wake
  /\ call[c].polls < MaxPolls
  /\ Becomes(c, [call[c] EXCEPT !.step = "getting", !.polls = @ + 1])
  /\ UNCHANGED <<now, jobs, key>>

\* A job that has ended does not change again.
JobAdvances ==
  /\ \E id \in JobIds :
       /\ jobs[id].status \in {"queued", "processing"}
       /\ \E status \in Statuses \ {"queued"} : jobs' = [jobs EXCEPT ![id] = [@ EXCEPT !.status = status]]
  /\ UNCHANGED <<now, key, call>>

Tick ==
  /\ now < Horizon
  /\ now' = now + 1
  /\ UNCHANGED <<jobs, key, call>>

-----------------------------------------------------------------------------
Progress(c) == ServeRead(c) \/ PollReturns(c) \/ TransportFails(c) \/ Wake(c)

Next ==
  \/ \E c \in Callers :
       \/ CreateTryOn(c) \/ ServeCreate(c) \/ CreateReturns(c)
       \/ WaitForJob(c) \/ Progress(c)
  \/ JobAdvances
  \/ Tick

\* A read is answered or lost, a timer fires and time passes; jobs may hang.
Spec == Init /\ [][Next]_vars
FairSpec == Spec /\ WF_vars(Tick) /\ \A c \in Callers : WF_vars(Progress(c))

-----------------------------------------------------------------------------
Call ==
  [step : Waiting \cup {"idle", "posting", "posted", "over"}, id : JobIds \cup {"none"},
   poll : Nat, timeout : Nat, start : Nat, wake : Nat, polls : Nat,
   reply : [http : Nat, body : ErrorCode \cup Statuses \cup {"none", "not_found"}],
   outcome : ErrorCode \cup Terminal \cup {"none"}]

TypeOK ==
  /\ now \in 0..Horizon
  /\ jobs \in [JobIds -> {Absent} \cup [tenant : Tenants, status : Statuses]]
  /\ key \in [Callers -> Secrets \cup {Blank}]
  /\ call \in [Callers -> Call]

(* GET's anti-enumeration (route.ts:6-9): a caller not entitled to a job   *)
(* gets, at every moment of its key's life, the reply it would get if the  *)
(* job did not exist, and an entitled one gets the job.                    *)
AbsentAndForeignLookAlike ==
  \A c \in Callers, id \in JobIds :
    ReadReply(key[c], jobs[id], now) =
      IF jobs[id] # Absent /\ Entitled(key[c], jobs[id], now)
      THEN [http |-> 200, body |-> jobs[id].status] ELSE ReadReply(key[c], Absent, now)

(* waitForJob returns only a job that has ended, as it ended, and only to  *)
(* a key minted for the job's tenant.                                      *)
ReturnedJobsAreOwn ==
  \A c \in Callers :
    call[c].outcome \in Terminal =>
      /\ jobs[call[c].id].status = call[c].outcome
      /\ \E t \in Tenants : \E record \in Filed[t] :
           record.secret = key[c] /\ record.tenant = jobs[call[c].id].tenant

(* client.ts:176-197: however late timers fire and answers come, one wait  *)
(* sends no more polls than fit between its start and its deadline.        *)
PollsFitTheTimeout ==
  \A c \in Callers :
    call[c].step \in Waiting => call[c].polls <= call[c].timeout \div call[c].poll + 1

(* A wait ends although the job may never do so.                           *)
WaitEnds ==
  \A c \in Callers : call[c].step \in Waiting ~> call[c].step = "over"
=============================================================================
