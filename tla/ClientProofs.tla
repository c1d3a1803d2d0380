---------------------------- MODULE ClientProofs ----------------------------
(***************************************************************************)
(* Theorems about the two clients that ask a service again and again.      *)
(* SdkClient: what the read route tells whom, what a wait returns, and how *)
(* many polls one wait sends.  CatalogListing: that a listing yields the   *)
(* valid products, and what its connector reports of the others.           *)
(***************************************************************************)
EXTENDS SdkClient, CatalogListing, Integers, FoldLemmas, TLAPS

Job == {Absent} \cup [tenant : Tenants, status : Statuses]

-----------------------------------------------------------------------------
(* The keys *)

\* A key that verifies has the record's secret and the tenant asked for.
LEMMA VerifiedIsOwn ==
  ASSUME NEW secret, NEW record, NEW tenant, NEW at,
         VerifyApiKey(secret, record, tenant, at) = "ok"
  PROVE  record.secret = secret /\ record.tenant = tenant
BY DEF VerifyApiKey

\* The route lets a key read a job exactly if the key is entitled to it.
LEMMA ReadersAreEntitled ==
  ASSUME NEW secret \in Secrets \cup {Blank}, NEW job, NEW at \in Nat
  PROVE  CanReadJob(secret, job, at) <=> Entitled(secret, job, at)
<1>1. ASSUME NEW t \in Tenants, NEW record \in Filed[t], t = job.tenant
      PROVE  secret # Blank /\ VerifyApiKey(secret, record, job.tenant, at) = "ok" <=>
               /\ record.secret = secret /\ record.tenant = job.tenant /\ t = job.tenant
               /\ TryOnScope \in record.scopes
               /\ record.expires = Never \/ (record.expires \in Nat /\ at < record.expires)
  <2>1. /\ record.secret \in Secrets
        /\ record.expires \in Nat \cup {Never, Garbled}
    BY KeyAssumption DEF KeyRecord
  <2>2. ~Expired(record, at) <=>
          record.expires = Never \/ (record.expires \in Nat /\ at < record.expires)
    BY <2>1, KeyAssumption DEF Expired
  <2>3. VerifyApiKey(secret, record, job.tenant, at) = "ok" <=>
          /\ secret # Blank /\ secret = record.secret /\ record.tenant = job.tenant
          /\ ~Expired(record, at) /\ TryOnScope \in record.scopes
    BY DEF VerifyApiKey
  <2> QED
    BY <1>1, <2>1, <2>2, <2>3, KeyAssumption
<1>2. CASE job.tenant \in Tenants
  <2>1. ApiKeyRecords(job.tenant) = Filed[job.tenant]
    BY <1>2 DEF ApiKeyRecords
  <2> QED
    BY <1>1, <1>2, <2>1 DEF CanReadJob, Entitled
<1>3. CASE job.tenant \notin Tenants
  BY <1>3 DEF CanReadJob, Entitled, ApiKeyRecords
<1> QED
  BY <1>2, <1>3

LEMMA StatusesAreKnown == "absent" \notin Statuses /\ Terminal \subseteq Statuses
BY DEF Statuses, Terminal

LEMMA FailuresAreNoSuccess ==
  /\ \A code \in ErrorCode : ~Success(ErrorReply(code))
  /\ ~Success(NotFound) /\ ~Success(NoReply)
BY DEF ErrorCode, HttpStatus, Success, ErrorReply, NotFound, NoReply

\* What a reply to a read holds, and what a success among them tells.
LEMMA Reads ==
  ASSUME NEW secret \in Secrets \cup {Blank}, NEW job \in Job, NEW at \in Nat
  PROVE  /\ ReadReply(secret, job, at) \in
              [http : Nat, body : ErrorCode \cup Statuses \cup {"none", "not_found"}]
         /\ Success(ReadReply(secret, job, at)) =>
              /\ ReadReply(secret, job, at).body = job.status
              /\ job # Absent /\ CanReadJob(secret, job, at)
<1>1. CASE secret = Blank
  <2>1. ReadReply(secret, job, at) = ErrorReply("UNAUTHORIZED")
    BY <1>1 DEF ReadReply
  <2>2. "UNAUTHORIZED" \in ErrorCode /\ ErrorReply("UNAUTHORIZED").body = "UNAUTHORIZED"
    BY DEF ErrorCode, HttpStatus, ErrorReply
  <2>3. ErrorReply("UNAUTHORIZED") \in
          [http : Nat, body : ErrorCode \cup Statuses \cup {"none", "not_found"}]
    BY DEF ErrorCode, HttpStatus, ErrorReply
  <2> QED
    BY <2>1, <2>2, <2>3, FailuresAreNoSuccess
<1>2. CASE secret # Blank /\ (job.status = "absent" \/ ~CanReadJob(secret, job, at))
  <2>1. ReadReply(secret, job, at) = NotFound
    BY <1>2 DEF ReadReply
  <2> QED
    BY <2>1, FailuresAreNoSuccess DEF NotFound
<1>3. CASE secret # Blank /\ job.status # "absent" /\ CanReadJob(secret, job, at)
  <2>1. ReadReply(secret, job, at) = [http |-> 200, body |-> job.status]
    BY <1>3 DEF ReadReply
  <2>2. job # Absent /\ job.status \in Statuses
    BY <1>3 DEF Absent, Job
  <2> QED
    BY <1>3, <2>1, <2>2
<1> QED
  BY <1>1, <1>2, <1>3

-----------------------------------------------------------------------------
(* The inductive invariant *)

\* The caller's key was minted for the tenant of the job it waits for.
OwnKey(c) ==
  \E t \in Tenants : \E record \in Filed[t] :
    record.secret = key[c] /\ record.tenant = jobs[call[c].id].tenant

\* A wait has sent its polls one interval apart, within its deadline.
PaceInv ==
  \A c \in Callers : call[c].step \in Waiting =>
    LET spent == (call[c].polls - 1) * call[c].poll IN
    /\ call[c].id \in JobIds /\ call[c].poll > 0 /\ call[c].polls > 0
    /\ spent <= call[c].timeout /\ call[c].start + spent <= now
    /\ call[c].step = "sleeping" =>
         /\ spent + call[c].poll <= call[c].timeout
         /\ call[c].start + spent + call[c].poll <= call[c].wake

\* A success is about a job of the caller's tenant, and if it tells of an end
\* the job has ended so; so does what the caller is told in the end.
ToldInv ==
  \A c \in Callers :
    /\ call[c].step = "answered" /\ Success(call[c].reply) =>
         /\ jobs[call[c].id] # Absent /\ OwnKey(c)
         /\ call[c].reply.body \in Terminal => jobs[call[c].id].status = call[c].reply.body
    /\ call[c].outcome \in Terminal =>
         /\ call[c].step = "over" /\ call[c].id \in JobIds
         /\ jobs[call[c].id] # Absent /\ OwnKey(c)
         /\ jobs[call[c].id].status = call[c].outcome

IInv == TypeOK /\ PaceInv /\ ToldInv

\* One caller moves to next while the jobs stay.
LEMMA CallKeeps ==
  ASSUME IInv, NEW c \in Callers, NEW next \in Call,
         Becomes(c, next), UNCHANGED <<now, jobs, key>>,
         next.step \in Waiting =>
           LET spent == (next.polls - 1) * next.poll IN
           /\ next.id \in JobIds /\ next.poll > 0 /\ next.polls > 0
           /\ spent <= next.timeout /\ next.start + spent <= now
           /\ next.step = "sleeping" =>
                /\ spent + next.poll <= next.timeout
                /\ next.start + spent + next.poll <= next.wake,
         next.step = "answered" /\ Success(next.reply) =>
           /\ jobs[next.id] # Absent
           /\ \E t \in Tenants : \E record \in Filed[t] :
                record.secret = key[c] /\ record.tenant = jobs[next.id].tenant
           /\ next.reply.body \in Terminal => jobs[next.id].status = next.reply.body,
         next.outcome \in Terminal =>
           /\ next.step = "over" /\ next.id \in JobIds /\ jobs[next.id] # Absent
           /\ \E t \in Tenants : \E record \in Filed[t] :
                record.secret = key[c] /\ record.tenant = jobs[next.id].tenant
           /\ jobs[next.id].status = next.outcome
  PROVE  IInv'
<1>1. /\ call'[c] = next /\ call' \in [Callers -> Call]
      /\ \A d \in Callers \ {c} : call'[d] = call[d]
  BY DEF Becomes, IInv, TypeOK
<1>2. TypeOK'
  BY <1>1 DEF IInv, TypeOK
<1>3. PaceInv'
  <2>1. PaceInv
    BY DEF IInv
  <2> QED
    BY <1>1, <2>1 DEF PaceInv
<1>4. ToldInv'
  <2>1. ToldInv
    BY DEF IInv
  <2> QED
    BY <1>1, <2>1 DEF ToldInv, OwnKey
<1> QED
  BY <1>2, <1>3, <1>4 DEF IInv

\* Jobs appear and advance, and time passes, while no call moves.
LEMMA JobsKeep ==
  ASSUME IInv, now' \in now..Horizon, UNCHANGED <<key, call>>,
         jobs' \in [JobIds -> Job],
         \A id \in JobIds : jobs[id] # Absent =>
           /\ jobs'[id] # Absent /\ jobs'[id].tenant = jobs[id].tenant
           /\ jobs[id].status \in Terminal => jobs'[id] = jobs[id]
  PROVE  IInv'
<1>1. TypeOK'
  BY DEF IInv, TypeOK, Job
<1>2. PaceInv'
  <2>1. SUFFICES ASSUME NEW c \in Callers, call[c].step \in Waiting
                 PROVE  call[c].start + (call[c].polls - 1) * call[c].poll <= now'
    BY DEF IInv, PaceInv
  <2> DEFINE spent == (call[c].polls - 1) * call[c].poll
  <2>2. call[c].start + spent <= now
    BY <2>1 DEF IInv, PaceInv
  <2>3. call[c].start \in Nat /\ spent \in Int /\ now \in Int /\ now' \in Int /\ now <= now'
    BY DEF IInv, TypeOK, Call
  <2> HIDE DEF spent
  <2> QED
    BY <2>2, <2>3 DEF spent
<1>3. ToldInv'
  <2>1. SUFFICES ASSUME NEW c \in Callers
        PROVE /\ call[c].step = "answered" /\ Success(call[c].reply) =>
                   /\ jobs'[call[c].id] # Absent /\ OwnKey(c)'
                   /\ call[c].reply.body \in Terminal => jobs'[call[c].id].status = call[c].reply.body
              /\ call[c].outcome \in Terminal =>
                   /\ call[c].step = "over" /\ call[c].id \in JobIds
                   /\ jobs'[call[c].id] # Absent /\ OwnKey(c)'
                   /\ jobs'[call[c].id].status = call[c].outcome
    BY DEF ToldInv
  <2>2. call[c].step = "answered" => call[c].id \in JobIds
    BY DEF IInv, PaceInv, Waiting
  <2>3. call[c].id \in JobIds /\ jobs[call[c].id] # Absent /\ OwnKey(c) =>
          jobs'[call[c].id] # Absent /\ OwnKey(c)'
    BY DEF OwnKey
  <2>4. \A id \in JobIds, status \in Terminal :
          jobs[id] # Absent /\ jobs[id].status = status => jobs'[id].status = status
    OBVIOUS
  <2> QED
    BY <2>2, <2>3, <2>4 DEF IInv, ToldInv
<1> QED
  BY <1>1, <1>2, <1>3 DEF IInv

LEMMA InitOK == Init => IInv
<1> SUFFICES ASSUME Init PROVE IInv
  OBVIOUS
<1>1. Idle \in Call
  BY DEF Idle, Call, NoReply
<1>2. Idle.step = "idle" /\ Idle.outcome = "none"
  BY DEF Idle
<1>3. TypeOK
  BY <1>1, ClientAssumption DEF Init, TypeOK, Statuses
<1>4. PaceInv
  BY <1>2 DEF Init, PaceInv, Waiting
<1>5. ToldInv
  BY <1>2 DEF Init, ToldInv, Terminal
<1> QED
  BY <1>3, <1>4, <1>5 DEF IInv

LEMMA EndKeeps ==
  ASSUME IInv, NEW c \in Callers, NEW outcome \in ErrorCode \cup Terminal,
         End(c, outcome), UNCHANGED <<now, jobs, key>>,
         outcome \in Terminal =>
           /\ call[c].id \in JobIds /\ jobs[call[c].id] # Absent /\ OwnKey(c)
           /\ jobs[call[c].id].status = outcome
  PROVE  IInv'
<1> DEFINE next == [call[c] EXCEPT !.step = "over", !.reply = NoReply, !.outcome = outcome]
<1>1. call[c] \in Call /\ NoReply \in [http : Nat, body : ErrorCode \cup Statuses \cup {"none", "not_found"}]
  BY DEF IInv, TypeOK, NoReply
<1>2. /\ next \in Call /\ next.step = "over" /\ next.outcome = outcome
      /\ next.id = call[c].id
  BY <1>1 DEF Call
<1>3. Becomes(c, next)
  BY DEF End
<1> HIDE DEF next
<1> QED
  BY <1>2, <1>3, CallKeeps DEF OwnKey, Waiting

LEMMA ErrorsAreNotEnds ==
  /\ ErrorCode \cap Terminal = {} /\ "none" \notin Terminal
  /\ {"INVALID_INPUT", "PROVIDER_ERROR", "UNAUTHORIZED", "RATE_LIMITED"} \subseteq ErrorCode
  /\ \A reply : CodeOf(reply) \in ErrorCode
<1>1. /\ ErrorCode \cap Terminal = {} /\ "none" \notin Terminal
      /\ {"INVALID_INPUT", "PROVIDER_ERROR", "UNAUTHORIZED", "RATE_LIMITED"} \subseteq ErrorCode
  BY DEF ErrorCode, HttpStatus, Terminal
<1>2. \A reply : CodeOf(reply) \in ErrorCode
  BY <1>1 DEF CodeOf
<1> QED
  BY <1>1, <1>2

LEMMA ErrorEndKeeps ==
  ASSUME IInv, NEW c \in Callers, NEW code \in ErrorCode,
         End(c, code), UNCHANGED <<now, jobs, key>>
  PROVE  IInv'
<1>1. code \in ErrorCode \cup Terminal /\ code \notin Terminal
  BY ErrorsAreNotEnds
<1> QED
  BY <1>1, EndKeeps

\* A call that is neither waiting nor over has no outcome.
LEMMA NoOutcomeYet ==
  ASSUME IInv, NEW c \in Callers, call[c].step # "over"
  PROVE  call[c] \in Call /\ call[c].outcome \notin Terminal
BY DEF IInv, TypeOK, ToldInv

LEMMA CreateTryOnKeeps == ASSUME IInv, NEW c \in Callers, CreateTryOn(c) PROVE IInv'
<1>1. UNCHANGED <<now, jobs, key>> /\ call[c].step = "idle"
  BY DEF CreateTryOn
<1>2. CASE End(c, "INVALID_INPUT")
  BY <1>1, <1>2, ErrorEndKeeps, ErrorsAreNotEnds
<1>3. CASE Becomes(c, [call[c] EXCEPT !.step = "posting"])
  <2> DEFINE next == [call[c] EXCEPT !.step = "posting"]
  <2>1. next \in Call /\ next.step = "posting" /\ next.outcome \notin Terminal
    BY <1>1, NoOutcomeYet DEF Call
  <2>2. Becomes(c, next)
    BY <1>3
  <2> HIDE DEF next
  <2> QED
    BY <1>1, <2>1, <2>2, CallKeeps DEF Waiting
<1> QED
  BY <1>2, <1>3 DEF CreateTryOn

\* A reply that is not to a read is nothing the invariant is about.
LEMMA PostedKeeps ==
  ASSUME IInv, NEW c \in Callers, call[c].step = "posting",
         NEW reply \in [http : Nat, body : ErrorCode \cup Statuses \cup {"none", "not_found"}],
         Answered(c, "posted", reply), UNCHANGED <<now, key>>,
         jobs' \in [JobIds -> Job],
         \A id \in JobIds : jobs[id] # Absent => jobs'[id] = jobs[id]
  PROVE  IInv'
<1> DEFINE next == [call[c] EXCEPT !.step = "posted", !.reply = reply]
<1>0. call[c] \in Call /\ call[c].outcome \notin Terminal
  BY NoOutcomeYet
<1>1. next \in Call /\ next.step = "posted" /\ next.outcome \notin Terminal
  BY <1>0 DEF Call
<1>2. call' = [call EXCEPT ![c] = next]
  BY DEF Answered, Becomes
<1> HIDE DEF next
<1>3. /\ call'[c] = next /\ call' \in [Callers -> Call]
      /\ \A d \in Callers \ {c} : call'[d] = call[d]
  BY <1>1, <1>2 DEF IInv, TypeOK
<1>4. TypeOK'
  BY <1>3 DEF IInv, TypeOK, Job
<1>5. PaceInv'
  <2>1. PaceInv
    BY DEF IInv
  <2> QED
    BY <1>1, <1>3, <2>1 DEF PaceInv, Waiting
<1>6. ToldInv'
  <2>1. ASSUME NEW d \in Callers \ {c}, call[d].id \in JobIds, jobs[call[d].id] # Absent
        PROVE  jobs'[call[d].id] = jobs[call[d].id] /\ (OwnKey(d) => OwnKey(d)')
    BY <1>3, <2>1 DEF OwnKey
  <2>2. \A d \in Callers \ {c} : call[d].step = "answered" => call[d].id \in JobIds
    BY DEF IInv, PaceInv, Waiting
  <2> QED
    BY <1>1, <1>3, <2>1, <2>2 DEF IInv, ToldInv
<1> QED
  BY <1>4, <1>5, <1>6 DEF IInv

LEMMA ServeCreateKeeps == ASSUME IInv, NEW c \in Callers, ServeCreate(c) PROVE IInv'
<1> DEFINE Reply == [http : Nat, body : ErrorCode \cup Statuses \cup {"none", "not_found"}]
<1>1. UNCHANGED <<now, key>> /\ call[c].step = "posting"
  BY DEF ServeCreate
<1>2. jobs \in [JobIds -> Job]
  BY DEF IInv, TypeOK, Job
<1>3. ASSUME NEW t \in Tenants, NEW id \in JobIds, NEW status \in Statuses,
             jobs[id] = Absent,
             jobs' = [jobs EXCEPT ![id] = [tenant |-> t, status |-> status]],
             Answered(c, "posted", [http |-> 201, body |-> status])
      PROVE  IInv'
  <2>1. [http |-> 201, body |-> status] \in Reply
    OBVIOUS
  <2>2. jobs' \in [JobIds -> Job] /\ \A i \in JobIds : jobs[i] # Absent => jobs'[i] = jobs[i]
    BY <1>2, <1>3 DEF Job
  <2> QED
    BY <1>1, <1>3, <2>1, <2>2, PostedKeeps
<1>4. ASSUME NEW code \in {"UNAUTHORIZED", "RATE_LIMITED"},
             Answered(c, "posted", ErrorReply(code)), UNCHANGED jobs
      PROVE  IInv'
  <2>1. code \in ErrorCode /\ HttpStatus[code] \in Nat
    BY DEF ErrorCode, HttpStatus
  <2>2. ErrorReply(code) \in Reply
    BY <2>1 DEF ErrorReply
  <2> QED
    BY <1>1, <1>2, <1>4, <2>2, PostedKeeps
<1> QED
  BY <1>3, <1>4 DEF ServeCreate

LEMMA CreateReturnsKeeps == ASSUME IInv, NEW c \in Callers, CreateReturns(c) PROVE IInv'
<1>1. UNCHANGED <<now, jobs, key>>
  BY DEF CreateReturns
<1>2. CASE Becomes(c, Idle)
  <2>1. Idle \in Call /\ Idle.step = "idle" /\ Idle.outcome \notin Terminal
    BY DEF Idle, Call, NoReply, Terminal
  <2> QED
    BY <1>1, <1>2, <2>1, CallKeeps DEF Waiting
<1>3. CASE End(c, CodeOf(call[c].reply))
  BY <1>1, <1>3, ErrorEndKeeps, ErrorsAreNotEnds
<1> QED
  BY <1>2, <1>3 DEF CreateReturns

LEMMA WaitForJobKeeps == ASSUME IInv, NEW c \in Callers, WaitForJob(c) PROVE IInv'
<1>1. UNCHANGED <<now, jobs, key>> /\ call[c].step = "idle"
  BY DEF WaitForJob
<1>2. PICK id \in JobIds, poll \in PollChoices, timeout \in TimeoutChoices :
        IF ValidOptions(poll)
        THEN Becomes(c, [call[c] EXCEPT !.step = "getting", !.id = id, !.poll = poll,
                                        !.timeout = timeout, !.start = now, !.polls = 1])
        ELSE End(c, "INVALID_INPUT")
  BY DEF WaitForJob
<1>3. CASE ~ValidOptions(poll)
  BY <1>1, <1>2, <1>3, ErrorEndKeeps, ErrorsAreNotEnds
<1>4. CASE ValidOptions(poll)
  <2> DEFINE next == [call[c] EXCEPT !.step = "getting", !.id = id, !.poll = poll,
                                     !.timeout = timeout, !.start = now, !.polls = 1]
  <2>1. poll \in Nat /\ timeout \in Nat /\ now \in Nat /\ poll > 0
    BY <1>4, ClientAssumption DEF ValidOptions, IInv, TypeOK
  <2>2. /\ next \in Call /\ next.step = "getting" /\ next.outcome \notin Terminal
        /\ next.id = id /\ next.poll = poll /\ next.polls = 1
        /\ next.timeout = timeout /\ next.start = now
    BY <1>1, <2>1, NoOutcomeYet DEF Call, Waiting
  <2>3. Becomes(c, next)
    BY <1>2, <1>4
  <2> HIDE DEF next
  <2>4. (next.polls - 1) * next.poll = 0
    BY <2>1, <2>2
  <2> QED
    BY <1>1, <2>1, <2>2, <2>3, <2>4, CallKeeps
<1> QED
  BY <1>3, <1>4

LEMMA ServeReadKeeps == ASSUME IInv, NEW c \in Callers, ServeRead(c) PROVE IInv'
<1>1. UNCHANGED <<now, jobs, key>> /\ call[c].step = "getting"
  BY DEF ServeRead
<1> DEFINE job == jobs[call[c].id]
           reply == ReadReply(key[c], job, now)
           next == [call[c] EXCEPT !.step = "answered", !.reply = reply]
<1>2. PaceInv /\ call[c] \in Call /\ call[c].id \in JobIds
  BY <1>1 DEF IInv, TypeOK, PaceInv, Waiting
<1>3. key[c] \in Secrets \cup {Blank} /\ job \in Job /\ now \in Nat
  BY <1>2 DEF IInv, TypeOK, Job
<1>4. /\ reply \in [http : Nat, body : ErrorCode \cup Statuses \cup {"none", "not_found"}]
      /\ Success(reply) =>
           reply.body = job.status /\ job # Absent /\ CanReadJob(key[c], job, now)
  BY <1>3, Reads
<1>5. CanReadJob(key[c], job, now) =>
        \E t \in Tenants : \E record \in Filed[t] :
          record.secret = key[c] /\ record.tenant = job.tenant
  BY <1>3, ReadersAreEntitled DEF Entitled
<1>6. Becomes(c, next)
  BY DEF ServeRead, Answered
<1> HIDE DEF reply
<1>7. /\ next \in Call /\ next.step = "answered" /\ next.reply = reply
      /\ next.id = call[c].id /\ next.outcome = call[c].outcome
      /\ next.poll = call[c].poll /\ next.polls = call[c].polls
      /\ next.timeout = call[c].timeout /\ next.start = call[c].start
  BY <1>2, <1>4 DEF Call, Waiting
<1>8. next.outcome \notin Terminal
  BY <1>1, <1>7, NoOutcomeYet
<1> HIDE DEF next
<1>9. /\ next.poll > 0 /\ next.polls > 0
      /\ (next.polls - 1) * next.poll <= next.timeout
      /\ next.start + (next.polls - 1) * next.poll <= now
  BY <1>1, <1>2, <1>7 DEF PaceInv, Waiting
<1> QED
  BY <1>1, <1>2, <1>4, <1>5, <1>6, <1>7, <1>8, <1>9, CallKeeps

\* A turn of the loop that neither ends nor sends: the timer is set.
LEMMA SleepKeeps ==
  ASSUME IInv, NEW c \in Callers, call[c].step = "answered", ~TimeIsUp(c),
         Becomes(c, [call[c] EXCEPT !.step = "sleeping", !.wake = now + call[c].poll,
                                    !.reply = NoReply]),
         UNCHANGED <<now, jobs, key>>
  PROVE  IInv'
<1> DEFINE next == [call[c] EXCEPT !.step = "sleeping", !.wake = now + call[c].poll,
                                   !.reply = NoReply]
           spent == (call[c].polls - 1) * call[c].poll
<1>1. call[c] \in Call /\ call[c].outcome \notin Terminal /\ now \in Nat
  BY NoOutcomeYet DEF IInv, TypeOK
<1>2. /\ call[c].id \in JobIds /\ call[c].poll > 0 /\ call[c].polls > 0
      /\ spent <= call[c].timeout /\ call[c].start + spent <= now
  BY DEF IInv, PaceInv, Waiting
<1>3. /\ call[c].poll \in Nat /\ call[c].polls \in Nat /\ call[c].timeout \in Nat
      /\ call[c].start \in Nat
  BY <1>1 DEF Call
<1>4. spent \in Int
  BY <1>3
<1>5. NoReply \in [http : Nat, body : ErrorCode \cup Statuses \cup {"none", "not_found"}]
  BY DEF NoReply
<1>6. next \in Call
  <2>1. now + call[c].poll \in Nat
    BY <1>1, <1>3
  <2>2. "sleeping" \in Waiting
    BY DEF Waiting
  <2> QED
    BY <1>1, <1>5, <2>1, <2>2 DEF Call
<1>10. /\ next.step = "sleeping" /\ next.wake = now + call[c].poll
       /\ next.id = call[c].id /\ next.outcome = call[c].outcome
       /\ next.poll = call[c].poll /\ next.polls = call[c].polls
       /\ next.timeout = call[c].timeout /\ next.start = call[c].start
  BY <1>1 DEF Call
<1> HIDE DEF spent, next
<1>7. /\ spent + call[c].poll <= call[c].timeout
      /\ call[c].start + spent + call[c].poll <= now + call[c].poll
  BY <1>1, <1>2, <1>3, <1>4 DEF TimeIsUp
<1>8. (next.polls - 1) * next.poll = spent
  BY <1>10 DEF spent
<1>9. Becomes(c, next)
  BY DEF next
<1> QED
  BY <1>1, <1>2, <1>6, <1>7, <1>8, <1>9, <1>10, CallKeeps

LEMMA PollReturnsKeeps == ASSUME IInv, NEW c \in Callers, PollReturns(c) PROVE IInv'
<1>1. UNCHANGED <<now, jobs, key>> /\ call[c].step = "answered"
  BY DEF PollReturns
<1> DEFINE reply == call[c].reply
<1>2. CASE End(c, CodeOf(reply)) \/ End(c, "PROVIDER_ERROR")
  BY <1>1, <1>2, ErrorEndKeeps, ErrorsAreNotEnds
<1>3. CASE Success(reply) /\ reply.body \in Terminal /\ End(c, reply.body)
  <2>1. call[c].id \in JobIds
    BY <1>1 DEF IInv, PaceInv, Waiting
  <2>2. /\ jobs[call[c].id] # Absent /\ OwnKey(c)
        /\ jobs[call[c].id].status = reply.body
    BY <1>1, <1>3 DEF IInv, ToldInv
  <2> QED
    BY <1>1, <1>3, <2>1, <2>2, EndKeeps
<1>4. CASE ~TimeIsUp(c) /\ Becomes(c, [call[c] EXCEPT !.step = "sleeping",
                                         !.wake = now + call[c].poll, !.reply = NoReply])
  BY <1>1, <1>4, SleepKeeps
<1> QED
  BY <1>2, <1>3, <1>4 DEF PollReturns

LEMMA WakeKeeps == ASSUME IInv, NEW c \in Callers, Wake(c) PROVE IInv'
<1> DEFINE next == [call[c] EXCEPT !.step = "getting", !.polls = call[c].polls + 1]
           spent == (call[c].polls - 1) * call[c].poll
<1>1. UNCHANGED <<now, jobs, key>> /\ call[c].step = "sleeping" /\ now >= call[c].wake
  BY DEF Wake
<1>2. call[c] \in Call /\ call[c].outcome \notin Terminal /\ now \in Nat
  BY <1>1, NoOutcomeYet DEF IInv, TypeOK
<1>3. /\ call[c].poll \in Nat /\ call[c].polls \in Nat /\ call[c].timeout \in Nat
      /\ call[c].start \in Nat /\ call[c].wake \in Nat
  BY <1>2 DEF Call
<1>4. /\ call[c].id \in JobIds /\ call[c].poll > 0 /\ call[c].polls > 0
      /\ spent + call[c].poll <= call[c].timeout
      /\ call[c].start + spent + call[c].poll <= call[c].wake
  BY <1>1 DEF IInv, PaceInv, Waiting
<1>5. next \in Call
  <2>1. call[c].polls + 1 \in Nat
    BY <1>3
  <2>2. "getting" \in Waiting
    BY DEF Waiting
  <2> QED
    BY <1>2, <2>1, <2>2 DEF Call
<1>11. /\ next.step = "getting" /\ next.polls = call[c].polls + 1
       /\ next.id = call[c].id /\ next.outcome = call[c].outcome
       /\ next.poll = call[c].poll /\ next.timeout = call[c].timeout
       /\ next.start = call[c].start
  BY <1>2 DEF Call
<1>6. call[c].polls * call[c].poll = spent + call[c].poll
  BY <1>3
<1>7. spent \in Int
  BY <1>3
<1>8. Becomes(c, next)
  BY DEF Wake, Becomes
<1> HIDE DEF spent, next
<1>9. /\ (next.polls - 1) * next.poll <= next.timeout
      /\ next.start + (next.polls - 1) * next.poll <= now
  <2>0. next.polls - 1 = call[c].polls
    BY <1>3, <1>11
  <2>1. (next.polls - 1) * next.poll = spent + call[c].poll
    BY <1>6, <1>11, <2>0
  <2> QED
    BY <1>1, <1>2, <1>3, <1>4, <1>7, <1>11, <2>1
<1>10. next.polls > 0 /\ next.poll > 0
  BY <1>3, <1>4, <1>11
<1> QED
  BY <1>1, <1>2, <1>4, <1>5, <1>8, <1>9, <1>10, <1>11, CallKeeps

LEMMA JobAdvancesKeeps == ASSUME IInv, JobAdvances PROVE IInv'
<1>1. UNCHANGED <<now, key, call>> /\ jobs \in [JobIds -> Job] /\ now \in 0..Horizon
  BY DEF JobAdvances, IInv, TypeOK, Job
<1>2. PICK id \in JobIds, status \in Statuses :
        /\ jobs[id].status \in {"queued", "processing"}
        /\ jobs' = [jobs EXCEPT ![id] = [jobs[id] EXCEPT !.status = status]]
  BY <1>1 DEF JobAdvances
<1>3. jobs[id] \in [tenant : Tenants, status : Statuses]
  BY <1>1, <1>2 DEF Job, Absent
<1>4. /\ jobs'[id] \in [tenant : Tenants, status : Statuses]
      /\ jobs'[id].tenant = jobs[id].tenant /\ jobs'[id].status # "absent"
  BY <1>1, <1>2, <1>3, StatusesAreKnown
<1>5. \A i \in JobIds \ {id} : jobs'[i] = jobs[i]
  BY <1>1, <1>2
<1>6. jobs' \in [JobIds -> Job]
  BY <1>1, <1>2, <1>4 DEF Job
<1>7. jobs[id].status \notin Terminal
  BY <1>2 DEF Terminal
<1>8. jobs'[id] # Absent
  BY <1>4 DEF Absent
<1>9. now' \in now..Horizon
  BY <1>1
<1> QED
  BY <1>1, <1>4, <1>5, <1>6, <1>7, <1>8, <1>9, JobsKeep

LEMMA NextOK == IInv /\ [Next]_vars => IInv'
<1> SUFFICES ASSUME IInv, [Next]_vars PROVE IInv'
  OBVIOUS
<1>t. jobs \in [JobIds -> Job] /\ now \in 0..Horizon
  BY DEF IInv, TypeOK, Job
<1>1. ASSUME NEW c \in Callers, CreateTryOn(c) \/ ServeCreate(c) \/ CreateReturns(c)
      PROVE  IInv'
  BY <1>1, CreateTryOnKeeps, ServeCreateKeeps, CreateReturnsKeeps
<1>2. ASSUME NEW c \in Callers, WaitForJob(c) PROVE IInv'
  BY <1>2, WaitForJobKeeps
<1>3. ASSUME NEW c \in Callers, Progress(c) PROVE IInv'
  <2>1. CASE ServeRead(c)
    BY <2>1, ServeReadKeeps
  <2>2. CASE PollReturns(c)
    BY <2>2, PollReturnsKeeps
  <2>3. CASE TransportFails(c)
    BY <2>3, ErrorEndKeeps, ErrorsAreNotEnds DEF TransportFails
  <2>4. CASE Wake(c)
    BY <2>4, WakeKeeps
  <2> QED
    BY <1>3, <2>1, <2>2, <2>3, <2>4 DEF Progress
<1>4. CASE JobAdvances
  BY <1>4, JobAdvancesKeeps
<1>5. CASE Tick
  <2>1. now' \in now..Horizon /\ UNCHANGED <<jobs, key, call>>
    BY <1>t, <1>5, ClientAssumption DEF Tick
  <2> QED
    BY <1>t, <2>1, JobsKeep
<1>6. CASE UNCHANGED vars
  <2>1. now' \in now..Horizon /\ UNCHANGED <<jobs, key, call>>
    BY <1>t, <1>6, ClientAssumption DEF vars
  <2> QED
    BY <1>t, <2>1, JobsKeep
<1> QED
  BY <1>1, <1>2, <1>3, <1>4, <1>5, <1>6 DEF Next

LEMMA IInvHolds == Spec => []IInv
BY InitOK, NextOK, PTL DEF Spec

-----------------------------------------------------------------------------
(* At every moment a caller not entitled to a job is told what it would be *)
(* told of one that does not exist (GET /v1/tryons/[id], job-access.ts).   *)
THEOREM ForeignJobsLookAbsent == Spec => []AbsentAndForeignLookAlike
<1>1. IInv => AbsentAndForeignLookAlike
  <2> SUFFICES ASSUME IInv, NEW c \in Callers, NEW id \in JobIds
               PROVE  ReadReply(key[c], jobs[id], now) =
                        IF jobs[id] # Absent /\ Entitled(key[c], jobs[id], now)
                        THEN [http |-> 200, body |-> jobs[id].status]
                        ELSE ReadReply(key[c], Absent, now)
    BY DEF AbsentAndForeignLookAlike
  <2>1. key[c] \in Secrets \cup {Blank} /\ jobs[id] \in Job /\ now \in Nat
    BY DEF IInv, TypeOK, Job
  <2>2. CanReadJob(key[c], jobs[id], now) <=> Entitled(key[c], jobs[id], now)
    BY <2>1, ReadersAreEntitled
  <2>3. jobs[id].status = "absent" <=> jobs[id] = Absent
    BY <2>1, StatusesAreKnown DEF Job, Absent
  <2>4. Absent.status = "absent"
    BY DEF Absent
  <2>5. CanReadJob(key[c], jobs[id], now) => key[c] # Blank
    BY DEF CanReadJob
  <2> QED
    BY <2>2, <2>3, <2>4, <2>5 DEF ReadReply
<1> QED
  BY IInvHolds, <1>1, PTL

(* waitForJob (client.ts:184-189) returns only jobs that have ended, as    *)
(* they ended, to keys of their own tenant.                                *)
THEOREM CallersGetTheirOwnJobs == Spec => []ReturnedJobsAreOwn
<1>1. IInv => ReturnedJobsAreOwn
  BY DEF IInv, ToldInv, OwnKey, ReturnedJobsAreOwn
<1> QED
  BY IInvHolds, <1>1, PTL

LEMMA FitsByDivision ==
  ASSUME NEW polls \in Nat, NEW poll \in Nat, NEW timeout \in Nat, poll > 0, polls > 0,
         (polls - 1) * poll <= timeout
  PROVE  polls <= timeout \div poll + 1
<1> DEFINE q == timeout \div poll
<1>1. q \in Nat /\ timeout < (q + 1) * poll
  OBVIOUS
<1> HIDE DEF q
<1>2. (polls - 1) * poll < (q + 1) * poll
  BY <1>1
<1>3. polls - 1 < q + 1
  BY <1>1, <1>2
<1> QED
  BY <1>1, <1>3 DEF q

(* However late timers fire and answers come, a wait sends no more polls   *)
(* than fit between its start and its deadline (client.ts:176-197).        *)
THEOREM WaitsKeepTheirPace == Spec => []PollsFitTheTimeout
<1>1. IInv => PollsFitTheTimeout
  <2> SUFFICES ASSUME IInv, NEW c \in Callers, call[c].step \in Waiting
               PROVE  call[c].polls <= call[c].timeout \div call[c].poll + 1
    BY DEF PollsFitTheTimeout
  <2>1. /\ call[c].poll \in Nat /\ call[c].polls \in Nat /\ call[c].timeout \in Nat
    BY DEF IInv, TypeOK, Call
  <2>2. /\ call[c].poll > 0 /\ call[c].polls > 0
        /\ (call[c].polls - 1) * call[c].poll <= call[c].timeout
    BY DEF IInv, PaceInv
  <2> QED
    BY <2>1, <2>2, FitsByDivision
<1> QED
  BY IInvHolds, <1>1, PTL

-----------------------------------------------------------------------------
(* Listings *)

\* The ids a record may give and what a listing is made of.
Ids == {raw.id : raw \in Records}
Progresses ==
  [step : {"new", "fetching", "yielded", "done"}, page : Nat, index : Nat, emitted : Nat,
   limit : Limits \cup {NoLimit}, sought : Ids \cup {Nothing}, got : Seq(Ids),
   broken : {"no", "lost", "refused", "left"}]

\* What a report may name.
Refs == Ids \cup {Url(page) : page \in Nat}

ListingTypes ==
  /\ source \in {"shopify", "rest"}
  /\ pages \in Seq(Seq(Records)) /\ pages # <<>>
  /\ listing \in [Listings -> Progresses]
  /\ skipped \in Seq(Refs)
  /\ latest \in Listings \cup {Nothing}

InPlace(x) == x.page \in 1..Len(pages) /\ x.index \in 1..(Len(pages[x.page]) + 1)
WithinLimit(x) == x.limit = NoLimit \/ Len(x.got) <= x.limit
Ended(x) == (x.limit # NoLimit /\ Len(x.got) = x.limit) \/ Passed(x) = Whole

\* What a listing has yielded is what it has passed over and kept.
Faithful(x) ==
  /\ InPlace(x)
  /\ x.got = Kept(Passed(x)) /\ WithinLimit(x)
  /\ x.step = "fetching" => x.index = 1 /\ Len(x.got) = x.emitted
  /\ x.step = "yielded" => source = "shopify" /\ Len(x.got) = x.emitted + 1
  /\ source = "rest" => x.page = 1
  /\ x.broken # "no" => x.step = "done"
  /\ x.step = "done" /\ x.broken = "no" /\ x.sought = Nothing => Ended(x)

YieldInv == \A l \in Listings : Faithful(listing[l])

Noted(x, list) ==
  list = IF x.broken = "refused" THEN Append(Dropped(Passed(x)), Url(x.page)) ELSE Dropped(Passed(x))

\* A listing that began alone is the only one under way.
SkipInv ==
  latest # Nothing /\ alone =>
    /\ \A other \in Listings : other # latest => ~Active(other)
    /\ Noted(listing[latest], skipped)

ListingInv == ListingTypes /\ YieldInv /\ SkipInv

-----------------------------------------------------------------------------
(* Places in a catalog *)

\* What comes before record i of page p.
Before(p, i) == FlattenSeq(SubSeq(pages, 1, p - 1)) \o SubSeq(pages[p], 1, i - 1)

LEMMA PassedIsBefore ==
  ASSUME NEW x
  PROVE  Passed(x) = Before(x.page, x.index)
BY DEF Passed, Before

LEMMA SplitAt ==
  ASSUME NEW W, NEW c, c \in Seq(W), NEW p, p \in 1..Len(c)
  PROVE  /\ SubSeq(c, 1, p - 1) \in Seq(W) /\ c[p] \in W
         /\ SubSeq(c, p + 1, Len(c)) \in Seq(W)
         /\ SubSeq(c, 1, p) = Append(SubSeq(c, 1, p - 1), c[p])
         /\ SubSeq(c, 1, p) \in Seq(W)
         /\ c = Append(SubSeq(c, 1, p - 1), c[p]) \o SubSeq(c, p + 1, Len(c))
<1>1. Len(c) \in Nat /\ p \in Nat /\ p \in 1..Len(c) /\ \A i \in 1..Len(c) : c[i] \in W
  BY LenProperties, ElementOfSeq
<1>2. SubSeq(c, 1, p - 1) \in Seq(W) /\ SubSeq(c, p + 1, Len(c)) \in Seq(W)
  BY <1>1, SubSeqProperties
<1>3. SubSeq(c, 1, p) = SubSeq(c, 1, p - 1) \o <<c[p]>>
  <2>1. 1 \in 1..Len(c) /\ p \in 1..Len(c)
    BY <1>1
  <2> QED
    BY <2>1, SubSeqRecursiveSecond
<1>4. SubSeq(c, 1, p) \o SubSeq(c, p + 1, Len(c)) = SubSeq(c, 1, Len(c))
  <2>1. 1 \in 1..(Len(c) + 1) /\ p \in (1 - 1)..Len(c) /\ Len(c) \in p..Len(c)
    BY <1>1
  <2> QED
    BY <2>1, ConcatAdjacentSubSeq
<1>5. SubSeq(c, 1, Len(c)) = c
  BY SubSeqFull
<1>6. Append(SubSeq(c, 1, p - 1), c[p]) = SubSeq(c, 1, p - 1) \o <<c[p]>>
  BY <1>1, <1>2, AppendIsConcat
<1>7. Append(SubSeq(c, 1, p - 1), c[p]) \in Seq(W)
  BY <1>1, <1>2, AppendProperties
<1> QED
  BY <1>1, <1>2, <1>3, <1>4, <1>5, <1>6, <1>7

\* From one place of a page to a later one.
LEMMA Along ==
  ASSUME NEW W, NEW c, c \in Seq(W), NEW i, NEW j, i \in 1..(Len(c) + 1), j \in i..(Len(c) + 1)
  PROVE  /\ SubSeq(c, 1, i - 1) \in Seq(W) /\ SubSeq(c, i, j - 1) \in Seq(W)
         /\ SubSeq(c, 1, j - 1) = SubSeq(c, 1, i - 1) \o SubSeq(c, i, j - 1)
         /\ Len(SubSeq(c, i, j - 1)) = j - i
         /\ \A k \in 1..(j - i) : SubSeq(c, i, j - 1)[k] = c[i + k - 1]
<1>1. Len(c) \in Nat /\ i \in Nat /\ j \in Nat /\ \A k \in 1..Len(c) : c[k] \in W
  BY LenProperties, ElementOfSeq
<1>2. SubSeq(c, 1, i - 1) \in Seq(W)
  <2>1. \A k \in 1..(i - 1) : c[k] \in W
    BY <1>1
  <2> QED
    BY <1>1, <2>1, SubSeqProperties
<1>3. /\ SubSeq(c, i, j - 1) \in Seq(W)
      /\ Len(SubSeq(c, i, j - 1)) = IF i <= j - 1 THEN (j - 1) - i + 1 ELSE 0
      /\ \A k \in 1..((j - 1) - i + 1) : SubSeq(c, i, j - 1)[k] = c[i + k - 1]
  <2> DEFINE m == j - 1
  <2>1. m \in Int /\ \A k \in i..m : c[k] \in W
    BY <1>1
  <2> HIDE DEF m
  <2>2. /\ SubSeq(c, i, m) \in Seq(W)
        /\ Len(SubSeq(c, i, m)) = IF i <= m THEN m - i + 1 ELSE 0
        /\ \A k \in 1..(m - i + 1) : SubSeq(c, i, m)[k] = c[i + k - 1]
    BY <1>1, <2>1, SubSeqProperties
  <2> QED
    BY <2>2 DEF m
<1>4. SubSeq(c, 1, j - 1) = SubSeq(c, 1, i - 1) \o SubSeq(c, i, j - 1)
  <2> DEFINE k == i - 1
             n == j - 1
  <2>1. /\ 1 \in 1..(Len(c) + 1) /\ k \in (1 - 1)..Len(c) /\ n \in k..Len(c)
        /\ k + 1 = i
    BY <1>1
  <2> HIDE DEF k, n
  <2>2. SubSeq(c, 1, k) \o SubSeq(c, k + 1, n) = SubSeq(c, 1, n)
    BY <2>1, ConcatAdjacentSubSeq
  <2> QED
    BY <2>1, <2>2 DEF k, n
<1>5. (IF i <= j - 1 THEN (j - 1) - i + 1 ELSE 0) = j - i /\ (j - 1) - i + 1 = j - i
  BY <1>1
<1> QED
  BY <1>2, <1>3, <1>4, <1>5

\* The catalog is in place.
Shelved == pages \in Seq(Seq(Records))

LEMMA PageThere ==
  ASSUME Shelved, NEW p, p \in 1..Len(pages)
  PROVE  pages[p] \in Seq(Records) /\ Len(pages[p]) \in Nat
BY ElementOfSeq, LenProperties DEF Shelved

LEMMA BeforeType ==
  ASSUME Shelved, NEW p, p \in 1..Len(pages), NEW i, i \in 1..(Len(pages[p]) + 1)
  PROVE  Before(p, i) \in Seq(Records)
<1>1. SubSeq(pages, 1, p - 1) \in Seq(Seq(Records))
  BY SplitAt DEF Shelved
<1>2. FlattenSeq(SubSeq(pages, 1, p - 1)) \in Seq(Records)
  BY <1>1, FlattenType
<1>3. SubSeq(pages[p], 1, i - 1) \in Seq(Records)
  <2>1. Len(pages[p]) + 1 \in i..(Len(pages[p]) + 1)
    BY PageThere
  <2> QED
    BY <2>1, PageThere, Along
<1> QED
  BY <1>2, <1>3, ConcatProperties DEF Before

\* Within a page.
LEMMA BeforeLater ==
  ASSUME Shelved, NEW p, p \in 1..Len(pages),
         NEW i, i \in 1..(Len(pages[p]) + 1), NEW j, j \in i..(Len(pages[p]) + 1)
  PROVE  /\ SubSeq(pages[p], i, j - 1) \in Seq(Records)
         /\ Before(p, j) = Before(p, i) \o SubSeq(pages[p], i, j - 1)
<1> DEFINE a == FlattenSeq(SubSeq(pages, 1, p - 1))
           b == SubSeq(pages[p], 1, i - 1)
           c == SubSeq(pages[p], i, j - 1)
<1>1. a \in Seq(Records)
  BY SplitAt, FlattenType DEF Shelved
<1>2. b \in Seq(Records) /\ c \in Seq(Records) /\ SubSeq(pages[p], 1, j - 1) = b \o c
  BY PageThere, Along
<1>3. Before(p, i) = a \o b /\ Before(p, j) = a \o (b \o c)
  BY <1>2 DEF Before
<1>4. a \in Seq(Records) /\ b \in Seq(Records) /\ c \in Seq(Records)
  BY <1>1, <1>2
<1> HIDE DEF a, b, c
<1>5. Regroups(a, b, c)
  BY <1>4, Regroup
<1> QED
  BY <1>2, <1>3, <1>5 DEF c, Regroups

\* What comes before the end of page p, all of which is before the next.
LEMMA BeforeEnd ==
  ASSUME Shelved, NEW p, p \in 1..Len(pages)
  PROVE  Before(p, Len(pages[p]) + 1) = FlattenSeq(SubSeq(pages, 1, p))
<1>1. pages[p] \in Seq(Records) /\ Len(pages[p]) \in Nat
  BY PageThere
<1>2. SubSeq(pages[p], 1, (Len(pages[p]) + 1) - 1) = pages[p]
  BY <1>1, SubSeqFull
<1>3. /\ SubSeq(pages, 1, p - 1) \in Seq(Seq(Records))
      /\ SubSeq(pages, 1, p) = Append(SubSeq(pages, 1, p - 1), pages[p])
  BY SplitAt DEF Shelved
<1>4. FlattenSeq(SubSeq(pages, 1, p)) = FlattenSeq(SubSeq(pages, 1, p - 1)) \o pages[p]
  BY <1>1, <1>3, FlattenAppend
<1> QED
  BY <1>2, <1>4 DEF Before

LEMMA BeforeNext ==
  ASSUME Shelved, NEW p, p \in 1..Len(pages), p + 1 \in 1..Len(pages)
  PROVE  Before(p + 1, 1) = Before(p, Len(pages[p]) + 1)
<1>1. SubSeq(pages[p + 1], 1, 1 - 1) = <<>> /\ (p + 1) - 1 = p
  BY SubSeqEmpty
<1>2. SubSeq(pages, 1, p) \in Seq(Seq(Records))
  <2> DEFINE q == p + 1
  <2>1. SubSeq(pages, 1, q - 1) \in Seq(Seq(Records))
    <3>1. q \in 1..Len(pages)
      OBVIOUS
    <3> HIDE DEF q
    <3> QED
      BY <3>1, SplitAt DEF Shelved
  <2> QED
    BY <2>1, <1>1
<1>3. FlattenSeq(SubSeq(pages, 1, p)) \in Seq(Records)
  BY <1>2, FlattenType
<1>4. FlattenSeq(SubSeq(pages, 1, p)) \o <<>> = FlattenSeq(SubSeq(pages, 1, p))
  BY <1>3, ConcatEmptySeq
<1> QED
  BY <1>1, <1>4, BeforeEnd DEF Before

LEMMA BeforeFirst ==
  ASSUME Shelved, pages # <<>>
  PROVE  1 \in 1..Len(pages) /\ Before(1, 1) = <<>>
<1>1. Len(pages) \in Nat \ {0}
  BY EmptySeq DEF Shelved
<1>2. SubSeq(pages, 1, 1 - 1) = <<>> /\ SubSeq(pages[1], 1, 1 - 1) = <<>>
  BY SubSeqEmpty
<1>3. <<>> \o <<>> = <<>>
  OBVIOUS
<1>4. Before(1, 1) = <<>> \o <<>>
  BY <1>2, FlattenEmpty DEF Before
<1> QED
  BY <1>1, <1>3, <1>4

\* All of the catalog, and of the first page.
LEMMA BeforeLast ==
  ASSUME Shelved, pages # <<>>
  PROVE  /\ Before(Len(pages), Len(pages[Len(pages)]) + 1) = FlattenSeq(pages)
         /\ Before(1, Len(pages[1]) + 1) = pages[1]
<1>1. Len(pages) \in 1..Len(pages) /\ 1 \in 1..Len(pages)
  BY EmptySeq DEF Shelved
<1>2. SubSeq(pages, 1, Len(pages)) = pages
  BY SubSeqFull DEF Shelved
<1>3. SubSeq(pages, 1, 1 - 1) = <<>> /\ pages[1] \in Seq(Records) /\ Len(pages[1]) \in Nat
  BY <1>1, SubSeqEmpty, PageThere
<1>4. SubSeq(pages[1], 1, (Len(pages[1]) + 1) - 1) = pages[1] /\ <<>> \o pages[1] = pages[1]
  BY <1>3, SubSeqFull, ConcatEmptySeq
<1> QED
  BY <1>1, <1>2, <1>3, <1>4, BeforeEnd, FlattenEmpty DEF Before

\* What comes before a place is the beginning of the catalog.
LEMMA BeforeIsPrefix ==
  ASSUME Shelved, NEW p, p \in 1..Len(pages), NEW i, i \in 1..(Len(pages[p]) + 1)
  PROVE  \E rest \in Seq(Records) : FlattenSeq(pages) = Before(p, i) \o rest
<1> DEFINE end == Len(pages[p]) + 1
           c == SubSeq(pages[p], i, end - 1)
           d == FlattenSeq(SubSeq(pages, p + 1, Len(pages)))
           b == Before(p, i)
<1>1. end \in i..end
  BY PageThere
<1>2. Before(p, end) = b \o c /\ c \in Seq(Records) /\ b \in Seq(Records)
  BY <1>1, BeforeLater, BeforeType
<1>3. /\ SubSeq(pages, 1, p - 1) \in Seq(Seq(Records)) /\ pages[p] \in Seq(Records)
      /\ SubSeq(pages, p + 1, Len(pages)) \in Seq(Seq(Records))
      /\ SubSeq(pages, 1, p) = Append(SubSeq(pages, 1, p - 1), pages[p])
      /\ pages = Append(SubSeq(pages, 1, p - 1), pages[p]) \o SubSeq(pages, p + 1, Len(pages))
  BY SplitAt DEF Shelved
<1>4. SubSeq(pages, 1, p) \in Seq(Seq(Records))
  BY SplitAt DEF Shelved
<1>5. FlattenSeq(SubSeq(pages, 1, p) \o SubSeq(pages, p + 1, Len(pages)))
        = FlattenSeq(SubSeq(pages, 1, p)) \o d
  BY <1>3, <1>4, FlattenConcat
<1>6. FlattenSeq(pages) = (b \o c) \o d
  BY <1>2, <1>3, <1>5, BeforeEnd
<1>7. d \in Seq(Records)
  BY <1>3, FlattenType
<1> HIDE DEF b, c, d
<1>8. b \in Seq(Records) /\ c \in Seq(Records) /\ d \in Seq(Records)
  BY <1>2, <1>7
<1>9. Regroups(b, c, d)
  BY <1>8, Regroup
<1>10. c \o d \in Seq(Records)
  BY <1>8, ConcatProperties
<1> QED
  BY <1>6, <1>9, <1>10 DEF b, Regroups

-----------------------------------------------------------------------------
(* What validation keeps and drops *)

Keeping == [raw \in Records |-> IF Passes(raw) THEN <<raw.id>> ELSE <<>>]
Dropping == [raw \in Records |-> IF Passes(raw) THEN <<>> ELSE <<raw.id>>]

LEMMA SievesAreMaps ==
  /\ Keeping \in [Records -> Seq(Ids)] /\ Dropping \in [Records -> Seq(Ids)]
  /\ \A r \in Seq(Records) : Kept(r) = FlatMap(Keeping, r) /\ Dropped(r) = FlatMap(Dropping, r)
<1>1. ASSUME NEW raw \in Records PROVE <<raw.id>> \in Seq(Ids) /\ <<>> \in Seq(Ids)
  BY DEF Ids
<1>2. Keeping \in [Records -> Seq(Ids)] /\ Dropping \in [Records -> Seq(Ids)]
  BY <1>1 DEF Keeping, Dropping
<1>3. ASSUME NEW r \in Seq(Records)
      PROVE  Kept(r) = FlatMap(Keeping, r) /\ Dropped(r) = FlatMap(Dropping, r)
  <2>1. DOMAIN r = 1..Len(r) /\ \A i \in 1..Len(r) : r[i] \in Records
    BY LenProperties, ElementOfSeq
  <2>2. [i \in DOMAIN r |-> IF Passes(r[i]) THEN <<r[i].id>> ELSE <<>>]
          = [i \in DOMAIN r |-> Keeping[r[i]]]
    BY <2>1 DEF Keeping
  <2>3. [i \in DOMAIN r |-> IF Passes(r[i]) THEN <<>> ELSE <<r[i].id>>]
          = [i \in DOMAIN r |-> Dropping[r[i]]]
    BY <2>1 DEF Dropping
  <2> QED
    BY <2>2, <2>3 DEF Kept, Dropped, FlatMap
<1> QED
  BY <1>2, <1>3

LEMMA SieveTypes ==
  ASSUME NEW r \in Seq(Records)
  PROVE  Kept(r) \in Seq(Ids) /\ Dropped(r) \in Seq(Ids)
<1>1. Keeping \in [Records -> Seq(Ids)] /\ Dropping \in [Records -> Seq(Ids)]
  BY SievesAreMaps
<1>2. FlatMap(Keeping, r) \in Seq(Ids)
  BY <1>1, FlatMapType
<1>3. FlatMap(Dropping, r) \in Seq(Ids)
  BY <1>1, FlatMapType
<1> QED
  BY <1>2, <1>3, SievesAreMaps

LEMMA SieveNone == Kept(<<>>) = <<>> /\ Dropped(<<>>) = <<>>
<1>1. <<>> \in Seq(Records)
  BY EmptySeq
<1> QED
  BY <1>1, SievesAreMaps, FlatMapEmpty

LEMMA SieveConcat ==
  ASSUME NEW r, NEW t, r \in Seq(Records), t \in Seq(Records)
  PROVE  Kept(r \o t) = Kept(r) \o Kept(t) /\ Dropped(r \o t) = Dropped(r) \o Dropped(t)
<1>1. r \o t \in Seq(Records)
  BY ConcatProperties
<1>2. /\ Kept(r \o t) = FlatMap(Keeping, r \o t) /\ Dropped(r \o t) = FlatMap(Dropping, r \o t)
      /\ Kept(r) = FlatMap(Keeping, r) /\ Dropped(r) = FlatMap(Dropping, r)
      /\ Kept(t) = FlatMap(Keeping, t) /\ Dropped(t) = FlatMap(Dropping, t)
  BY <1>1, SievesAreMaps
<1>3. Keeping \in [Records -> Seq(Ids)] /\ Dropping \in [Records -> Seq(Ids)]
  BY SievesAreMaps
<1>4. FlatMap(Keeping, r \o t) = FlatMap(Keeping, r) \o FlatMap(Keeping, t)
  <2>1. Keeping \in [Records -> Seq(Ids)]
    BY <1>3
  <2> QED
    BY <2>1, FlatMapConcat
<1>5. FlatMap(Dropping, r \o t) = FlatMap(Dropping, r) \o FlatMap(Dropping, t)
  <2>1. Dropping \in [Records -> Seq(Ids)]
    BY <1>3
  <2> QED
    BY <2>1, FlatMapConcat
<1> QED
  BY <1>2, <1>4, <1>5

LEMMA SieveAppend ==
  ASSUME NEW r, NEW raw, r \in Seq(Records), raw \in Records
  PROVE  /\ Append(r, raw) \in Seq(Records)
         /\ Kept(Append(r, raw)) = IF Passes(raw) THEN Append(Kept(r), raw.id) ELSE Kept(r)
         /\ Dropped(Append(r, raw)) = IF Passes(raw) THEN Dropped(r) ELSE Append(Dropped(r), raw.id)
<1>1. Append(r, raw) \in Seq(Records)
  BY AppendProperties
<1>2. /\ Kept(Append(r, raw)) = FlatMap(Keeping, Append(r, raw))
      /\ Dropped(Append(r, raw)) = FlatMap(Dropping, Append(r, raw))
      /\ Kept(r) = FlatMap(Keeping, r) /\ Dropped(r) = FlatMap(Dropping, r)
  BY <1>1, SievesAreMaps
<1>3. Keeping \in [Records -> Seq(Ids)] /\ Dropping \in [Records -> Seq(Ids)]
  BY SievesAreMaps
<1>4. /\ FlatMap(Keeping, Append(r, raw)) = FlatMap(Keeping, r) \o Keeping[raw]
      /\ FlatMap(Dropping, Append(r, raw)) = FlatMap(Dropping, r) \o Dropping[raw]
  BY <1>3, FlatMapAppend
<1>5. /\ Kept(r) \in Seq(Ids) /\ Dropped(r) \in Seq(Ids) /\ raw.id \in Ids
      /\ Kept(r) \o <<>> = Kept(r) /\ Dropped(r) \o <<>> = Dropped(r)
  BY SieveTypes, ConcatEmptySeq DEF Ids
<1>6. /\ Append(Kept(r), raw.id) = Kept(r) \o <<raw.id>>
      /\ Append(Dropped(r), raw.id) = Dropped(r) \o <<raw.id>>
  BY <1>5, AppendIsConcat
<1>7. /\ Keeping[raw] = IF Passes(raw) THEN <<raw.id>> ELSE <<>>
      /\ Dropping[raw] = IF Passes(raw) THEN <<>> ELSE <<raw.id>>
  BY DEF Keeping, Dropping
<1>8. CASE Passes(raw)
  BY <1>1, <1>2, <1>4, <1>5, <1>6, <1>7, <1>8
<1>9. CASE ~Passes(raw)
  BY <1>1, <1>2, <1>4, <1>5, <1>6, <1>7, <1>9
<1> QED
  BY <1>8, <1>9

LEMMA SieveBad ==
  ASSUME NEW r, r \in Seq(Records), \A i \in 1..Len(r) : ~Passes(r[i])
  PROVE  Kept(r) = <<>>
<1>1. \A i \in 1..Len(r) : Keeping[r[i]] = <<>>
  BY ElementOfSeq DEF Keeping
<1>2. Keeping \in [Records -> Seq(Ids)] /\ Kept(r) = FlatMap(Keeping, r)
  BY SievesAreMaps
<1> QED
  BY <1>1, <1>2, FlatMapNothing

\* Past records none of which passes, which are noted.
LEMMA PastBad ==
  ASSUME Shelved, NEW p, p \in 1..Len(pages),
         NEW i, i \in 1..(Len(pages[p]) + 1), NEW j, j \in i..(Len(pages[p]) + 1),
         \A k \in i..(j - 1) : ~Passes(pages[p][k])
  PROVE  /\ Kept(Before(p, j)) = Kept(Before(p, i))
         /\ Dropped(Before(p, j)) = Dropped(Before(p, i)) \o Dropped(SubSeq(pages[p], i, j - 1))
<1> DEFINE c == SubSeq(pages[p], i, j - 1)
           b == Before(p, i)
<1>1. c \in Seq(Records) /\ b \in Seq(Records) /\ Before(p, j) = b \o c
  BY BeforeLater, BeforeType
<1>2. Len(c) = j - i /\ \A k \in 1..(j - i) : c[k] = pages[p][i + k - 1]
  BY PageThere, Along
<1>3. \A k \in 1..Len(c) : ~Passes(c[k])
  <2> SUFFICES ASSUME NEW k \in 1..(j - i) PROVE ~Passes(c[k])
    BY <1>2
  <2>1. i + k - 1 \in i..(j - 1)
    BY PageThere
  <2> HIDE DEF c
  <2> QED
    BY <1>2, <2>1
<1> HIDE DEF c, b
<1>4. Kept(c) = <<>>
  BY <1>1, <1>3, SieveBad
<1>5. Kept(b \o c) = Kept(b) \o Kept(c) /\ Dropped(b \o c) = Dropped(b) \o Dropped(c)
  BY <1>1, SieveConcat
<1>6. Kept(b) \in Seq(Ids) /\ Kept(b) \o <<>> = Kept(b)
  BY <1>1, SieveTypes, ConcatEmptySeq
<1> QED
  BY <1>1, <1>4, <1>5, <1>6 DEF b, c

\* Past one record.
LEMMA PastOne ==
  ASSUME Shelved, NEW p, p \in 1..Len(pages), NEW j, j \in 1..Len(pages[p])
  PROVE  /\ Before(p, j + 1) = Append(Before(p, j), pages[p][j])
         /\ pages[p][j] \in Records
<1> DEFINE i == j + 1
<1>1. /\ j \in 1..(Len(pages[p]) + 1) /\ i \in j..(Len(pages[p]) + 1)
      /\ pages[p][j] \in Records /\ i - 1 = j
  BY PageThere, ElementOfSeq
<1>2. Before(p, i) = Before(p, j) \o SubSeq(pages[p], j, i - 1)
  <2> HIDE DEF i
  <2> QED
    BY <1>1, BeforeLater
<1>3. SubSeq(pages[p], j, j) = <<pages[p][j]>>
  <2>1. /\ SubSeq(pages[p], j, j) = SubSeq(pages[p], j, j - 1) \o <<pages[p][j]>>
        /\ SubSeq(pages[p], j, j - 1) = <<>>
    <3>1. pages[p] \in Seq(Records) /\ j \in j..Len(pages[p]) /\ j \in Int
      BY PageThere
    <3> QED
      BY <3>1, SubSeqRecursiveSecond, SubSeqEmpty
  <2>2. <<>> \o <<pages[p][j]>> = <<pages[p][j]>>
    OBVIOUS
  <2> QED
    BY <2>1, <2>2
<1>4. Append(Before(p, j), pages[p][j]) = Before(p, j) \o <<pages[p][j]>>
  BY <1>1, BeforeType, AppendIsConcat
<1> QED
  BY <1>1, <1>2, <1>3, <1>4

-----------------------------------------------------------------------------
(* One listing goes on *)

LEMMA LeastPicked ==
  ASSUME NEW S, S \subseteq Nat, S # {}
  PROVE  LET least == CHOOSE i \in S : \A j \in S : i <= j
         IN least \in S /\ \A j \in S : least <= j
<1>1. \E i \in S : \A j \in S : ~ (<<j, i>> \in OpToRel(<, Nat))
  BY NatLessThanWellFounded, WFMin
<1>2. \A i, j \in Nat : <<j, i>> \in OpToRel(<, Nat) <=> j < i
  BY DEF OpToRel
<1>3. \E i \in S : \A j \in S : ~ (j < i)
  BY <1>1, <1>2, Zenon
<1>4. \E i \in S : \A j \in S : i <= j
  BY <1>3
<1> QED
  BY <1>4, Zenon

\* A listing between two products.
Ready(x) ==
  /\ InPlace(x) /\ x.got = Kept(Passed(x)) /\ Len(x.got) = x.emitted /\ WithinLimit(x)
  /\ x.broken = "no"

\* l goes on from x, and what it drops is added to the list.
GoesOn(l, x) ==
  \E y \in Progresses :
    /\ Advance(l, y) /\ Faithful(y) /\ y.broken = "no"
    /\ skipped' \in Seq(Refs)
    /\ skipped = Dropped(Passed(x)) => skipped' = Dropped(Passed(y))

LEMMA NotesType ==
  ASSUME skipped \in Seq(Refs), NEW r, r \in Seq(Ids)
  PROVE  skipped \o r \in Seq(Refs)
<1>1. r \in Seq(Refs)
  <2>1. Ids \subseteq Refs
    BY DEF Refs
  <2> QED
    BY <2>1, SeqMonotonic
<1> QED
  BY <1>1, ConcatProperties

LEMMA ScanGoesOn ==
  ASSUME ListingTypes, source = "shopify", NEW l \in Listings, NEW x \in Progresses,
         Ready(x), Scan(l, x)
  PROVE  GoesOn(l, x)
<1> DEFINE p == x.page
           page == pages[p]
           ahead == x.index..Len(page)
           good == {i \in ahead : Passes(page[i])}
           stop == IF good = {} THEN Len(page) + 1 ELSE CHOOSE i \in good : \A j \in good : i <= j
           gap == Dropped(SubSeq(page, x.index, stop - 1))
<1>1. /\ Shelved /\ pages # <<>> /\ Len(pages) \in Nat
      /\ p \in 1..Len(pages) /\ p \in Nat /\ page \in Seq(Records) /\ Len(page) \in Nat
      /\ x.index \in 1..(Len(page) + 1) /\ x.index \in Nat
  <2>1. Shelved /\ pages # <<>> /\ Len(pages) \in Nat
    BY LenProperties DEF ListingTypes, Shelved
  <2>2. p \in 1..Len(pages) /\ x.index \in 1..(Len(page) + 1) /\ p \in Nat /\ x.index \in Nat
    BY <2>1 DEF Ready, InPlace, Progresses
  <2> QED
    BY <2>1, <2>2, PageThere
<1>2. /\ stop \in x.index..(Len(page) + 1) /\ \A k \in x.index..(stop - 1) : ~Passes(page[k])
      /\ good # {} => stop \in 1..Len(page) /\ Passes(page[stop]) /\ ahead # {}
      /\ good = {} => stop = Len(page) + 1
  <2>1. CASE good = {}
    BY <1>1, <2>1
  <2>2. CASE good # {}
    <3>1. good \subseteq Nat
      BY <1>1
    <3>2. stop \in good /\ \A j \in good : stop <= j
      <4> HIDE DEF good
      <4>1. LET least == CHOOSE i \in good : \A j \in good : i <= j
            IN least \in good /\ \A j \in good : least <= j
        BY <2>2, <3>1, LeastPicked
      <4> QED
        BY <2>2, <4>1, Zenon
    <3> HIDE DEF stop
    <3>3. stop \in x.index..Len(page) /\ Passes(page[stop])
      BY <3>2
    <3>4. ASSUME NEW k \in x.index..(stop - 1) PROVE ~Passes(page[k])
      BY <1>1, <3>2, <3>3
    <3> QED
      BY <1>1, <2>2, <3>3, <3>4
  <2> QED
    BY <2>1, <2>2
<1>3. /\ IF ahead # {} /\ Reached(x)
         THEN Advance(l, [x EXCEPT !.step = "done"]) /\ skipped' = skipped
         ELSE IF good # {}
         THEN /\ skipped' = skipped \o gap
              /\ Advance(l, [x EXCEPT !.step = "yielded", !.index = stop + 1,
                                      !.got = Append(@, page[stop].id)])
         ELSE IF Following(x) = 0
         THEN skipped' = skipped \o gap /\ Advance(l, [x EXCEPT !.step = "done", !.index = stop])
         ELSE /\ skipped' = skipped \o gap
              /\ Advance(l, [x EXCEPT !.step = "fetching", !.page = Following(x), !.index = 1])
  BY DEF Scan
<1> HIDE DEF stop, ahead, good, page, p
<1>4. /\ Kept(Before(p, stop)) = x.got
      /\ Dropped(Before(p, stop)) = Dropped(Passed(x)) \o gap
      /\ Before(p, stop) \in Seq(Records)
  <2>1. /\ Kept(Before(p, stop)) = Kept(Before(p, x.index))
        /\ Dropped(Before(p, stop)) = Dropped(Before(p, x.index)) \o gap
    BY <1>1, <1>2, PastBad DEF page
  <2>2. Passed(x) = Before(p, x.index)
    BY PassedIsBefore DEF p
  <2>3. stop \in 1..(Len(page) + 1)
    BY <1>1, <1>2
  <2>4. Before(p, stop) \in Seq(Records)
    BY <1>1, <2>3, BeforeType DEF page
  <2> QED
    BY <2>1, <2>2, <2>4 DEF Ready
<1>5. gap \in Seq(Ids) /\ skipped \in Seq(Refs) /\ skipped \o gap \in Seq(Refs)
  <2>1. SubSeq(page, x.index, stop - 1) \in Seq(Records)
    BY <1>1, <1>2, Along
  <2>2. gap \in Seq(Ids)
    BY <2>1, SieveTypes
  <2>3. skipped \in Seq(Refs)
    BY DEF ListingTypes, Refs
  <2> HIDE DEF gap
  <2> QED
    BY <2>2, <2>3, NotesType
<1> HIDE DEF gap
<1>6. /\ x.got \in Seq(Ids) /\ Len(x.got) = x.emitted /\ x.emitted \in Nat
      /\ x.limit \in Nat \cup {NoLimit} /\ NoLimit \notin Nat /\ x.broken = "no"
      /\ x.limit = NoLimit \/ x.emitted <= x.limit
  BY ListingAssumption DEF Ready, Progresses, WithinLimit
<1>7. CASE ahead # {} /\ Reached(x)
  <2> DEFINE y == [x EXCEPT !.step = "done"]
  <2>1. /\ y \in Progresses /\ y.page = x.page /\ y.index = x.index /\ y.got = x.got
        /\ y.limit = x.limit /\ y.broken = x.broken /\ y.step = "done"
    BY DEF Progresses
  <2>2. Advance(l, y) /\ skipped' = skipped
    BY <1>3, <1>7
  <2> HIDE DEF y
  <2>3. Passed(y) = Passed(x)
    BY <2>1, PassedIsBefore
  <2>4. Ended(y)
    BY <1>6, <1>7, <2>1 DEF Ended, Reached
  <2>5. Faithful(y)
    BY <2>1, <2>3, <2>4, <1>6 DEF Faithful, Ready, InPlace, WithinLimit
  <2> QED
    BY <1>5, <1>6, <2>1, <2>2, <2>3, <2>5 DEF GoesOn
<1>8. CASE ~(ahead # {} /\ Reached(x)) /\ good # {}
  <2> DEFINE more == Append(x.got, page[stop].id)
             y == [x EXCEPT !.step = "yielded", !.index = stop + 1, !.got = more]
  <2>1. stop \in 1..Len(page) /\ stop \in Nat /\ page[stop] \in Records /\ Passes(page[stop])
    BY <1>1, <1>2, <1>8, ElementOfSeq
  <2>2. more \in Seq(Ids) /\ Len(more) = x.emitted + 1
    <3>1. page[stop].id \in Ids
      BY <2>1 DEF Ids
    <3> QED
      BY <1>6, <3>1, AppendProperties
  <2>3. /\ y \in Progresses /\ y.page = x.page /\ y.index = stop + 1
        /\ y.got = more /\ y.emitted = x.emitted
        /\ y.limit = x.limit /\ y.broken = x.broken /\ y.step = "yielded"
    <3>1. more \in Seq(Ids) /\ stop + 1 \in Nat
      BY <2>1, <2>2
    <3> HIDE DEF more
    <3> QED
      BY <3>1 DEF Progresses
  <2>4. Advance(l, y) /\ skipped' = skipped \o gap
    BY <1>3, <1>8
  <2> HIDE DEF y
  <2>5. Passed(y) = Append(Before(p, stop), page[stop])
    <3>1. Before(p, stop + 1) = Append(Before(p, stop), page[stop])
      BY <1>1, <2>1, PastOne DEF page
    <3> QED
      BY <3>1, <2>3, PassedIsBefore DEF p
  <2>6. Kept(Passed(y)) = y.got /\ Dropped(Passed(y)) = Dropped(Passed(x)) \o gap
    <3> DEFINE b == Before(p, stop)
               raw == page[stop]
    <3>1. b \in Seq(Records) /\ raw \in Records /\ Passes(raw) /\ Passed(y) = Append(b, raw)
      BY <1>4, <2>1, <2>5
    <3>2. Kept(b) = x.got /\ Dropped(b) = Dropped(Passed(x)) \o gap /\ y.got = Append(x.got, raw.id)
      BY <1>4, <2>3
    <3> HIDE DEF b, raw
    <3>3. Kept(Append(b, raw)) = Append(Kept(b), raw.id) /\ Dropped(Append(b, raw)) = Dropped(b)
      BY <3>1, SieveAppend
    <3> QED
      BY <3>1, <3>2, <3>3
  <2>7. WithinLimit(y)
    BY <1>2, <1>6, <1>8, <2>2, <2>3 DEF WithinLimit, Reached
  <2>8. InPlace(y)
    BY <1>1, <2>1, <2>3 DEF InPlace, p, page
  <2>9. Faithful(y)
    BY <1>6, <2>2, <2>3, <2>6, <2>7, <2>8 DEF Faithful
  <2> QED
    BY <1>5, <1>6, <2>3, <2>4, <2>6, <2>9 DEF GoesOn
<1>9. CASE ~(ahead # {} /\ Reached(x)) /\ good = {} /\ Following(x) = 0
  <2> DEFINE y == [x EXCEPT !.step = "done", !.index = stop]
  <2>1. stop = Len(page) + 1 /\ stop \in Nat
    BY <1>1, <1>2, <1>9
  <2>2. /\ y \in Progresses /\ y.page = x.page /\ y.index = stop /\ y.got = x.got
        /\ y.limit = x.limit /\ y.broken = x.broken /\ y.step = "done"
    BY <2>1 DEF Progresses
  <2>3. Advance(l, y) /\ skipped' = skipped \o gap
    BY <1>3, <1>9
  <2> HIDE DEF y
  <2>4. Passed(y) = Before(p, stop)
    BY <2>2, PassedIsBefore DEF p
  <2>5. p = Len(pages)
    BY <1>1, <1>9 DEF Following, p
  <2>6. Passed(y) = Whole
    BY <1>1, <2>1, <2>4, <2>5, BeforeLast DEF Whole, page
  <2>7. InPlace(y) /\ WithinLimit(y)
    BY <1>1, <1>6, <2>1, <2>2 DEF InPlace, WithinLimit, p, page
  <2>8. Faithful(y)
    BY <1>4, <1>6, <2>2, <2>4, <2>6, <2>7 DEF Faithful, Ended
  <2> QED
    BY <1>4, <1>5, <1>6, <2>2, <2>3, <2>4, <2>8 DEF GoesOn
<1>10. CASE ~(ahead # {} /\ Reached(x)) /\ good = {} /\ Following(x) # 0
  <2> DEFINE y == [x EXCEPT !.step = "fetching", !.page = Following(x), !.index = 1]
  <2>1. stop = Len(page) + 1 /\ Following(x) = p + 1 /\ p + 1 \in 1..Len(pages)
    BY <1>1, <1>2, <1>10 DEF Following, p
  <2>2. /\ y \in Progresses /\ y.page = p + 1 /\ y.index = 1 /\ y.got = x.got
        /\ y.limit = x.limit /\ y.broken = x.broken /\ y.step = "fetching"
        /\ y.emitted = x.emitted
    <3>1. Following(x) = p + 1 /\ Following(x) \in Nat
      BY <1>1, <2>1
    <3> QED
      BY <3>1 DEF Progresses
  <2>3. Advance(l, y) /\ skipped' = skipped \o gap
    BY <1>3, <1>10
  <2> HIDE DEF y
  <2>4. Passed(y) = Before(p, stop)
    <3>1. Before(p + 1, 1) = Before(p, Len(page) + 1)
      BY <1>1, <2>1, BeforeNext DEF page
    <3> QED
      BY <3>1, <2>1, <2>2, PassedIsBefore
  <2>5. InPlace(y) /\ WithinLimit(y)
    <3>1. Len(pages[p + 1]) \in Nat
      BY <1>1, <2>1, PageThere
    <3> QED
      BY <1>6, <2>1, <2>2, <3>1 DEF InPlace, WithinLimit
  <2>6. Faithful(y)
    BY <1>4, <1>6, <2>2, <2>4, <2>5 DEF Faithful
  <2> QED
    BY <1>4, <1>5, <1>6, <2>2, <2>3, <2>4, <2>6 DEF GoesOn
<1> QED
  BY <1>7, <1>8, <1>9, <1>10

\* The feed's first i records.
LEMMA FeedIsBefore ==
  ASSUME ListingTypes, NEW i, i \in 0..Len(pages[1])
  PROVE  /\ SubSeq(pages[1], 1, i) = Before(1, i + 1)
         /\ SubSeq(pages[1], 1, i) \in Seq(Records)
         /\ Len(pages[1]) \in Nat
<1>1. Shelved /\ pages # <<>>
  BY DEF ListingTypes, Shelved
<1>2. 1 \in 1..Len(pages) /\ Before(1, 1) = <<>>
  BY <1>1, BeforeFirst
<1>3. Len(pages[1]) \in Nat
  BY <1>1, <1>2, PageThere
<1> DEFINE j == i + 1
<1>4. 1 \in 1..(Len(pages[1]) + 1) /\ j \in 1..(Len(pages[1]) + 1) /\ j - 1 = i
  BY <1>3
<1> HIDE DEF j
<1>5. /\ SubSeq(pages[1], 1, j - 1) \in Seq(Records)
      /\ Before(1, j) = Before(1, 1) \o SubSeq(pages[1], 1, j - 1)
  BY <1>1, <1>2, <1>4, BeforeLater
<1>6. <<>> \o SubSeq(pages[1], 1, j - 1) = SubSeq(pages[1], 1, j - 1)
  BY <1>5, ConcatEmptySeq
<1> QED
  BY <1>2, <1>3, <1>4, <1>5, <1>6 DEF j

LEMMA CollectGoesOn ==
  ASSUME ListingTypes, source = "rest", NEW l \in Listings, NEW x \in Progresses,
         Faithful(x), x.step = "fetching", Collect(l, x)
  PROVE  GoesOn(l, x)
<1> DEFINE feed == pages[1]
           count(i) == Len(Kept(SubSeq(feed, 1, i)))
           enough(i) == x.limit # NoLimit /\ count(i) >= x.limit
           ends == {i \in 0..Len(feed) : enough(i) \/ i = Len(feed)}
           end == CHOOSE i \in ends : \A j \in ends : i <= j
           most == Kept(SubSeq(feed, 1, end))
           y == [x EXCEPT !.step = "done", !.index = end + 1, !.got = most]
<1>1. \A i : Reached([x EXCEPT !.emitted = count(i)]) <=> enough(i)
  BY DEF Reached, Progresses
<1>2. /\ skipped' = skipped \o Dropped(SubSeq(feed, 1, end))
      /\ Advance(l, y)
  BY <1>1 DEF Collect
<1>3. Shelved /\ pages # <<>> /\ 1 \in 1..Len(pages) /\ feed \in Seq(Records) /\ Len(feed) \in Nat
  <2>1. Shelved /\ pages # <<>>
    BY DEF ListingTypes, Shelved
  <2> QED
    BY <2>1, BeforeFirst, PageThere
<1>4. end \in ends /\ \A j \in ends : end <= j
  <2>1. Len(feed) \in ends /\ ends \subseteq Nat
    BY <1>3
  <2>2. ends # {}
    BY <2>1
  <2> HIDE DEF ends
  <2>3. LET least == CHOOSE i \in ends : \A j \in ends : i <= j
        IN least \in ends /\ \A j \in ends : least <= j
    BY <2>1, <2>2, LeastPicked
  <2> QED
    BY <2>3, Zenon
<1> HIDE DEF end
<1>5. end \in 0..Len(feed) /\ end \in Nat /\ (enough(end) \/ end = Len(feed))
  BY <1>3, <1>4
<1>6. ASSUME NEW i \in 0..Len(feed)
      PROVE  /\ SubSeq(feed, 1, i) = Before(1, i + 1) /\ SubSeq(feed, 1, i) \in Seq(Records)
             /\ Kept(SubSeq(feed, 1, i)) \in Seq(Ids) /\ Dropped(SubSeq(feed, 1, i)) \in Seq(Ids)
             /\ count(i) \in Nat
  <2>1. SubSeq(feed, 1, i) = Before(1, i + 1) /\ SubSeq(feed, 1, i) \in Seq(Records)
    BY FeedIsBefore
  <2>2. Kept(SubSeq(feed, 1, i)) \in Seq(Ids) /\ Dropped(SubSeq(feed, 1, i)) \in Seq(Ids)
    <3> DEFINE r == SubSeq(feed, 1, i)
    <3>1. r \in Seq(Records)
      BY <2>1
    <3> HIDE DEF r
    <3>2. Kept(r) \in Seq(Ids) /\ Dropped(r) \in Seq(Ids)
      BY <3>1, SieveTypes
    <3> QED
      BY <3>2 DEF r
  <2>3. count(i) \in Nat
    BY <2>2, LenProperties
  <2> QED
    BY <2>1, <2>2, <2>3
<1>7. /\ most \in Seq(Ids) /\ Len(most) = count(end) /\ count(end) \in Nat
      /\ most = Kept(Before(1, end + 1))
      /\ Dropped(SubSeq(feed, 1, end)) = Dropped(Before(1, end + 1))
      /\ Dropped(SubSeq(feed, 1, end)) \in Seq(Ids)
  BY <1>5, <1>6
<1>8. x.limit \in Nat \cup {NoLimit} /\ NoLimit \notin Nat /\ x.broken = "no"
  BY ListingAssumption DEF Faithful, Progresses
<1>9. x.page = 1 /\ x.index = 1 /\ Passed(x) = <<>>
  <2>1. x.page = 1 /\ x.index = 1
    BY DEF Faithful
  <2> QED
    BY <2>1, <1>3, BeforeFirst, PassedIsBefore
<1>10. x.limit # NoLimit => count(end) <= x.limit
  <2> SUFFICES ASSUME x.limit # NoLimit PROVE count(end) <= x.limit
    OBVIOUS
  <2>1. x.limit \in Nat
    BY <1>8
  <2>2. CASE end = 0
    <3>1. SubSeq(feed, 1, 0) = <<>>
      BY SubSeqEmpty
    <3>2. count(end) = 0
      BY <2>2, <3>1, SieveNone, EmptySeq
    <3> QED
      BY <2>1, <3>2
  <2>3. CASE end # 0
    <3> DEFINE i == end - 1
    <3>1. i \in 0..Len(feed) /\ i + 1 = end /\ end \in 1..Len(feed) /\ ~(end <= i)
      BY <1>3, <1>5, <2>3
    <3> HIDE DEF i
    <3>2. ~enough(i) /\ count(i) \in Nat
      BY <1>4, <1>6, <3>1
    <3>3. count(i) < x.limit
      <4> HIDE DEF count
      <4> QED
        BY <2>1, <3>2
    <3>4. /\ Before(1, end + 1) = Append(Before(1, end), feed[end]) /\ feed[end] \in Records
          /\ SubSeq(feed, 1, i) = Before(1, end) /\ Before(1, end) \in Seq(Records)
      <4>1. SubSeq(feed, 1, i) = Before(1, i + 1) /\ SubSeq(feed, 1, i) \in Seq(Records)
        BY <1>6, <3>1
      <4>2. Before(1, end + 1) = Append(Before(1, end), feed[end]) /\ feed[end] \in Records
        BY <1>3, <3>1, PastOne
      <4> QED
        BY <3>1, <4>1, <4>2
    <3>5. \/ Kept(Before(1, end + 1)) = Append(Kept(Before(1, end)), feed[end].id)
          \/ Kept(Before(1, end + 1)) = Kept(Before(1, end))
      BY <3>4, SieveAppend
    <3>6. Kept(Before(1, end)) \in Seq(Ids) /\ feed[end].id \in Ids
      BY <3>4, SieveTypes DEF Ids
    <3>7. Len(Append(Kept(Before(1, end)), feed[end].id)) = Len(Kept(Before(1, end))) + 1
      BY <3>6, AppendProperties
    <3>8. count(end) = count(i) + 1 \/ count(end) = count(i)
      BY <1>7, <3>4, <3>5, <3>7
    <3> QED
      <4> HIDE DEF count
      <4> QED
        BY <2>1, <3>2, <3>3, <3>8
  <2> QED
    BY <2>2, <2>3
<1>11. /\ y \in Progresses /\ y.page = 1 /\ y.index = end + 1 /\ y.got = most
       /\ y.limit = x.limit /\ y.broken = x.broken /\ y.step = "done"
  <2>1. most \in Seq(Ids) /\ end + 1 \in Nat /\ x.page = 1
    BY <1>5, <1>7, <1>9
  <2> HIDE DEF most
  <2> QED
    BY <2>1 DEF Progresses
<1> HIDE DEF y
<1>12. Passed(y) = Before(1, end + 1)
  BY <1>11, PassedIsBefore
<1>13. Ended(y)
  <2>1. CASE enough(end)
    <3>1. x.limit \in Nat /\ count(end) >= x.limit /\ count(end) <= x.limit
      BY <1>8, <1>10, <2>1
    <3>2. count(end) = x.limit
      <4> HIDE DEF count
      <4> QED
        BY <1>7, <3>1
    <3> QED
      BY <1>7, <1>11, <2>1, <3>2 DEF Ended
  <2>2. CASE end = Len(feed)
    <3>1. Before(1, Len(feed) + 1) = feed
      BY <1>3, BeforeLast
    <3> QED
      BY <1>12, <2>2, <3>1 DEF Ended, Whole
  <2> QED
    BY <1>5, <2>1, <2>2
<1>14. InPlace(y) /\ WithinLimit(y)
  <2>1. end + 1 \in 1..(Len(feed) + 1)
    BY <1>3, <1>5
  <2> QED
    BY <1>3, <1>7, <1>10, <1>11, <2>1 DEF InPlace, WithinLimit
<1>15. Faithful(y)
  BY <1>7, <1>8, <1>11, <1>12, <1>13, <1>14 DEF Faithful
<1>16. skipped' \in Seq(Refs)
  <2>1. skipped \in Seq(Refs)
    BY DEF ListingTypes, Refs
  <2> QED
    BY <1>2, <1>7, <2>1, NotesType
<1>17. skipped = Dropped(Passed(x)) => skipped' = Dropped(Passed(y))
  <2>1. Dropped(Passed(x)) = <<>>
    BY <1>9, SieveNone
  <2>2. <<>> \o Dropped(Before(1, end + 1)) = Dropped(Before(1, end + 1))
    BY <1>7, ConcatEmptySeq
  <2> QED
    BY <1>2, <1>7, <1>12, <2>1, <2>2
<1> QED
  BY <1>2, <1>8, <1>11, <1>15, <1>16, <1>17 DEF GoesOn

-----------------------------------------------------------------------------
(* The invariant *)

\* What stands in the catalog's terms stands while the catalog does.
LEMMA CatalogStands ==
  ASSUME UNCHANGED <<source, pages>>
  PROVE  /\ \A x : Faithful(x)' <=> Faithful(x)
         /\ \A x, list : Noted(x, list)' <=> Noted(x, list)
<1>1. \A raw : Passes(raw)' <=> Passes(raw)
  BY DEF Passes, Candidate
<1>2. \A r : Kept(r)' = Kept(r) /\ Dropped(r)' = Dropped(r)
  BY <1>1 DEF Kept, Dropped
<1>3. \A x : Passed(x)' = Passed(x)
  BY DEF Passed
<1>4. Whole' = Whole
  BY DEF Whole
<1>5. \A x : (InPlace(x)' <=> InPlace(x)) /\ (Ended(x)' <=> Ended(x))
  BY <1>3, <1>4 DEF InPlace, Ended
<1>6. \A x : Kept(Passed(x))' = Kept(Passed(x)) /\ Dropped(Passed(x))' = Dropped(Passed(x))
  BY <1>2, <1>3
<1>7. \A x : Faithful(x)' <=> Faithful(x)
  BY <1>5, <1>6 DEF Faithful, WithinLimit
<1>8. \A x, list : Noted(x, list)' <=> Noted(x, list)
  BY <1>6 DEF Noted
<1> QED
  BY <1>7, <1>8

\* A listing under way moves from one faithful state to another.
Moves(l, y) ==
  /\ Active(l) /\ Advance(l, y) /\ Faithful(y)
  /\ skipped' \in Seq(Refs)
  /\ Noted(listing[l], skipped) => Noted(y, skipped')

LEMMA MovesPreserve ==
  ASSUME ListingInv, NEW l \in Listings, NEW y \in Progresses, Moves(l, y),
         UNCHANGED <<source, pages, latest, alone>>
  PROVE  ListingInv'
<1>1. /\ listing \in [Listings -> Progresses]
      /\ listing' \in [Listings -> Progresses] /\ listing'[l] = y
      /\ \A other \in Listings : other # l => listing'[other] = listing[other]
  BY DEF ListingInv, ListingTypes, Moves, Advance
<1>2. ListingTypes'
  BY <1>1 DEF ListingInv, ListingTypes, Moves, Refs
<1>3. YieldInv'
  <2>1. \A other \in Listings : Faithful(listing'[other])
    BY <1>1 DEF ListingInv, YieldInv, Moves
  <2>2. ASSUME NEW other \in Listings PROVE Faithful(listing[other])'
    <3> DEFINE x == listing'[other]
    <3>1. Faithful(x)
      BY <2>1
    <3> QED
      BY <3>1, <1>1, CatalogStands DEF Faithful, InPlace, WithinLimit, Ended
  <2> QED
    BY <2>2 DEF YieldInv
<1>4. SkipInv'
  <2> SUFFICES ASSUME latest # Nothing, alone
               PROVE  /\ \A other \in Listings : other # latest => ~Active(other)'
                      /\ Noted(listing[latest], skipped)'
    BY DEF SkipInv
  <2>1. /\ \A other \in Listings : other # latest => ~Active(other)
        /\ Noted(listing[latest], skipped)
    BY DEF ListingInv, SkipInv
  <2>2. l = latest
    BY <2>1 DEF Moves
  <2>3. \A other \in Listings : other # latest => ~Active(other)'
    BY <1>1, <2>1, <2>2 DEF Active
  <2>4. Noted(y, skipped')
    BY <2>1, <2>2 DEF Moves
  <2> QED
    BY <1>1, <2>2, <2>3, <2>4, CatalogStands DEF Noted
<1> QED
  BY <1>2, <1>3, <1>4 DEF ListingInv

LEMMA InitListing == ListingInit => ListingInv
<1> SUFFICES ASSUME ListingInit PROVE ListingInv
  OBVIOUS
<1>1. /\ Shelved /\ pages # <<>> /\ pages \in Seq(Seq(Records))
      /\ source \in {"shopify", "rest"} /\ skipped = <<>> /\ latest = Nothing
  BY ListingAssumption DEF ListingInit, Shelved
<1>2. <<>> \in Seq(Ids) /\ <<>> \in Seq(Refs) /\ Len(<<>>) = 0
  BY EmptySeq
<1>3. New \in Progresses
  BY <1>2 DEF New, Progresses
<1>4. Faithful(New)
  <2>1. Passed(New) = <<>> /\ 1 \in 1..Len(pages) /\ Len(pages[1]) \in Nat
    <3>1. Before(1, 1) = <<>> /\ 1 \in 1..Len(pages)
      BY <1>1, BeforeFirst
    <3> QED
      BY <1>1, <3>1, PassedIsBefore, PageThere DEF New
  <2>2. Kept(Passed(New)) = <<>>
    BY <2>1, SieveNone
  <2> QED
    BY <2>1, <2>2 DEF New, Faithful, InPlace, WithinLimit
<1>5. ListingTypes
  BY <1>1, <1>2, <1>3 DEF ListingInit, ListingTypes
<1>6. YieldInv
  BY <1>4 DEF ListingInit, YieldInv
<1>7. SkipInv
  BY <1>1 DEF SkipInv
<1> QED
  BY <1>5, <1>6, <1>7 DEF ListingInv

LEMMA StartPreserves ==
  ASSUME ListingInv, NEW l \in Listings, Start(l)
  PROVE  ListingInv'
<1>1. /\ Shelved /\ pages # <<>> /\ listing \in [Listings -> Progresses]
      /\ pages \in Seq(Seq(Records))
  BY DEF ListingInv, ListingTypes, Shelved
<1>2. /\ 1 \in 1..Len(pages) /\ Before(1, 1) = <<>>
      /\ pages[1] \in Seq(Records) /\ Len(pages[1]) \in Nat
  BY <1>1, BeforeFirst, PageThere
<1>3. PICK limit \in Limits \cup {NoLimit},
           sought \in {Nothing} \cup {pages[1][i].id : i \in DOMAIN pages[1]} :
        Advance(l, [New EXCEPT !.step = "fetching", !.limit = limit, !.sought = sought])
  BY DEF Start
<1> DEFINE y == [New EXCEPT !.step = "fetching", !.limit = limit, !.sought = sought]
<1>4. sought \in Ids \cup {Nothing}
  <2>1. \A i \in DOMAIN pages[1] : pages[1][i] \in Records
    BY <1>2, LenProperties, ElementOfSeq
  <2> QED
    BY <2>1 DEF Ids
<1>5. /\ y \in Progresses /\ y.page = 1 /\ y.index = 1 /\ y.got = <<>> /\ y.emitted = 0
      /\ y.broken = "no" /\ y.step = "fetching" /\ y.limit = limit
  <2>1. <<>> \in Seq(Ids)
    BY EmptySeq
  <2> QED
    BY <1>4, <2>1 DEF New, Progresses
<1>6. Advance(l, y)
  BY <1>3
<1> HIDE DEF y
<1>7. Passed(y) = <<>>
  BY <1>2, <1>5, PassedIsBefore
<1>8. Faithful(y)
  <2>1. Kept(Passed(y)) = <<>> /\ Len(<<>>) = 0
    BY <1>7, SieveNone
  <2>2. limit = NoLimit \/ 0 <= limit
    <3>1. limit \in Nat \cup {NoLimit}
      BY ListingAssumption
    <3> QED
      BY <3>1
  <2> QED
    BY <1>2, <1>5, <2>1, <2>2 DEF Faithful, InPlace, WithinLimit
<1>9. /\ listing' \in [Listings -> Progresses] /\ listing'[l] = y
      /\ \A other \in Listings : other # l => listing'[other] = listing[other]
  BY <1>1, <1>5, <1>6 DEF Advance
<1>10. /\ skipped' = <<>> /\ latest' = l /\ UNCHANGED <<source, pages>>
       /\ alone' = \A other \in Listings : ~Active(other)
  BY DEF Start
<1>11. ListingTypes'
  <2>1. <<>> \in Seq(Refs)
    BY EmptySeq
  <2> QED
    BY <1>9, <1>10, <2>1 DEF ListingInv, ListingTypes
<1>12. YieldInv'
  <2>1. \A other \in Listings : Faithful(listing'[other])
    BY <1>8, <1>9 DEF ListingInv, YieldInv
  <2>2. ASSUME NEW other \in Listings PROVE Faithful(listing[other])'
    <3> DEFINE x == listing'[other]
    <3>1. Faithful(x)
      BY <2>1
    <3> QED
      BY <3>1, <1>9, <1>10, CatalogStands DEF Faithful, InPlace, WithinLimit, Ended
  <2> QED
    BY <2>2 DEF YieldInv
<1>13. SkipInv'
  <2> SUFFICES ASSUME alone'
               PROVE  /\ \A other \in Listings : other # l => ~Active(other)'
                      /\ Noted(listing[latest], skipped)'
    BY <1>10 DEF SkipInv
  <2>1. \A other \in Listings : ~Active(other)
    BY <1>10
  <2>2. \A other \in Listings : other # l => ~Active(other)'
    BY <1>9, <2>1 DEF Active
  <2>3. Noted(y, <<>>)
    BY <1>5, <1>7, SieveNone DEF Noted
  <2> QED
    BY <1>9, <1>10, <2>2, <2>3, CatalogStands DEF Noted
<1> QED
  BY <1>11, <1>12, <1>13 DEF ListingInv

\* A listing under way has not broken off, so its list is exactly what it dropped.
LEMMA ActiveIsReady ==
  ASSUME ListingInv, NEW l \in Listings, Active(l)
  PROVE  /\ listing[l] \in Progresses /\ Faithful(listing[l]) /\ listing[l].broken = "no"
         /\ Noted(listing[l], skipped) => skipped = Dropped(Passed(listing[l]))
         /\ listing[l].step \in {"fetching", "yielded"}
<1>1. listing[l] \in Progresses /\ Faithful(listing[l])
  BY DEF ListingInv, ListingTypes, YieldInv
<1>2. listing[l].step \in {"fetching", "yielded"}
  BY DEF Active
<1>3. listing[l].broken = "no"
  BY <1>1, <1>2 DEF Faithful
<1> QED
  BY <1>1, <1>2, <1>3 DEF Noted

\* What goes on from where l is moves.
LEMMA GoingOnMoves ==
  ASSUME ListingInv, NEW l \in Listings, Active(l),
         NEW x, Passed(x) = Passed(listing[l]), GoesOn(l, x)
  PROVE  \E y \in Progresses : Moves(l, y)
<1>1. PICK y \in Progresses :
        /\ Advance(l, y) /\ Faithful(y) /\ y.broken = "no"
        /\ skipped' \in Seq(Refs)
        /\ skipped = Dropped(Passed(x)) => skipped' = Dropped(Passed(y))
  BY DEF GoesOn
<1>2. Noted(listing[l], skipped) => skipped = Dropped(Passed(x))
  BY ActiveIsReady
<1>3. Noted(listing[l], skipped) => Noted(y, skipped')
  BY <1>1, <1>2 DEF Noted
<1> QED
  BY <1>1, <1>3 DEF Moves

LEMMA PageArrivesPreserves ==
  ASSUME ListingInv, NEW l \in Listings, PageArrives(l)
  PROVE  ListingInv'
<1> DEFINE x == listing[l]
<1>1. Active(l) /\ x.step = "fetching" /\ UNCHANGED <<source, pages, latest, alone>>
  BY DEF PageArrives, Active
<1>2. x \in Progresses /\ Faithful(x) /\ x.broken = "no" /\ ListingTypes
  BY <1>1, ActiveIsReady DEF ListingInv
<1>3. GoesOn(l, x)
  <2>1. CASE source = "shopify"
    <3>1. Scan(l, x)
      BY <2>1 DEF PageArrives
    <3>2. Ready(x)
      BY <1>1, <1>2 DEF Faithful, Ready
    <3> HIDE DEF x
    <3> QED
      BY <1>2, <2>1, <3>1, <3>2, ScanGoesOn
  <2>2. CASE source # "shopify"
    <3>1. source = "rest" /\ Collect(l, x)
      BY <1>2, <2>2 DEF PageArrives, ListingTypes
    <3> HIDE DEF x
    <3> QED
      BY <1>1, <1>2, <3>1, CollectGoesOn
  <2> QED
    BY <2>1, <2>2
<1>4. PICK y \in Progresses : Moves(l, y)
  BY <1>1, <1>3, GoingOnMoves
<1> QED
  BY <1>1, <1>4, MovesPreserve

\* A listing that ends here and now ends where it is.
LEMMA StopPreserves ==
  ASSUME ListingInv, NEW l \in Listings, Active(l), NEW y \in Progresses, Advance(l, y),
         y.step = "done", y.page = listing[l].page, y.index = listing[l].index,
         y.got = listing[l].got, y.limit = listing[l].limit,
         y.broken # "no" \/ y.sought # Nothing,
         skipped' = IF y.broken = "refused" THEN Append(skipped, Url(y.page)) ELSE skipped,
         UNCHANGED <<source, pages, latest, alone>>
  PROVE  ListingInv'
<1>1. /\ Faithful(listing[l])
      /\ Noted(listing[l], skipped) => skipped = Dropped(Passed(listing[l]))
      /\ skipped \in Seq(Refs)
  BY ActiveIsReady DEF ListingInv, ListingTypes, Refs
<1>2. Passed(y) = Passed(listing[l])
  BY PassedIsBefore
<1>3. Faithful(y)
  BY <1>1, <1>2 DEF Faithful, InPlace, WithinLimit
<1>4. skipped' \in Seq(Refs)
  <2>1. Url(y.page) \in Refs
    BY DEF Refs, Progresses
  <2> QED
    BY <1>1, <2>1, AppendProperties
<1>5. Noted(listing[l], skipped) => Noted(y, skipped')
  BY <1>1, <1>2 DEF Noted
<1>6. Moves(l, y)
  BY <1>3, <1>4, <1>5 DEF Moves
<1> QED
  BY <1>6, MovesPreserve

LEMMA BreakPreserves ==
  ASSUME ListingInv, NEW l \in Listings, PageLost(l) \/ PageRefused(l) \/ Abandon(l)
  PROVE  ListingInv'
<1>1. PICK how \in {"lost", "refused", "left"} :
        /\ Active(l) /\ BreakOff(l, how) /\ UNCHANGED <<source, pages, latest, alone>>
        /\ skipped' = IF how = "refused" THEN PageNoted(listing[l]) ELSE skipped
  BY DEF PageLost, PageRefused, Abandon, Active
<1> DEFINE y == [listing[l] EXCEPT !.step = "done", !.broken = how]
<1>2. listing[l] \in Progresses
  BY <1>1, ActiveIsReady
<1>3. /\ y \in Progresses /\ y.step = "done" /\ y.broken = how
      /\ y.page = listing[l].page /\ y.index = listing[l].index
      /\ y.got = listing[l].got /\ y.limit = listing[l].limit
  BY <1>2 DEF Progresses
<1>4. Advance(l, y)
  BY <1>1 DEF BreakOff
<1> HIDE DEF y
<1>5. /\ y.broken # "no"
      /\ skipped' = IF y.broken = "refused" THEN Append(skipped, Url(y.page)) ELSE skipped
  BY <1>1, <1>3 DEF PageNoted
<1> QED
  BY <1>1, <1>3, <1>4, <1>5, StopPreserves

LEMMA PullPreserves ==
  ASSUME ListingInv, NEW l \in Listings, Pull(l)
  PROVE  ListingInv'
<1> DEFINE x == listing[l]
<1>1. Active(l) /\ x.step = "yielded" /\ UNCHANGED <<source, pages, latest, alone>>
  BY DEF Pull, Active
<1>2. x \in Progresses /\ Faithful(x) /\ x.broken = "no" /\ ListingTypes
  BY <1>1, ActiveIsReady DEF ListingInv
<1>3. CASE x.sought # Nothing /\ x.sought = x.got[Len(x.got)]
  <2> DEFINE y == [x EXCEPT !.step = "done"]
  <2>1. Advance(l, y) /\ skipped' = skipped
    BY <1>3 DEF Pull
  <2>2. /\ y \in Progresses /\ y.step = "done" /\ y.sought # Nothing /\ y.broken = "no"
        /\ y.page = x.page /\ y.index = x.index /\ y.got = x.got /\ y.limit = x.limit
    BY <1>2, <1>3 DEF Progresses
  <2> HIDE DEF y
  <2> QED
    BY <1>1, <2>1, <2>2, StopPreserves
<1>4. CASE ~(x.sought # Nothing /\ x.sought = x.got[Len(x.got)])
  <2> DEFINE z == [x EXCEPT !.emitted = x.emitted + 1]
  <2>1. Scan(l, z)
    BY <1>4 DEF Pull, Resumed
  <2>2. x.emitted + 1 \in Nat
    BY <1>2 DEF Progresses
  <2>3. /\ z \in Progresses /\ z.page = x.page /\ z.index = x.index /\ z.got = x.got
        /\ z.limit = x.limit /\ z.broken = x.broken /\ z.emitted = x.emitted + 1
    BY <1>2, <2>2 DEF Progresses
  <2> HIDE DEF z
  <2>4. Passed(z) = Passed(x)
    BY <2>3, PassedIsBefore
  <2>5. source = "shopify" /\ Ready(z)
    BY <1>1, <1>2, <2>3, <2>4 DEF Faithful, Ready, InPlace, WithinLimit
  <2>6. GoesOn(l, z)
    BY <1>2, <2>1, <2>3, <2>5, ScanGoesOn
  <2>7. PICK y \in Progresses : Moves(l, y)
    BY <1>1, <2>4, <2>6, GoingOnMoves
  <2> QED
    BY <1>1, <2>7, MovesPreserve
<1> QED
  BY <1>3, <1>4

LEMMA IdlePreserves ==
  ASSUME ListingInv, UNCHANGED listingVars
  PROVE  ListingInv'
<1>1. /\ source' = source /\ pages' = pages /\ listing' = listing
      /\ skipped' = skipped /\ latest' = latest /\ alone' = alone
  BY DEF listingVars
<1>2. ListingTypes'
  BY <1>1 DEF ListingInv, ListingTypes
<1>3. YieldInv'
  <2>1. ASSUME NEW l \in Listings PROVE Faithful(listing[l])'
    <3>1. Faithful(listing[l])
      BY DEF ListingInv, YieldInv
    <3> QED
      BY <1>1, <3>1, CatalogStands DEF Faithful, InPlace, WithinLimit, Ended
  <2> QED
    BY <2>1 DEF YieldInv
<1>4. SkipInv'
  BY <1>1, CatalogStands DEF ListingInv, SkipInv, Active, Noted
<1> QED
  BY <1>2, <1>3, <1>4 DEF ListingInv

THEOREM ListingsAreFaithful == ListingSpec => []ListingInv
<1>1. ListingInv /\ [ListingNext]_listingVars => ListingInv'
  BY StartPreserves, PageArrivesPreserves, BreakPreserves, PullPreserves, IdlePreserves
     DEF ListingNext
<1> QED
  BY <1>1, InitListing, PTL DEF ListingSpec

-----------------------------------------------------------------------------
(* What listings yield and what they report *)

\* The first part of a concatenation is a prefix of it.
LEMMA PrefixOfConcat ==
  ASSUME NEW V, NEW s, NEW t, s \in Seq(V), t \in Seq(V)
  PROVE  IsPrefix(s, s \o t) /\ Len(s \o t) = Len(s) + Len(t)
<1>1. /\ s \o t \in Seq(V) /\ Len(s \o t) = Len(s) + Len(t)
      /\ Len(s) \in Nat /\ Len(t) \in Nat
  BY ConcatProperties, LenProperties
<1>2. SubSeq(s \o t, 1, Len(s)) = SubSeq(s, 1, Len(s))
  <2>1. CASE Len(s) = 0
    BY <1>1, <2>1, SubSeqEmpty
  <2>2. CASE Len(s) # 0
    <3>1. 1 \in 1..Len(s) /\ Len(s) \in 1..Len(s)
      BY <1>1, <2>2
    <3> QED
      BY <3>1, SubSeqOfConcat1
  <2> QED
    BY <2>1, <2>2
<1> QED
  BY <1>1, <1>2 DEF IsPrefix

\* The catalog is what a listing has passed over and the rest.
LEMMA WholeGoesOn ==
  ASSUME ListingTypes, NEW x, Faithful(x)
  PROVE  Passed(x) \in Seq(Records) /\ \E rest \in Seq(Records) : Whole = Passed(x) \o rest
<1>1. /\ Shelved /\ pages # <<>> /\ source \in {"shopify", "rest"}
      /\ x.page \in 1..Len(pages) /\ x.index \in 1..(Len(pages[x.page]) + 1)
      /\ source = "rest" => x.page = 1
  BY DEF ListingTypes, Shelved, Faithful, InPlace
<1>2. Passed(x) = Before(x.page, x.index) /\ Passed(x) \in Seq(Records)
  BY <1>1, PassedIsBefore, BeforeType
<1>3. CASE source = "shopify"
  <2>1. \E rest \in Seq(Records) : FlattenSeq(pages) = Before(x.page, x.index) \o rest
    BY <1>1, BeforeIsPrefix
  <2> QED
    BY <1>2, <1>3, <2>1 DEF Whole
<1>4. CASE source = "rest"
  <2> DEFINE end == Len(pages[1]) + 1
             rest == SubSeq(pages[1], x.index, end - 1)
  <2>1. 1 \in 1..Len(pages) /\ x.index \in 1..end /\ end \in x.index..end
    BY <1>1, <1>4, PageThere
  <2>2. rest \in Seq(Records) /\ Before(1, end) = Before(1, x.index) \o rest
    BY <1>1, <2>1, BeforeLater
  <2>3. Before(1, end) = pages[1]
    BY <1>1, BeforeLast
  <2>4. Whole = Passed(x) \o rest
    BY <1>1, <1>2, <1>4, <2>2, <2>3 DEF Whole
  <2> HIDE DEF rest
  <2> QED
    BY <1>2, <2>2, <2>4
<1> QED
  BY <1>1, <1>3, <1>4

LEMMA FaithfulYields ==
  ASSUME ListingTypes, NEW x, x \in Progresses, Faithful(x)
  PROVE  LET most == IF x.limit # NoLimit /\ x.limit < Len(Kept(Whole))
                     THEN x.limit ELSE Len(Kept(Whole))
         IN /\ IsPrefix(x.got, Kept(Whole)) /\ Len(x.got) <= most
            /\ x.step = "done" /\ x.broken = "no" /\ x.sought = Nothing => Len(x.got) = most
<1>1. PICK rest \in Seq(Records) : Whole = Passed(x) \o rest
  BY WholeGoesOn
<1>2. Passed(x) \in Seq(Records)
  BY WholeGoesOn
<1> DEFINE kept == Kept(Passed(x))
           more == Kept(rest)
<1>3. Kept(Whole) = kept \o more
  <2> DEFINE r == Passed(x)
  <2>1. r \in Seq(Records) /\ rest \in Seq(Records)
    BY <1>2
  <2> HIDE DEF r
  <2>2. Kept(r \o rest) = Kept(r) \o Kept(rest)
    BY <2>1, SieveConcat
  <2> QED
    BY <1>1, <2>2 DEF r
<1>4. kept \in Seq(Ids) /\ more \in Seq(Ids) /\ x.got = kept
  BY <1>2, SieveTypes DEF Faithful
<1>5. Passed(x) = Whole => Kept(Whole) = kept
  OBVIOUS
<1> HIDE DEF kept, more
<1>6. /\ IsPrefix(kept, kept \o more) /\ Len(kept \o more) = Len(kept) + Len(more)
      /\ Len(kept) \in Nat /\ Len(more) \in Nat
  BY <1>4, PrefixOfConcat, LenProperties
<1> DEFINE all == Len(Kept(Whole))
           n == Len(x.got)
<1>7. IsPrefix(x.got, Kept(Whole)) /\ all \in Nat /\ n \in Nat /\ n <= all
  BY <1>3, <1>4, <1>6
<1>8. x.limit \in Nat \cup {NoLimit} /\ (x.limit = NoLimit \/ n <= x.limit)
  BY ListingAssumption DEF Progresses, Faithful, WithinLimit
<1>9. x.step = "done" /\ x.broken = "no" /\ x.sought = Nothing =>
        (x.limit # NoLimit /\ n = x.limit) \/ n = all
  BY <1>4, <1>5 DEF Faithful, Ended
<1> HIDE DEF all, n
<1>10. IsPrefix(x.got, Kept(Whole)) /\ n <= IF x.limit # NoLimit /\ x.limit < all THEN x.limit ELSE all
  BY <1>7, <1>8
<1>11. x.step = "done" /\ x.broken = "no" /\ x.sought = Nothing =>
         n = IF x.limit # NoLimit /\ x.limit < all THEN x.limit ELSE all
  BY <1>7, <1>8, <1>9
<1> QED
  BY <1>10, <1>11 DEF all, n

\* Whatever catalog, limits and overlapping listings there are, a listing yields
\* the valid products in order, up to its limit, and misses none when it ends of
\* itself (listProducts of both connectors).
THEOREM ListingsYieldTheValidProducts == ListingSpec => []YieldsAreTheValidProducts
<1>1. ListingInv => YieldsAreTheValidProducts
  <2> SUFFICES ASSUME ListingInv, NEW l \in Listings
               PROVE  LET x == listing[l]
                          most == IF x.limit # NoLimit /\ x.limit < Len(Kept(Whole))
                                  THEN x.limit ELSE Len(Kept(Whole))
                      IN /\ IsPrefix(x.got, Kept(Whole)) /\ Len(x.got) <= most
                         /\ x.step = "done" /\ x.broken = "no" /\ x.sought = Nothing =>
                              Len(x.got) = most
    BY DEF YieldsAreTheValidProducts
  <2>1. ListingTypes /\ listing[l] \in Progresses /\ Faithful(listing[l])
    BY DEF ListingInv, ListingTypes, YieldInv
  <2> QED
    BY <2>1, FaithfulYields
<1> QED
  BY <1>1, ListingsAreFaithful, PTL

\* Whatever is listed, the report of the latest listing that began alone names
\* what it dropped, in order, and then the page refused if it ended by a refusal,
\* and nothing else (`skipped` of both connectors).
THEOREM SkipsAreAllReported == ListingSpec => []SkipsAreReported
<1>1. ListingInv => SkipsAreReported
  BY DEF ListingInv, SkipInv, Noted, SkipsAreReported
<1> QED
  BY <1>1, ListingsAreFaithful, PTL
=============================================================================
