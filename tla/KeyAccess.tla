----------------------------- MODULE KeyAccess ------------------------------
(***************************************************************************)
(* Who may read a job: the API keys of packages/security/src/api-key-auth  *)
(* and the read route GET /v1/tryons/[id] with job-access.ts.  A key is    *)
(* its secret; hashing keeps distinct secrets distinct.                    *)
(***************************************************************************)
EXTENDS WireErrors

CONSTANTS Tenants, \* tenant ids the store knows
          Secrets, \* the secrets of the keys minted
          Blank,   \* a header without a bearer token
          Filed,   \* [Tenants -> the key records the store files under it]
          Never,   \* the expiry of a key that has none
          Garbled  \* an expiry Date.parse cannot read

TryOnScope == "tryon"

KeyRecord == [secret : Secrets, tenant : Tenants, scopes : SUBSET {TryOnScope, "other"},
              expires : Nat \cup {Never, Garbled}]

\* createApiKey, with what the caller may leave out.
CreateApiKey(secret, tenant, scopes, expires) ==
  [secret |-> secret, tenant |-> tenant, scopes |-> scopes, expires |-> expires]

ASSUME KeyAssumption ==
  /\ Blank \notin Secrets
  /\ Never \notin Nat /\ Garbled \notin Nat /\ Never # Garbled
  /\ Filed \in [Tenants -> SUBSET KeyRecord]

Expired(record, now) ==
  /\ record.expires # Never
  /\ record.expires = Garbled \/ now >= record.expires

\* Mutant: the store's filing is trusted for the tenant.
VerifyAnyTenant(secret, record, tenant, now) ==
  IF secret # record.secret THEN "mismatch"
  ELSE IF Expired(record, now) THEN "expired"
  ELSE IF TryOnScope \notin record.scopes THEN "missing-scope" ELSE "ok"

VerifyApiKey(secret, record, tenant, now) ==
  IF secret = Blank THEN "malformed"
  ELSE IF secret # record.secret THEN "mismatch"
  ELSE IF record.tenant # tenant THEN "wrong-tenant"
  ELSE IF Expired(record, now) THEN "expired"
  ELSE IF TryOnScope \notin record.scopes THEN "missing-scope" ELSE "ok"

\* getTenant: an unknown tenant has no keys.
ApiKeyRecords(tenant) == IF tenant \in Tenants THEN Filed[tenant] ELSE {}

CanReadJob(secret, job, now) ==
  /\ secret # Blank
  /\ \E record \in ApiKeyRecords(job.tenant) :
       VerifyApiKey(secret, record, job.tenant, now) = "ok"

NotFound == [http |-> 404, body |-> "not_found"]

\* Mutant: a key that may not read the job is told so.
ReadReplyTelling(secret, job, now) ==
  IF secret = Blank THEN ErrorReply("UNAUTHORIZED")
  ELSE IF job.status = "absent" THEN NotFound
  ELSE IF ~CanReadJob(secret, job, now) THEN ErrorReply("UNAUTHORIZED")
  ELSE [http |-> 200, body |-> job.status]

\* GET /v1/tryons/[id]
ReadReply(secret, job, now) ==
  IF secret = Blank THEN ErrorReply("UNAUTHORIZED")
  ELSE IF job.status = "absent" \/ ~CanReadJob(secret, job, now) THEN NotFound
  ELSE [http |-> 200, body |-> job.status]

\* What entitles a caller to a job, said without the route's code: a live key
\* of the job's own tenant with the scope.
Entitled(secret, job, now) ==
  \E t \in Tenants : \E record \in Filed[t] :
    /\ record.secret = secret /\ record.tenant = job.tenant /\ t = job.tenant
    /\ TryOnScope \in record.scopes
    /\ record.expires = Never \/ (record.expires \in Nat /\ now < record.expires)
=============================================================================
