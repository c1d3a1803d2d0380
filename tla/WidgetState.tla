---------------------------- MODULE WidgetState ----------------------------
(***************************************************************************)
(* The pure machine of packages/widget/src/state.ts with the recovery      *)
(* table of error-copy.ts and the file gate of validate-file.ts.  A result *)
(* url is named by the job it belongs to, a photo by the shopper's file.   *)
(***************************************************************************)
EXTENDS WireErrors

CONSTANTS Photos, \* files a shopper may choose
          None    \* the absence of an optional field

ASSUME PhotosAssumption == None \notin Photos /\ 0 \notin Photos

Retryable == {"INVALID_INPUT", "PAYLOAD_TOO_LARGE", "RATE_LIMITED", "PROVIDER_ERROR"}

Names == {"idle", "consent", "upload", "uploading", "processing", "result", "error"}

Closed == [name |-> "idle", consent |-> FALSE, photo |-> None,
           job |-> 0, result |-> 0, error |-> None]

\* Where an event leads, and the screens on which it is heard.
Leads == [OPEN |-> "consent", CONSENT_ACCEPT |-> "upload", FILE_STAGED |-> "upload",
          FILE_CLEARED |-> "upload", FILE_REJECTED |-> "error", SUBMIT |-> "uploading",
          JOB_CREATED |-> "processing", JOB_SUCCEEDED |-> "result", JOB_FAILED |-> "error",
          RETRY |-> "upload"]
Edges ==
  {<<"idle", "OPEN">>, <<"consent", "CONSENT_ACCEPT">>, <<"upload", "FILE_STAGED">>,
   <<"upload", "FILE_CLEARED">>, <<"upload", "FILE_REJECTED">>, <<"upload", "SUBMIT">>,
   <<"uploading", "JOB_CREATED">>, <<"uploading", "JOB_FAILED">>,
   <<"processing", "JOB_SUCCEEDED">>, <<"processing", "JOB_FAILED">>,
   <<"result", "RETRY">>, <<"error", "RETRY">>}

Event(type, value) == [type |-> type, value |-> value]

Heard(s, e) ==
  /\ <<s.name, e.type>> \in Edges
  /\ e.type = "FILE_STAGED" => s.consent
  /\ e.type = "SUBMIT" => s.photo # None

\* Closing forgets everything, and so does a retry whose consent is gone.
Closes(s, e) ==
  \/ e.type = "CLOSE" /\ s.name # "idle"
  \/ e.type = "CONSENT_DECLINE" /\ s.name = "consent"
  \/ e.type = "RETRY" /\ s.name = "error" /\ ~s.consent

\* What an event writes over the fields it concerns.
Follow(s, e) ==
  [name    |-> Leads[e.type],
   consent |-> s.consent \/ e.type = "CONSENT_ACCEPT",
   photo   |-> IF e.type = "FILE_STAGED" THEN e.value
               ELSE IF e.type \in {"FILE_CLEARED", "FILE_REJECTED"} THEN None ELSE s.photo,
   job     |-> IF e.type = "JOB_CREATED" THEN e.value
               ELSE IF e.type = "RETRY" THEN 0 ELSE s.job,
   result  |-> IF e.type = "JOB_SUCCEEDED" THEN e.value
               ELSE IF e.type = "RETRY" THEN 0 ELSE s.result,
   error   |-> IF e.type \in {"JOB_FAILED", "FILE_REJECTED"} THEN e.value
               ELSE IF e.type \in {"RETRY", "FILE_CLEARED"} THEN None ELSE s.error]

\* Mutant: closing keeps the staged photo for the next session.
TransitionKeepingPhoto(s, e) ==
  IF Closes(s, e) THEN [s EXCEPT !.name = "idle", !.consent = FALSE]
  ELSE IF Heard(s, e) THEN Follow(s, e) ELSE s

\* An event with no edge from the present screen changes nothing.
Transition(s, e) ==
  IF Closes(s, e) THEN Closed ELSE IF Heard(s, e) THEN Follow(s, e) ELSE s

\* The way on from a screen; submitting is disabled until a photo is staged.
Onward(s) ==
  {type \in {"OPEN", "CONSENT_ACCEPT", "SUBMIT"} :
     \/ s.name = "idle" /\ type = "OPEN"
     \/ s.name = "consent" /\ type = "CONSENT_ACCEPT"
     \/ s.name = "upload" /\ s.photo # None /\ type = "SUBMIT"}

\* The result's "try another photo" and the error's recovery.
Recovery(s) ==
  IF s.name = "result" \/ (s.name = "error" /\ s.error \in Retryable) THEN {"RETRY"} ELSE {}

\* The controls of a screen; every sheet has a close button, and Escape.
Offered(s) == Onward(s) \cup Recovery(s) \cup (IF s.name = "idle" THEN {} ELSE {"CLOSE"})

\* Mutant: the rejected file itself is passed for its error code.
FileVerdictAsPhoto(allowedType, withinSize, photo) ==
  Event(IF allowedType /\ withinSize THEN "FILE_STAGED" ELSE "FILE_REJECTED", photo)

\* validateChosenFile: the type is judged before the size.
FileVerdict(allowedType, withinSize, photo) ==
  IF ~allowedType THEN Event("FILE_REJECTED", "INVALID_INPUT")
  ELSE IF ~withinSize THEN Event("FILE_REJECTED", "PAYLOAD_TOO_LARGE")
  ELSE Event("FILE_STAGED", photo)
=============================================================================
