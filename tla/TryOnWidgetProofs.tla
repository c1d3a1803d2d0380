------------------------- MODULE TryOnWidgetProofs --------------------------
(***************************************************************************)
(* Theorems about TryOnWidget: what the widget holds before consent, the   *)
(* guard against a second run, whose result is on screen, and the bag.     *)
(***************************************************************************)
EXTENDS TryOnWidget, FoldLemmas

Screens == [name : Names, consent : BOOLEAN, photo : Photos \cup {None},
            job : Run \cup {0}, result : Run \cup {0}, error : ErrorCode \cup {None}]

\* NoPhotoBeforeConsent, said of any screen.
Private(w) ==
  /\ w.consent <=> w.name \notin {"idle", "consent"}
  /\ w.photo # None => w.consent
  /\ w.name \in {"uploading", "processing", "result"} => w.photo # None
  /\ w.name \in {"idle", "consent"} => w.job = 0 /\ w.result = 0 /\ w.error = None

\* The events that hosts and shoppers send.
Sent(e) ==
  \/ e.type \in {"OPEN", "CONSENT_ACCEPT", "SUBMIT", "RETRY", "CLOSE"} /\ e.value = None
  \/ e.type = "FILE_STAGED" /\ e.value \in Photos
  \/ e.type \in {"FILE_REJECTED", "JOB_FAILED"} /\ e.value \in ErrorCode
  \/ e.type \in {"JOB_CREATED", "JOB_SUCCEEDED"} /\ e.value \in Run

LEMMA KnownCodes == {"PROVIDER_ERROR", "INVALID_INPUT", "PAYLOAD_TOO_LARGE"} \subseteq ErrorCode
BY DEF ErrorCode, HttpStatus

LEMMA ClosedIsPrivate == Closed \in Screens /\ Private(Closed)
BY DEF Closed, Screens, Private, Names

\* An event takes a private screen to a private screen.
LEMMA TransitionKeeps ==
  ASSUME NEW w \in Screens, Private(w), NEW e, Sent(e)
  PROVE  Transition(w, e) \in Screens /\ Private(Transition(w, e))
<1>1. CASE Closes(w, e)
  BY <1>1, ClosedIsPrivate DEF Transition
<1>2. CASE ~Closes(w, e) /\ ~Heard(w, e)
  BY <1>2 DEF Transition
<1>3. CASE ~Closes(w, e) /\ Heard(w, e)
  <2>1. Transition(w, e) = Follow(w, e)
    BY <1>3 DEF Transition
  <2>2. <<w.name, e.type>> \in Edges
    BY <1>3 DEF Heard
  <2>3. CASE e.type = "OPEN"
    <3>1. /\ w.name = "idle" /\ ~w.consent /\ w.photo = None
          /\ w.job = 0 /\ w.result = 0 /\ w.error = None
      BY <2>2, <2>3 DEF Edges, Screens, Private
    <3>2. Follow(w, e).name = "consent"
      BY <2>3 DEF Follow, Leads
    <3>5. Follow(w, e).consent = FALSE
      BY <2>3, <3>1 DEF Follow
    <3>6. Follow(w, e).photo = None
      BY <2>3, <3>1 DEF Follow
    <3>7. Follow(w, e).job = 0 /\ Follow(w, e).result = 0 /\ Follow(w, e).error = None
      BY <2>3, <3>1 DEF Follow
    <3>3. Private(Follow(w, e))
      BY <3>2, <3>5, <3>6, <3>7 DEF Private
    <3>4. Follow(w, e) \in Screens
      BY <3>2, <3>5, <3>6, <3>7 DEF Follow, Screens, Names
    <3> QED
      BY <2>1, <3>3, <3>4
  <2>4. CASE e.type = "CONSENT_ACCEPT"
    <3>1. w.name = "consent" /\ ~w.consent /\ w.photo = None
      BY <2>2, <2>4 DEF Edges, Screens, Private
    <3>2. Follow(w, e).name = "upload"
      BY <2>4 DEF Follow, Leads
    <3>5. Follow(w, e).consent
      BY <2>4 DEF Follow
    <3>6. Follow(w, e).photo = None
      BY <2>4, <3>1 DEF Follow
    <3>3. Private(Follow(w, e))
      BY <3>2, <3>5, <3>6 DEF Private
    <3>4. Follow(w, e) \in Screens
      BY <2>4, <3>1 DEF Follow, Leads, Screens, Names
    <3> QED
      BY <2>1, <3>3, <3>4
  <2>5. CASE e.type = "FILE_STAGED"
    BY <2>1, <2>2, <2>5 DEF Sent, Follow, Leads, Edges, Screens, Private, Names
  <2>6. CASE e.type = "FILE_REJECTED"
    BY <2>1, <2>2, <2>6 DEF Sent, Follow, Leads, Edges, Screens, Private, Names
  <2>7. CASE e.type = "SUBMIT"
    BY <1>3, <2>1, <2>2, <2>7 DEF Heard, Sent, Follow, Leads, Edges, Screens, Private, Names
  <2>8. CASE e.type \in {"JOB_CREATED", "JOB_SUCCEEDED"}
    BY <2>1, <2>2, <2>8 DEF Sent, Follow, Leads, Edges, Screens, Private, Names
  <2>9. CASE e.type = "JOB_FAILED"
    BY <2>1, <2>2, <2>9 DEF Sent, Follow, Leads, Edges, Screens, Private, Names
  <2>10. CASE e.type = "RETRY"
    BY <2>1, <2>2, <2>10 DEF Sent, Follow, Leads, Edges, Screens, Private, Names
  <2> QED
    BY <2>2, <2>3, <2>4, <2>5, <2>6, <2>7, <2>8, <2>9, <2>10 DEF Sent, Edges
<1> QED
  BY <1>1, <1>2, <1>3

\* A shopper's event never leads to processing or to a result.
LEMMA ShopperEvents ==
  ASSUME NEW w, NEW e,
         e.type \in {"OPEN", "CONSENT_ACCEPT", "SUBMIT", "RETRY", "CLOSE", "FILE_STAGED", "FILE_REJECTED"}
  PROVE  \/ Transition(w, e) = w
         \/ Transition(w, e).name \notin {"processing", "result"}
<1>1. Closed.name = "idle"
  BY DEF Closed
<1>2. Follow(w, e).name = Leads[e.type]
  BY DEF Follow
<1>3. Leads[e.type] \in {"consent", "upload", "uploading", "error", "idle"} \/ e.type = "CLOSE"
  BY DEF Leads
<1>4. e.type = "CLOSE" => ~Heard(w, e)
  BY DEF Heard, Edges
<1> QED
  BY <1>1, <1>2, <1>3, <1>4 DEF Transition

\* What the events of a run do to a screen.
LEMMA CreatedEvent ==
  ASSUME NEW w, NEW r
  PROVE  \/ Transition(w, Event("JOB_CREATED", r)) = w
         \/ /\ Transition(w, Event("JOB_CREATED", r)).name = "processing"
            /\ Transition(w, Event("JOB_CREATED", r)).job = r
<1> DEFINE e == Event("JOB_CREATED", r)
<1>1. e.type = "JOB_CREATED" /\ e.value = r
  BY DEF Event
<1>2. ~Closes(w, e)
  BY <1>1 DEF Closes
<1>3. Follow(w, e).name = "processing" /\ Follow(w, e).job = r
  BY <1>1 DEF Follow, Leads
<1> QED
  BY <1>2, <1>3 DEF Transition

LEMMA SucceededEvent ==
  ASSUME NEW w, NEW r
  PROVE  \/ /\ Transition(w, Event("JOB_SUCCEEDED", r)) = w
            /\ w.name # "processing"
         \/ /\ w.name = "processing"
            /\ Transition(w, Event("JOB_SUCCEEDED", r)).name = "result"
            /\ Transition(w, Event("JOB_SUCCEEDED", r)).result = r
            /\ Transition(w, Event("JOB_SUCCEEDED", r)).job = w.job
<1> DEFINE e == Event("JOB_SUCCEEDED", r)
<1>1. e.type = "JOB_SUCCEEDED" /\ e.value = r
  BY DEF Event
<1>2. ~Closes(w, e)
  BY <1>1 DEF Closes
<1>3. Heard(w, e) <=> w.name = "processing"
  BY <1>1 DEF Heard, Edges
<1>4. Follow(w, e).name = "result" /\ Follow(w, e).result = r /\ Follow(w, e).job = w.job
  BY <1>1 DEF Follow, Leads
<1> QED
  BY <1>2, <1>3, <1>4 DEF Transition

LEMMA FailedEvent ==
  ASSUME NEW w, NEW code
  PROVE  \/ /\ Transition(w, Event("JOB_FAILED", code)) = w
            /\ w.name # "processing"
         \/ Transition(w, Event("JOB_FAILED", code)).name = "error"
<1> DEFINE e == Event("JOB_FAILED", code)
<1>1. e.type = "JOB_FAILED" /\ e.value = code
  BY DEF Event
<1>2. ~Closes(w, e)
  BY <1>1 DEF Closes
<1>3. w.name = "processing" => Heard(w, e)
  BY <1>1 DEF Heard, Edges
<1>4. Follow(w, e).name = "error"
  BY <1>1 DEF Follow, Leads
<1> QED
  BY <1>2, <1>3, <1>4 DEF Transition

-----------------------------------------------------------------------------
(* The inductive invariant *)

Drives(r) == Active(r) /\ runs[r].here

\* The guard is up exactly while a run drives the widget, and one does at most.
GuardInv ==
  /\ \A r, s \in Run : Drives(r) /\ Drives(s) => r = s
  /\ running <=> \E r \in Run : Drives(r)

\* In processing the job shown is polled by the run that drives the widget.
ProcessingInv ==
  widget.name = "processing" =>
    /\ widget.job \in Run
    /\ runs[widget.job].step \in {"polling", "waiting"}
    /\ runs[widget.job].here

\* A run that has not created its job has none.
JobsInv == \A r \in Run : runs[r].step \in {"none", "reading", "creating"} => jobs[r] = "none"

IInv ==
  /\ TypeOK /\ Private(widget)
  /\ GuardInv /\ ProcessingInv /\ JobsInv /\ ResultIsOfTheJob

LEMMA InitOK == Init => IInv
<1> SUFFICES ASSUME Init PROVE IInv
  OBVIOUS
<1>1. Closed \in Screens /\ Private(Closed) /\ Closed.name = "idle"
  BY ClosedIsPrivate DEF Closed
<1>2. runs \in [Run -> [step : Working \cup {"none", "over"}, polls : 0..MaxPolls, here : BOOLEAN]]
  <2>1. NotStarted \in [step : Working \cup {"none", "over"}, polls : 0..MaxPolls, here : BOOLEAN]
    BY WidgetAssumption DEF NotStarted
  <2> QED
    BY <2>1 DEF Init
<1>3. TypeOK
  BY <1>1, <1>2 DEF Init, TypeOK, Screens
<1>4. \A r \in Run : ~Drives(r)
  BY DEF Init, Drives, Active, NotStarted, Working
<1>5. GuardInv
  BY <1>4 DEF GuardInv, Init
<1>6. ProcessingInv /\ ResultIsOfTheJob
  BY <1>1 DEF Init, ProcessingInv, ResultIsOfTheJob
<1>7. JobsInv
  BY DEF Init, JobsInv
<1> QED
  BY <1>1, <1>3, <1>5, <1>6, <1>7 DEF IInv, Init

\* A shopper's event, with or without a run that begins at it.
LEMMA TouchKeeps ==
  ASSUME IInv, NEW w \in Screens, Private(w), NEW looks,
         w = widget \/ w.name \notin {"processing", "result"},
         Touch(w, looks)
  PROVE  IInv'
<1> USE DEF IInv
<1>1. CASE UNCHANGED <<running, runs>>
  <2>1. widget' = w /\ UNCHANGED <<host, product, page, jobs, running, runs>>
    BY <1>1 DEF Touch
  <2>2. TypeOK' /\ Private(widget)'
    BY <2>1 DEF TypeOK, Screens, Private
  <2>3. GuardInv' /\ JobsInv'
    BY <2>1 DEF GuardInv, JobsInv, Drives, Active
  <2>4. ProcessingInv' /\ ResultIsOfTheJob'
    BY <2>1 DEF ProcessingInv, ResultIsOfTheJob
  <2> QED
    BY <2>2, <2>3, <2>4
<1>2. CASE MayStart(w) /\ Start
  <2>1. PICK r \in Fresh :
          /\ running' = TRUE
          /\ runs' = [runs EXCEPT ![r] =
                       [step |-> IF host = "shop" THEN "reading" ELSE "creating",
                        polls |-> 0, here |-> TRUE]]
    BY <1>2 DEF Start
  <2>2. /\ widget' = w /\ UNCHANGED <<host, product, page, jobs>>
        /\ r \in Run /\ runs[r].step = "none"
        /\ w.name = "uploading" /\ ~running
    BY <1>2, <2>1 DEF Touch, MayStart, Fresh
  <2>3. /\ runs'[r].step \in {"reading", "creating"}
        /\ runs'[r].polls = 0 /\ runs'[r].here
        /\ \A s \in Run \ {r} : runs'[s] = runs[s]
    BY <2>1, <2>2 DEF TypeOK
  <2>4. runs' \in [Run -> [step : Working \cup {"none", "over"}, polls : 0..MaxPolls, here : BOOLEAN]]
    BY <2>1, <2>2, WidgetAssumption DEF TypeOK, Working
  <2>5. TypeOK' /\ Private(widget)'
    BY <2>1, <2>2, <2>4 DEF TypeOK, Screens, Private
  <2>6. \A s \in Run : Drives(s)' <=> s = r
    <3>1. \A s \in Run : ~Drives(s)
      BY <2>2 DEF GuardInv
    <3>2. Drives(r)'
      BY <2>3 DEF Drives, Active, Working
    <3>3. \A s \in Run \ {r} : ~Drives(s)'
      BY <2>3, <3>1 DEF Drives, Active
    <3> QED
      BY <3>2, <3>3
  <2>7. GuardInv'
    BY <2>1, <2>2, <2>6 DEF GuardInv
  <2>8. ProcessingInv' /\ ResultIsOfTheJob'
    BY <2>2 DEF ProcessingInv, ResultIsOfTheJob
  <2>9. JobsInv'
    BY <2>2, <2>3 DEF JobsInv
  <2> QED
    BY <2>5, <2>7, <2>8, <2>9
<1> QED
  BY <1>1, <1>2 DEF Touch

\* Run r, not over yet, drives its widget to w and goes on to a later step.
LEMMA SaysKeeps ==
  ASSUME IInv, NEW r \in Run, Active(r), NEW w \in Screens, Private(w),
         NEW step \in {"creating", "polling", "waiting", "over"},
         Says(r, w, step), UNCHANGED <<host, product, page>>,
         jobs' \in [Run -> Outcomes \cup {"none", "pending"}],
         \A s \in Run \ {r} : jobs'[s] = jobs[s],
         step = "creating" => jobs'[r] = "none",
         jobs[r] = "succeeded" => jobs'[r] = "succeeded",
         runs[r].here /\ w.name = "processing" => w.job = r /\ step \in {"polling", "waiting"},
         runs[r].here /\ w.name = "result" =>
           w.result = w.job /\ w.job \in Run /\ jobs'[w.job] = "succeeded"
  PROVE  IInv'
<1> USE DEF IInv
<1>1. /\ runs'[r].step = step /\ runs'[r].here = runs[r].here
      /\ \A s \in Run \ {r} : runs'[s] = runs[s]
      /\ runs' \in [Run -> [step : Working \cup {"none", "over"}, polls : 0..MaxPolls, here : BOOLEAN]]
  <2>1. runs' = [runs EXCEPT ![r] = [@ EXCEPT !.step = step]]
    BY DEF Says
  <2>2. runs[r] \in [step : Working \cup {"none", "over"}, polls : 0..MaxPolls, here : BOOLEAN]
    BY DEF TypeOK
  <2>3. step \in Working \cup {"none", "over"}
    BY DEF Working
  <2>4. [runs[r] EXCEPT !.step = step] \in [step : Working \cup {"none", "over"}, polls : 0..MaxPolls, here : BOOLEAN]
    BY <2>2, <2>3
  <2>5. runs' = [runs EXCEPT ![r] = [runs[r] EXCEPT !.step = step]]
    BY <2>1 DEF TypeOK
  <2> QED
    BY <2>2, <2>4, <2>5 DEF TypeOK
<1>2. JobsInv'
  BY <1>1 DEF JobsInv
<1>3. CASE ~runs[r].here
  <2>1. widget' = widget /\ running' = running
    BY <1>3 DEF Says
  <2>2. \A s \in Run : Drives(s)' <=> Drives(s)
    <3>1. ~Drives(r) /\ ~Drives(r)'
      BY <1>1, <1>3 DEF Drives
    <3>2. \A s \in Run \ {r} : Drives(s)' <=> Drives(s)
      BY <1>1 DEF Drives, Active
    <3> QED
      BY <3>1, <3>2
  <2>3. GuardInv'
    BY <2>1, <2>2 DEF GuardInv
  <2>4. ProcessingInv'
    BY <1>1, <1>3, <2>1 DEF ProcessingInv
  <2>5. ResultIsOfTheJob'
    BY <2>1 DEF ResultIsOfTheJob
  <2>6. TypeOK' /\ Private(widget)'
    BY <1>1, <2>1 DEF TypeOK, Private
  <2> QED
    BY <1>2, <2>3, <2>4, <2>5, <2>6
<1>4. CASE runs[r].here
  <2>1. widget' = w /\ running' = IF step = "over" THEN FALSE ELSE running
    BY <1>4 DEF Says
  <2>2. Drives(r) /\ running
    BY <1>4 DEF Drives, GuardInv
  <2>3. \A s \in Run : Drives(s)' <=> s = r /\ step # "over"
    <3>1. \A s \in Run \ {r} : ~Drives(s)
      BY <2>2 DEF GuardInv
    <3>2. \A s \in Run \ {r} : ~Drives(s)'
      BY <1>1, <3>1 DEF Drives, Active
    <3>3. Drives(r)' <=> step # "over"
      BY <1>1, <1>4 DEF Drives, Active, Working
    <3> QED
      BY <3>2, <3>3
  <2>4. GuardInv'
    BY <2>1, <2>2, <2>3 DEF GuardInv
  <2>5. ProcessingInv'
    BY <1>1, <1>4, <2>1 DEF ProcessingInv
  <2>6. ResultIsOfTheJob'
    BY <1>4, <2>1 DEF ResultIsOfTheJob
  <2>7. running' \in BOOLEAN
    BY <2>1 DEF TypeOK
  <2>8. TypeOK' /\ Private(widget)'
    BY <1>1, <2>1, <2>7 DEF TypeOK, Screens, Private
  <2> QED
    BY <1>2, <2>4, <2>5, <2>6, <2>8
<1> QED
  BY <1>3, <1>4

\* A poll without an answer, and the end of a wait, only move the run.
LEMMA PauseKeeps ==
  ASSUME IInv, NEW r \in Run, runs[r].step \in {"polling", "waiting"},
         UNCHANGED <<host, product, page, widget, running, jobs>>,
         runs' \in [Run -> [step : Working \cup {"none", "over"}, polls : 0..MaxPolls, here : BOOLEAN]],
         runs'[r].step \in {"polling", "waiting"}, runs'[r].here = runs[r].here,
         \A s \in Run \ {r} : runs'[s] = runs[s]
  PROVE  IInv'
<1> USE DEF IInv
<1>1. \A s \in Run : Drives(s)' <=> Drives(s)
  BY DEF Drives, Active, Working
<1>2. TypeOK' /\ Private(widget)'
  BY DEF TypeOK, Private
<1>3. GuardInv'
  BY <1>1 DEF GuardInv
<1>4. ProcessingInv'
  BY DEF ProcessingInv
<1>5. JobsInv' /\ ResultIsOfTheJob'
  BY DEF JobsInv, ResultIsOfTheJob
<1> QED
  BY <1>2, <1>3, <1>4, <1>5

\* While a run drives the widget, the job in processing is its own.
LEMMA OwnJob ==
  ASSUME IInv, NEW r \in Run, Active(r), runs[r].here, widget.name = "processing"
  PROVE  widget.job = r /\ runs[r].step \in {"polling", "waiting"}
BY DEF IInv, GuardInv, ProcessingInv, Drives, Active, Working

LEMMA FailedKeeps ==
  ASSUME IInv, NEW r \in Run, Active(r), NEW code \in ErrorCode,
         Says(r, Failed(code), "over"), UNCHANGED <<host, product, page, jobs>>
  PROVE  IInv'
<1> DEFINE w == Failed(code)
<1>1. widget \in Screens /\ Private(widget)
  BY DEF IInv, TypeOK, Screens
<1>2. Sent(Event("JOB_FAILED", code))
  BY DEF Sent, Event
<1>3. w \in Screens /\ Private(w)
  BY <1>1, <1>2, TransitionKeeps DEF Failed
<1>4. (w = widget /\ widget.name # "processing") \/ w.name = "error"
  BY FailedEvent DEF Failed
<1>5. w.name = "result" => w.result = w.job /\ w.job \in Run /\ jobs'[w.job] = "succeeded"
  BY <1>4 DEF IInv, ResultIsOfTheJob
<1>6. jobs' \in [Run -> Outcomes \cup {"none", "pending"}]
  BY DEF IInv, TypeOK
<1> HIDE DEF w
<1> QED
  BY <1>3, <1>4, <1>5, <1>6, SaysKeeps DEF w

LEMMA SettledScreen ==
  ASSUME NEW w \in Screens, Private(w), NEW r \in Run, NEW status
  PROVE  /\ Settled(w, r, status) \in Screens /\ Private(Settled(w, r, status))
         /\ Settled(w, r, status).name # "processing"
         /\ Settled(w, r, status).name = "result" =>
              \/ Settled(w, r, status) = w
              \/ /\ w.name = "processing" /\ status = "succeeded"
                 /\ Settled(w, r, status).result = r
                 /\ Settled(w, r, status).job = w.job
<1>1. CASE status = "succeeded"
  <2>1. Settled(w, r, status) = Transition(w, Event("JOB_SUCCEEDED", r))
    BY <1>1 DEF Settled
  <2>2. Sent(Event("JOB_SUCCEEDED", r))
    BY DEF Sent, Event
  <2> QED
    BY <1>1, <2>1, <2>2, TransitionKeeps, SucceededEvent
<1>2. CASE status # "succeeded"
  <2>1. Settled(w, r, status) = Transition(w, Event("JOB_FAILED", "PROVIDER_ERROR"))
    BY <1>2 DEF Settled
  <2>2. Sent(Event("JOB_FAILED", "PROVIDER_ERROR"))
    BY KnownCodes DEF Sent, Event
  <2> QED
    BY <2>1, <2>2, TransitionKeeps, FailedEvent
<1> QED
  BY <1>1, <1>2

LEMMA PolledKeeps ==
  ASSUME IInv, NEW r \in Run, Polled(r)
  PROVE  IInv'
<1> DEFINE w == Settled(widget, r, jobs[r])
<1>1. widget \in Screens /\ Private(widget) /\ Active(r)
  BY DEF IInv, TypeOK, Screens, Polled, Active, Working
<1>2. /\ w \in Screens /\ Private(w) /\ w.name # "processing"
      /\ w.name = "result" =>
           \/ w = widget
           \/ /\ widget.name = "processing" /\ jobs[r] = "succeeded"
              /\ w.result = r /\ w.job = widget.job
  BY <1>1, SettledScreen
<1>3. Says(r, w, "over") /\ UNCHANGED <<host, product, page, jobs>>
  BY DEF Polled
<1> HIDE DEF w
<1>4. runs[r].here /\ w.name = "result" =>
        w.result = w.job /\ w.job \in Run /\ jobs'[w.job] = "succeeded"
  BY <1>1, <1>2, <1>3, OwnJob DEF IInv, ResultIsOfTheJob
<1>5. jobs' \in [Run -> Outcomes \cup {"none", "pending"}]
  BY <1>3 DEF IInv, TypeOK
<1> QED
  BY <1>1, <1>2, <1>3, <1>4, <1>5, SaysKeeps

LEMMA CreatedKeeps ==
  ASSUME IInv, NEW r \in Run, Created(r)
  PROVE  IInv'
<1> DEFINE w == Transition(widget, Event("JOB_CREATED", r))
<1>1. widget \in Screens /\ Private(widget) /\ Active(r) /\ runs[r].step = "creating"
  BY DEF IInv, TypeOK, Screens, Created, Active, Working
<1>2. jobs[r] = "none"
  BY <1>1 DEF IInv, JobsInv
<1>3. Sent(Event("JOB_CREATED", r))
  BY DEF Sent, Event
<1>4. w \in Screens /\ Private(w)
  BY <1>1, <1>3, TransitionKeeps
<1>5. w = widget \/ (w.name = "processing" /\ w.job = r)
  BY CreatedEvent
<1>6. PICK status \in Outcomes \cup {"pending"} :
        /\ jobs' = [jobs EXCEPT ![r] = status]
        /\ IF host = "embed" THEN Says(r, w, "polling")
           ELSE IF status = "pending" THEN Says(r, w, "waiting")
           ELSE Says(r, Settled(w, r, status), "over")
  BY DEF Created
<1>7. UNCHANGED <<host, product, page>>
  BY DEF Created
<1> HIDE DEF w
<1>8. /\ jobs' \in [Run -> Outcomes \cup {"none", "pending"}]
      /\ \A s \in Run \ {r} : jobs'[s] = jobs[s]
      /\ jobs'[r] = status
  BY <1>6 DEF IInv, TypeOK
<1>9. runs[r].here /\ w.name = "processing" => w.job = r
  BY <1>1, <1>5, OwnJob
<1>10. w.name = "result" => w.result = w.job /\ w.job \in Run /\ jobs'[w.job] = "succeeded"
  BY <1>2, <1>5, <1>8 DEF IInv, ResultIsOfTheJob
<1>11. CASE Says(r, w, "polling") \/ Says(r, w, "waiting")
  BY <1>1, <1>2, <1>4, <1>7, <1>8, <1>9, <1>10, <1>11, SaysKeeps
<1>12. CASE Says(r, Settled(w, r, status), "over")
  <2> DEFINE d == Settled(w, r, status)
  <2>1. /\ d \in Screens /\ Private(d) /\ d.name # "processing"
        /\ d.name = "result" =>
             \/ d = w
             \/ /\ w.name = "processing" /\ status = "succeeded"
                /\ d.result = r /\ d.job = w.job
    BY <1>4, SettledScreen
  <2> HIDE DEF d
  <2>2. runs[r].here /\ d.name = "result" =>
          d.result = d.job /\ d.job \in Run /\ jobs'[d.job] = "succeeded"
    BY <1>8, <1>9, <1>10, <2>1
  <2> QED
    BY <1>1, <1>2, <1>7, <1>8, <1>12, <2>1, <2>2, SaysKeeps DEF d
<1> QED
  BY <1>6, <1>11, <1>12

\* The shopper's events, each through Touch.
LEMMA ShopperKeeps ==
  ASSUME IInv, NEW e, Sent(e), NEW looks,
         e.type \in {"OPEN", "CONSENT_ACCEPT", "SUBMIT", "RETRY", "CLOSE", "FILE_STAGED", "FILE_REJECTED"},
         Touch(Transition(widget, e), looks)
  PROVE  IInv'
<1>1. widget \in Screens /\ Private(widget)
  BY DEF IInv, TypeOK, Screens
<1>2. Transition(widget, e) \in Screens /\ Private(Transition(widget, e))
  BY <1>1, TransitionKeeps
<1>3. \/ Transition(widget, e) = widget
      \/ Transition(widget, e).name \notin {"processing", "result"}
  BY ShopperEvents
<1> QED
  BY <1>2, <1>3, TouchKeeps

LEMMA PressKeeps == ASSUME IInv, Press PROVE IInv'
<1>1. PICK type \in Offered(widget) : Touch(Transition(widget, Event(type, None)), TRUE)
  BY DEF Press
<1> DEFINE e == Event(type, None)
<1>2. type \in {"OPEN", "CONSENT_ACCEPT", "SUBMIT", "RETRY", "CLOSE"}
  BY DEF Offered, Onward, Recovery
<1>3. Sent(e) /\ e.type = type
  BY <1>2 DEF Sent, Event
<1> DEFINE looks == TRUE
<1>4. Touch(Transition(widget, e), looks)
  BY <1>1
<1>5. e.type \in {"OPEN", "CONSENT_ACCEPT", "SUBMIT", "RETRY", "CLOSE", "FILE_STAGED", "FILE_REJECTED"}
  BY <1>2, <1>3
<1> HIDE DEF e, looks
<1> QED
  BY <1>3, <1>4, <1>5, ShopperKeeps

LEMMA ChooseFileKeeps == ASSUME IInv, ChooseFile PROVE IInv'
<1>1. PICK allowedType \in BOOLEAN, withinSize \in BOOLEAN, p \in Photos :
        Touch(Transition(widget, FileVerdict(allowedType, withinSize, p)), host = "embed")
  BY DEF ChooseFile
<1> DEFINE e == FileVerdict(allowedType, withinSize, p)
<1>2. Sent(e) /\ e.type \in {"FILE_STAGED", "FILE_REJECTED"}
  BY KnownCodes DEF FileVerdict, Sent, Event
<1> HIDE DEF e
<1> QED
  BY <1>1, <1>2, ShopperKeeps DEF e

LEMMA OpenProductKeeps == ASSUME IInv, OpenProduct PROVE IInv'
<1>1. /\ widget' = Closed /\ running' = FALSE /\ product' \in Products /\ page' = "loading"
      /\ runs' = [r \in Run |-> [runs[r] EXCEPT !.here = FALSE]]
      /\ UNCHANGED <<host, jobs>>
  BY DEF OpenProduct
<1>2. \A r \in Run : runs'[r].here = FALSE /\ runs'[r].step = runs[r].step
  BY <1>1 DEF IInv, TypeOK
<1>3. runs' \in [Run -> [step : Working \cup {"none", "over"}, polls : 0..MaxPolls, here : BOOLEAN]]
  BY <1>1 DEF IInv, TypeOK
<1>4. Closed \in Screens /\ Private(Closed) /\ Closed.name = "idle"
  BY ClosedIsPrivate DEF Closed
<1>5. TypeOK' /\ Private(widget)'
  BY <1>1, <1>3, <1>4 DEF IInv, TypeOK, Screens, Private
<1>6. GuardInv'
  BY <1>1, <1>2 DEF GuardInv, Drives
<1>7. ProcessingInv' /\ ResultIsOfTheJob'
  BY <1>1, <1>4 DEF ProcessingInv, ResultIsOfTheJob
<1>8. JobsInv'
  BY <1>1, <1>2 DEF IInv, JobsInv
<1> QED
  BY <1>5, <1>6, <1>7, <1>8 DEF IInv

\* Steps that leave the widget, the guard and the runs alone.
LEMMA AsideKeeps ==
  ASSUME IInv, UNCHANGED <<host, product, widget, running, runs>>,
         page' \in {"loading", "ready", "unavailable"},
         jobs' \in [Run -> Outcomes \cup {"none", "pending"}],
         \A s \in Run : jobs'[s] = jobs[s] \/ jobs[s] = "pending"
  PROVE  IInv'
<1>1. TypeOK' /\ Private(widget)'
  BY DEF IInv, TypeOK, Private
<1>2. GuardInv' /\ ProcessingInv'
  BY DEF IInv, GuardInv, ProcessingInv, Drives, Active
<1>3. JobsInv' /\ ResultIsOfTheJob'
  BY DEF IInv, JobsInv, ResultIsOfTheJob
<1> QED
  BY <1>1, <1>2, <1>3 DEF IInv

LEMMA ReadPhotoKeeps == ASSUME IInv, NEW r \in Run, ReadPhoto(r) PROVE IInv'
<1>1. /\ widget \in Screens /\ Private(widget) /\ Active(r)
      /\ jobs[r] = "none" /\ jobs \in [Run -> Outcomes \cup {"none", "pending"}]
  BY DEF IInv, TypeOK, Screens, ReadPhoto, Active, Working, JobsInv
<1>2. UNCHANGED <<host, product, page, jobs>> /\ runs[r].step = "reading"
  BY DEF ReadPhoto
<1>3. CASE Says(r, widget, "creating")
  <2>1. runs[r].here => widget.name # "processing"
    BY <1>1, <1>2, OwnJob
  <2> QED
    BY <1>1, <1>2, <1>3, <2>1, SaysKeeps DEF IInv, ResultIsOfTheJob
<1>4. CASE Says(r, Failed("INVALID_INPUT"), "over")
  BY <1>1, <1>2, <1>4, KnownCodes, FailedKeeps
<1> QED
  BY <1>3, <1>4 DEF ReadPhoto

LEMMA PolledInVainKeeps == ASSUME IInv, NEW r \in Run, PolledInVain(r) PROVE IInv'
<1>1. /\ runs[r].step = "polling" /\ Active(r)
      /\ UNCHANGED <<host, product, page, jobs>>
  BY DEF PolledInVain, Active, Working
<1>2. CASE Says(r, Failed("PROVIDER_ERROR"), "over")
  BY <1>1, <1>2, KnownCodes, FailedKeeps
<1>3. CASE /\ Counted(r) < MaxPolls
           /\ runs' = [runs EXCEPT ![r] = [@ EXCEPT !.step = "waiting", !.polls = Counted(r)]]
           /\ UNCHANGED <<widget, running>>
  <2>1. /\ runs \in [Run -> [step : Working \cup {"none", "over"}, polls : 0..MaxPolls, here : BOOLEAN]]
        /\ runs[r] \in [step : Working \cup {"none", "over"}, polls : 0..MaxPolls, here : BOOLEAN]
    BY DEF IInv, TypeOK
  <2>2. Counted(r) \in 0..MaxPolls /\ "waiting" \in Working
    BY <1>3, <2>1, WidgetAssumption DEF Counted, Working
  <2>3. runs' = [runs EXCEPT ![r] = [runs[r] EXCEPT !.step = "waiting", !.polls = Counted(r)]]
    BY <1>3, <2>1
  <2>4. /\ runs' \in [Run -> [step : Working \cup {"none", "over"}, polls : 0..MaxPolls, here : BOOLEAN]]
        /\ runs'[r].step = "waiting" /\ runs'[r].here = runs[r].here
        /\ \A s \in Run \ {r} : runs'[s] = runs[s]
    BY <2>1, <2>2, <2>3
  <2> QED
    BY <1>1, <1>3, <2>4, PauseKeeps
<1> QED
  BY <1>2, <1>3 DEF PolledInVain

LEMMA WakeKeeps == ASSUME IInv, NEW r \in Run, Wake(r) PROVE IInv'
<1>1. /\ runs \in [Run -> [step : Working \cup {"none", "over"}, polls : 0..MaxPolls, here : BOOLEAN]]
      /\ runs[r] \in [step : Working \cup {"none", "over"}, polls : 0..MaxPolls, here : BOOLEAN]
  BY DEF IInv, TypeOK
<1>2. runs' = [runs EXCEPT ![r] = [runs[r] EXCEPT !.step = "polling"]]
  BY <1>1 DEF Wake
<1>3. /\ runs' \in [Run -> [step : Working \cup {"none", "over"}, polls : 0..MaxPolls, here : BOOLEAN]]
      /\ runs'[r].step = "polling" /\ runs'[r].here = runs[r].here
      /\ \A s \in Run \ {r} : runs'[s] = runs[s]
  BY <1>1, <1>2 DEF Working
<1>4. UNCHANGED <<host, product, page, widget, running, jobs>> /\ runs[r].step = "waiting"
  BY DEF Wake
<1> QED
  BY <1>3, <1>4, PauseKeeps

LEMMA NextOK == IInv /\ [Next]_vars => IInv'
<1> SUFFICES ASSUME IInv, [Next]_vars PROVE IInv'
  OBVIOUS
<1>t. /\ jobs \in [Run -> Outcomes \cup {"none", "pending"}]
      /\ page \in {"loading", "ready", "unavailable"}
      /\ widget \in Screens /\ Private(widget)
  BY DEF IInv, TypeOK, Screens
<1>1. CASE Press
  BY <1>1, PressKeeps
<1>2. CASE PressNothing
  BY <1>t, <1>2, TouchKeeps DEF PressNothing
<1>3. CASE ChooseFile
  BY <1>3, ChooseFileKeeps
<1>4. CASE OpenProduct
  BY <1>4, OpenProductKeeps
<1>5. CASE Mount
  BY <1>t, <1>5, AsideKeeps DEF Mount
<1>6. ASSUME NEW r \in Run, RunSteps(r) PROVE IInv'
  <2>1. CASE ReadPhoto(r)
    BY <2>1, ReadPhotoKeeps
  <2>2. CASE CreateFails(r)
    <3>1. Active(r) /\ UNCHANGED <<host, product, page, jobs>>
      BY <2>2 DEF CreateFails, Active, Working
    <3> QED
      BY <2>2, <3>1, WidgetAssumption, FailedKeeps DEF CreateFails
  <2>3. CASE Created(r)
    BY <2>3, CreatedKeeps
  <2>4. CASE PollFails(r)
    <3>1. Active(r) /\ UNCHANGED <<host, product, page, jobs>>
      BY <2>4 DEF PollFails, Active, Working
    <3> QED
      BY <2>4, <3>1, WidgetAssumption, KnownCodes, FailedKeeps DEF PollFails
  <2>5. CASE Polled(r)
    BY <2>5, PolledKeeps
  <2>6. CASE PolledInVain(r)
    BY <2>6, PolledInVainKeeps
  <2>7. CASE Wake(r)
    BY <2>7, WakeKeeps
  <2> QED
    BY <1>6, <2>1, <2>2, <2>3, <2>4, <2>5, <2>6, <2>7 DEF RunSteps, Answer
<1>7. ASSUME NEW r \in Run, ServiceEnds(r) PROVE IInv'
  <2>1. /\ jobs[r] = "pending" /\ \E status \in Outcomes : jobs' = [jobs EXCEPT ![r] = status]
        /\ UNCHANGED <<host, product, page, widget, running, runs>>
    BY <1>7 DEF ServiceEnds
  <2> QED
    BY <1>t, <2>1, AsideKeeps
<1>8. CASE AddToBag \/ AddResult \/ StepQuantity \/ RemoveFromBag
  <2>1. UNCHANGED <<host, product, page, widget, running, runs, jobs>>
    BY <1>8 DEF AddToBag, AddResult, StepQuantity, RemoveFromBag, Add, Bag
  <2> QED
    BY <1>t, <2>1, AsideKeeps
<1>9. CASE UNCHANGED vars
  BY <1>t, <1>9, AsideKeeps DEF vars
<1> QED
  BY <1>1, <1>2, <1>3, <1>4, <1>5, <1>6, <1>7, <1>8, <1>9 DEF Next

LEMMA IInvHolds == Spec => []IInv
BY InitOK, NextOK, PTL DEF Spec

-----------------------------------------------------------------------------
(* Every state of the widget and its host is of its type.                  *)
THEOREM TypeCorrect == Spec => []TypeOK
<1>1. IInv => TypeOK
  BY DEF IInv
<1> QED
  BY IInvHolds, <1>1, PTL

(* state.ts:12-13, "no image can be uploaded before explicit consent",    *)
(* whichever answers of whichever runs arrive.                             *)
THEOREM PhotosNeedConsent == Spec => []NoPhotoBeforeConsent
<1>1. IInv => NoPhotoBeforeConsent
  BY DEF IInv, Private, NoPhotoBeforeConsent
<1> QED
  BY IInvHolds, <1>1, PTL

(* The guards of embed.ts:137-148 and TryOnLauncher.tsx:45-71 let one run  *)
(* at a time drive the widget, and are up exactly while one does.          *)
THEOREM RunsDoNotOverlap == Spec => []OneRunAtATime
<1>1. IInv => OneRunAtATime
  <2> SUFFICES ASSUME IInv PROVE OneRunAtATime
    OBVIOUS
  <2> DEFINE driving == {r \in Run : Active(r) /\ runs[r].here}
  <2>1. running <=> driving # {}
    BY DEF IInv, GuardInv, Drives
  <2>2. \A r, s \in driving : r = s
    BY DEF IInv, GuardInv, Drives
  <2>3. Cardinality(driving) <= 1
    <3>1. CASE driving = {}
      BY <3>1, FS_EmptySet
    <3>2. CASE driving # {}
      <4>1. PICK r : r \in driving
        BY <3>2
      <4>2. driving = {r}
        BY <2>2, <4>1
      <4>3. Cardinality({r}) = 1
        BY FS_Singleton
      <4> HIDE DEF driving
      <4> QED
        BY <4>2, <4>3
    <3> QED
      BY <3>1, <3>2
  <2> QED
    BY <2>1, <2>3 DEF OneRunAtATime
<1> QED
  BY IInvHolds, <1>1, PTL

(* The result on screen is that of the job whose creation the widget was   *)
(* told of (embed.ts:172-195, tryOnOrchestrator.ts:88-116).                *)
THEOREM ResultsAreOfTheJob == Spec => []ResultIsOfTheJob
<1>1. IInv => ResultIsOfTheJob
  BY DEF IInv
<1> QED
  BY IInvHolds, <1>1, PTL

-----------------------------------------------------------------------------
(* The bag *)

Line == [key : Keys, quantity : Nat \ {0}]

\* BagIsSound, said of any lines, with their types.
Sound(lines) ==
  /\ lines \in Seq(Line)
  /\ \A i, j \in DOMAIN lines : lines[i].key = lines[j].key => i = j

LEMMA CountFacts ==
  ASSUME NEW lines, Sound(lines), NEW key, HasLine(lines, key)
  PROVE  CountOf(lines, key) \in Nat \ {0}
<1>1. PICK i \in DOMAIN lines : lines[i].key = key
  BY DEF HasLine
<1> DEFINE at == CHOOSE j \in DOMAIN lines : lines[j].key = key
<1>2. at \in DOMAIN lines
  BY <1>1
<1>3. CountOf(lines, key) = lines[at].quantity
  BY DEF CountOf
<1> HIDE DEF at
<1>4. lines[at] \in Line
  BY <1>2 DEF Sound
<1> QED
  BY <1>3, <1>4 DEF Line

LEMMA WithQuantityFacts ==
  ASSUME NEW lines, Sound(lines), NEW key, NEW quantity \in Nat \ {0}
  PROVE  Sound(WithQuantity(lines, key, quantity))
<1> DEFINE w == WithQuantity(lines, key, quantity)
<1>1. lines \in Seq(Line) /\ Len(lines) \in Nat /\ DOMAIN lines = 1..Len(lines)
  BY DEF Sound
<1>2. DOMAIN w = DOMAIN lines
  BY DEF WithQuantity
<1>3. ASSUME NEW i \in DOMAIN lines PROVE w[i] \in Line /\ w[i].key = lines[i].key
  <2>1. lines[i] \in Line
    BY <1>1
  <2>2. w[i] = IF lines[i].key = key THEN [lines[i] EXCEPT !.quantity = quantity] ELSE lines[i]
    BY DEF WithQuantity
  <2> HIDE DEF w
  <2> QED
    BY <2>1, <2>2 DEF Line
<1>4. w = [i \in 1..Len(lines) |-> w[i]]
  BY <1>1 DEF WithQuantity
<1> HIDE DEF w
<1>5. w \in Seq(Line)
  BY <1>1, <1>3, <1>4
<1> QED
  BY <1>2, <1>3, <1>5 DEF Sound, w

LEMMA AppendedFacts ==
  ASSUME NEW lines, Sound(lines), NEW line \in Line, \A i \in DOMAIN lines : lines[i].key # line.key
  PROVE  Sound(Append(lines, line))
<1> DEFINE t == Append(lines, line)
<1>1. /\ lines \in Seq(Line) /\ Len(lines) \in Nat
      /\ DOMAIN lines = 1..Len(lines) /\ DOMAIN t = 1..(Len(lines) + 1)
      /\ t \in Seq(Line) /\ t[Len(lines) + 1] = line
      /\ \A i \in DOMAIN lines : t[i] = lines[i]
  BY DEF Sound
<1>2. DOMAIN t = DOMAIN lines \cup {Len(lines) + 1} /\ Len(lines) + 1 \notin DOMAIN lines
  BY <1>1
<1> HIDE DEF t
<1>3. \A i, j \in DOMAIN t : t[i].key = t[j].key => i = j
  BY <1>1, <1>2 DEF Sound
<1> QED
  BY <1>1, <1>3 DEF Sound, t

LEMMA AddLineFacts ==
  ASSUME NEW lines, Sound(lines), NEW key \in Keys
  PROVE  Sound(AddLine(lines, key))
<1>1. CASE HasLine(lines, key)
  <2>1. CountOf(lines, key) + 1 \in Nat \ {0}
    BY <1>1, CountFacts
  <2> QED
    BY <1>1, <2>1, WithQuantityFacts DEF AddLine
<1>2. CASE ~HasLine(lines, key)
  <2> DEFINE line == [key |-> key, quantity |-> 1]
  <2>1. line \in Line /\ line.key = key
    BY DEF Line
  <2>2. \A i \in DOMAIN lines : lines[i].key # line.key
    BY <1>2, <2>1 DEF HasLine
  <2>3. AddLine(lines, key) = Append(lines, line)
    BY <1>2 DEF AddLine
  <2> HIDE DEF line
  <2> QED
    BY <2>1, <2>2, <2>3, AppendedFacts
<1> QED
  BY <1>1, <1>2

\* The filter that removes a line, line by line.
LEMMA RemoveLineChain ==
  ASSUME NEW lines \in Seq(Line), NEW key
  PROVE  \E c \in [0..Len(lines) -> Seq(Line)] :
           /\ c[0] = << >>
           /\ \A i \in 1..Len(lines) : c[i] = Keep(c[i - 1], lines[i], key)
           /\ c[Len(lines)] = RemoveLine(lines, key)
<1> DEFINE n == Len(lines)
           V == Seq(Line)
           S == 1..n
           step == [x \in S \X V |-> Keep(x[2], lines[x[1]], key)]
           Solved(h) == [T \in SUBSET S |->
                           IF T = {} THEN << >>
                           ELSE Keep(h[T \ {Max(T)}], lines[Max(T)], key)]
           g == CHOOSE h : h = Solved(h)
<1>1. n \in Nat /\ DOMAIN lines = S /\ << >> \in V /\ \A i \in S : lines[i] \in Line
  OBVIOUS
<1>2. step \in [S \X V -> V]
  <2>1. \A v \in V, line \in Line : Keep(v, line, key) \in V
    BY DEF Keep
  <2> QED
    BY <1>1, <2>1
<1>3. PICK it \in [SUBSET S -> V] : LeftFolds(it, n, << >>, step)
  <2> HIDE DEF n, V, step
  <2> QED
    BY <1>1, <1>2, LeftFoldExists
<1>4. \A T \in SUBSET S : T # {} => Max(T) \in T /\ T \ {Max(T)} \in SUBSET S
  BY <1>1, MaxPicks
<1>5. /\ it[{}] = << >>
      /\ \A T \in SUBSET S : T # {} =>
           it[T] = Keep(it[T \ {Max(T)}], lines[Max(T)], key)
  BY <1>3, <1>4 DEF LeftFolds
<1>6. it = Solved(it)
  BY <1>5
<1>7. g = Solved(g)
  BY <1>6, Zenon
<1>8. RemoveLine(lines, key) = g[S]
  BY <1>1 DEF RemoveLine, FoldLeft, MapThenFoldSet
<1>9. g[S] = it[S]
  <2>1. /\ g[{}] = << >>
        /\ \A T \in SUBSET S : T # {} =>
             g[T] = Keep(g[T \ {Max(T)}], lines[Max(T)], key)
    BY <1>7
  <2> HIDE DEF g
  <2>2. Alike(g, it, S, [T \in SUBSET S |-> Max(T)])
    BY <1>5, <2>1 DEF Alike
  <2> HIDE DEF n
  <2> QED
    BY <1>1, <2>2, LeftFoldsAgree
<1>10. /\ it[1..0] = << >>
       /\ \A i \in S : it[1..i] = step[<<i, it[1..(i - 1)]>>]
  <2> HIDE DEF n, step
  <2>1. Climbs(it, n, << >>, step)
    BY <1>1, <1>3, LeftFoldClimbs
  <2> QED
    BY <2>1 DEF Climbs
<1> DEFINE c == [i \in 0..n |-> it[1..i]]
<1>11. c \in [0..n -> V]
  BY <1>1, <1>3
<1>12. ASSUME NEW i \in S PROVE c[i] = Keep(c[i - 1], lines[i], key)
  <2>1. i \in 0..n /\ i - 1 \in 0..n
    BY <1>1
  <2>2. c[i] = it[1..i] /\ c[i - 1] = it[1..(i - 1)] /\ c[i - 1] \in V
    BY <2>1, <1>11
  <2> QED
    BY <1>10, <2>2
<1>13. c[0] = << >> /\ c[n] = it[S]
  BY <1>1, <1>10
<1> QED
  BY <1>8, <1>9, <1>11, <1>12, <1>13

\* The other lines stay, each once, and the removed one is gone.
LEMMA RemoveLineFacts ==
  ASSUME NEW lines, Sound(lines), NEW key
  PROVE  Sound(RemoveLine(lines, key)) /\ ~HasLine(RemoveLine(lines, key), key)
<1> DEFINE n == Len(lines)
<1>1. lines \in Seq(Line) /\ n \in Nat /\ DOMAIN lines = 1..n /\ \A i \in 1..n : lines[i] \in Line
  BY DEF Sound
<1>2. PICK c \in [0..n -> Seq(Line)] :
        /\ c[0] = << >>
        /\ \A i \in 1..n : c[i] = Keep(c[i - 1], lines[i], key)
        /\ c[n] = RemoveLine(lines, key)
  BY <1>1, RemoveLineChain
<1> DEFINE From(kept, i) ==
             \A j \in DOMAIN kept : kept[j].key # key /\ \E k \in 1..i : kept[j].key = lines[k].key
           P == {i \in Nat : i <= n => Sound(c[i]) /\ From(c[i], i)}
<1>3. 0 \in P
  BY <1>2 DEF Sound
<1>4. ASSUME NEW i \in Nat, i \in P PROVE i + 1 \in P
  <2> SUFFICES ASSUME i + 1 <= n PROVE Sound(c[i + 1]) /\ From(c[i + 1], i + 1)
    OBVIOUS
  <2>1. i + 1 \in 1..n /\ i \in 0..n /\ (i + 1) - 1 = i /\ 1..i \subseteq 1..n
    BY <1>1
  <2> DEFINE kept == c[i]
             line == lines[i + 1]
  <2>2. c[i + 1] = Keep(kept, line, key)
    BY <1>2, <2>1
  <2>3. Sound(kept) /\ From(kept, i) /\ line \in Line
    BY <1>1, <1>4, <2>1
  <2>4. \A k \in 1..i : lines[k].key # line.key
    BY <1>1, <2>1 DEF Sound
  <2>5. \A j \in DOMAIN kept : kept[j].key # line.key
    BY <2>3, <2>4
  <2>6. i + 1 \in 1..(i + 1) /\ 1..i \subseteq 1..(i + 1)
    OBVIOUS
  <2>7. CASE line.key = key
    BY <2>2, <2>3, <2>6, <2>7 DEF Keep
  <2>8. CASE line.key # key
    <3>1. c[i + 1] = Append(kept, line)
      BY <2>2, <2>8 DEF Keep
    <3>2. Sound(Append(kept, line))
      <4> HIDE DEF kept, line
      <4> QED
        BY <2>3, <2>5, AppendedFacts
    <3>3. /\ DOMAIN Append(kept, line) = DOMAIN kept \cup {Len(kept) + 1}
          /\ Append(kept, line)[Len(kept) + 1] = line
          /\ \A j \in DOMAIN kept : Append(kept, line)[j] = kept[j]
      <4>1. kept \in Seq(Line)
        BY <2>3 DEF Sound
      <4> HIDE DEF kept, line
      <4> QED
        BY <2>3, <4>1
    <3>4. From(Append(kept, line), i + 1)
      BY <2>3, <2>6, <2>8, <3>3
    <3> QED
      BY <3>1, <3>2, <3>4
  <2> QED
    BY <2>7, <2>8
<1>5. Nat \subseteq P
  <2> HIDE DEF P
  <2> QED
    BY <1>3, <1>4, Induction
<1>6. n \in P /\ n <= n
  <2> HIDE DEF P
  <2> QED
    BY <1>1, <1>5
<1> QED
  BY <1>2, <1>6 DEF HasLine

LEMMA BagKeeps == IInv /\ Sound(bag) /\ [Next]_vars => Sound(bag)'
<1> SUFFICES ASSUME IInv, Sound(bag), [Next]_vars PROVE Sound(bag')
  BY DEF Sound
<1>1. ASSUME bag' = bag PROVE Sound(bag')
  BY <1>1
<1>2. CASE Press \/ PressNothing \/ ChooseFile \/ OpenProduct \/ Mount \/ UNCHANGED vars
  BY <1>1, <1>2 DEF Press, PressNothing, ChooseFile, OpenProduct, Mount, vars
<1>3. ASSUME NEW r \in Run, RunSteps(r) \/ ServiceEnds(r) PROVE Sound(bag')
  <2>1. bag' = bag
    BY <1>3 DEF RunSteps, Answer, ReadPhoto, CreateFails, Created, PollFails, Polled,
                PolledInVain, Wake, ServiceEnds
  <2> QED
    BY <1>1, <2>1
<1>4. ASSUME NEW i \in DOMAIN Sizes, Add(Sizes[i]) PROVE Sound(bag')
  <2>1. <<product, Sizes[i]>> \in Keys
    BY DEF Keys, IInv, TypeOK
  <2> QED
    BY <1>4, <2>1, AddLineFacts DEF Add, Bag
<1>5. CASE AddToBag \/ AddResult
  BY <1>4, <1>5, WidgetAssumption DEF AddToBag, AddResult
<1>6. CASE StepQuantity
  <2>1. PICK key \in Keys, by \in {1, -1} :
          HasLine(bag, key) /\ bag' = SetQuantity(bag, key, CountOf(bag, key) + by)
    BY <1>6 DEF StepQuantity, Bag
  <2>2. CountOf(bag, key) + by \in Int
    BY <2>1, CountFacts
  <2>3. CASE CountOf(bag, key) + by <= 0
    BY <2>1, <2>3, RemoveLineFacts DEF SetQuantity
  <2>4. CASE ~(CountOf(bag, key) + by <= 0)
    <3>1. CountOf(bag, key) + by \in Nat \ {0}
      BY <2>2, <2>4
    <3> QED
      BY <2>1, <2>4, <3>1, WithQuantityFacts DEF SetQuantity
  <2> QED
    BY <2>3, <2>4
<1>7. CASE RemoveFromBag
  BY <1>7, RemoveLineFacts DEF RemoveFromBag, Bag
<1> QED
  BY <1>2, <1>3, <1>5, <1>6, <1>7 DEF Next

(* cartReducer (CartProvider.tsx) keeps one line per product and size, and *)
(* none whose quantity is not positive, through any sequence of additions, *)
(* steps of the quantity and removals.                                     *)
THEOREM BagStaysSound == Spec => []BagIsSound
<1>1. Init => Sound(bag)
  BY DEF Init, Sound
<1>2. IInv /\ Sound(bag) => BagIsSound
  <2> SUFFICES ASSUME Sound(bag) PROVE BagIsSound
    OBVIOUS
  <2>1. \A i \in DOMAIN bag : bag[i] \in Line
    BY DEF Sound
  <2>2. \A i \in DOMAIN bag : bag[i].quantity > 0
    BY <2>1 DEF Line
  <2> QED
    BY <2>2 DEF Sound, BagIsSound
<1> QED
  BY IInvHolds, BagKeeps, <1>1, <1>2, PTL DEF Spec
=============================================================================
