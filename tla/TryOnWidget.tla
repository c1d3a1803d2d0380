---------------------------- MODULE TryOnWidget -----------------------------
(***************************************************************************)
(* The <tryit-widget> element and the host that runs jobs for it: either   *)
(* the drop-in script ("embed", packages/widget/src/embed.ts) or the demo  *)
(* storefront ("shop", TryOnLauncher.tsx and tryOnOrchestrator.ts).        *)
(*                                                                         *)
(* A run is one submitted try-on: create the job, poll it, feed the answer *)
(* to the widget.  Nothing cancels a run: it outlives the session that     *)
(* started it when the shopper closes the sheet, and the page itself when  *)
(* the shopper opens another product.  A job has the number of its run.    *)
(***************************************************************************)
EXTENDS WidgetState, ShopBag, FiniteSets

CONSTANTS Products,    \* products of the shop
          MaxRuns,     \* bound: try-ons started
          MaxPolls,    \* polls before a run gives up
          Sizes,       \* the sizes each product comes in, a sequence
          MaxQuantity, \* bound: pieces of one product in the bag
          ApiErrors    \* codes a failed API call may carry

ASSUME WidgetAssumption ==
  /\ MaxRuns \in Nat /\ MaxPolls \in Nat \ {0} /\ MaxQuantity \in Nat
  /\ ApiErrors \subseteq ErrorCode
  /\ 1 \in DOMAIN Sizes  \* no product without a size (products.test.ts:28)

VARIABLES
  host,    \* "embed" or "shop"
  product, \* the product the page shows
  page,    \* "loading", "ready" or "unavailable": whether a widget is mounted
  widget,  \* the element's machine
  running, \* inFlight of embed.ts, runningRef of TryOnLauncher.tsx
  runs,    \* [Run -> the run's progress]
  jobs,    \* [Run -> the job's status at the service]
  bag      \* lines of the shop's bag

vars == <<host, product, page, widget, running, runs, jobs, bag>>

Run == 1..MaxRuns
Working == {"reading", "creating", "polling", "waiting"}
NotStarted == [step |-> "none", polls |-> 0, here |-> FALSE]

\* A succeeded job may lack its result.
Outcomes == {"succeeded", "empty", "failed"}

Active(r) == runs[r].step \in Working
Fresh == {r \in Run : runs[r].step = "none"}

TypeOK ==
  /\ host \in {"embed", "shop"}
  /\ product \in Products
  /\ page \in {"loading", "ready", "unavailable"}
  /\ widget \in [name : Names, consent : BOOLEAN, photo : Photos \cup {None},
                 job : Run \cup {0}, result : Run \cup {0}, error : ErrorCode \cup {None}]
  /\ running \in BOOLEAN
  /\ runs \in [Run -> [step : Working \cup {"none", "over"}, polls : 0..MaxPolls, here : BOOLEAN]]
  /\ jobs \in [Run -> Outcomes \cup {"none", "pending"}]

Init ==
  /\ host \in {"embed", "shop"}
  /\ product \in Products
  /\ page = IF host = "embed" THEN "ready" ELSE "loading"
  /\ widget = Closed
  /\ running = FALSE
  /\ runs = [r \in Run |-> NotStarted]
  /\ jobs = [r \in Run |-> "none"]
  /\ bag = <<>>

-----------------------------------------------------------------------------
(* The shopper *)

\* Mutants: a submit starts a run although one is under way.
MayStartAgain(w) == w.name = "uploading"

MayStart(w) == w.name = "uploading" /\ ~running

\* The host takes the submit up in the microtask after the event: embed.ts from
\* the re-render, the shop from the click or key press on the widget.
Start ==
  \E r \in Fresh :
    /\ \A s \in Fresh : r <= s
    /\ running' = TRUE
    /\ runs' = [runs EXCEPT ![r] =
                 [step |-> IF host = "shop" THEN "reading" ELSE "creating",
                  polls |-> 0, here |-> TRUE]]

\* The widget after an event of the shopper, with the host's look at it.
Touch(w, looks) ==
  /\ widget' = w
  /\ IF looks /\ MayStart(w) THEN Start ELSE UNCHANGED <<running, runs>>
  /\ UNCHANGED <<host, product, page, jobs>>

Press ==
  /\ page = "ready"
  /\ \E type \in Offered(widget) :
       Touch(Transition(widget, Event(type, None)), TRUE)
  /\ UNCHANGED bag

\* A click that hits no control still makes the shop look.
PressNothing ==
  /\ page = "ready" /\ host = "shop"
  /\ Touch(widget, TRUE)
  /\ UNCHANGED bag

\* Choosing or dropping a file is neither a click nor a key press.
ChooseFile ==
  /\ page = "ready" /\ widget.name = "upload"
  /\ \E allowedType, withinSize \in BOOLEAN, p \in Photos :
       Touch(Transition(widget, FileVerdict(allowedType, withinSize, p)), host = "embed")
  /\ UNCHANGED bag

\* Leaving a product page removes its widget and the launcher with its guard.
OpenProduct ==
  /\ host = "shop"
  /\ product' \in Products
  /\ page' = "loading"
  /\ widget' = Closed
  /\ running' = FALSE
  /\ runs' = [r \in Run |-> [runs[r] EXCEPT !.here = FALSE]]
  /\ UNCHANGED <<host, jobs, bag>>

\* The launcher mounts a widget only once it holds a credential.
Mount ==
  /\ page = "loading"
  /\ page' \in {"ready", "unavailable"}
  /\ UNCHANGED <<host, product, widget, running, runs, jobs, bag>>

-----------------------------------------------------------------------------
(* A run *)

\* Mutant: the guard is lifted as soon as the job exists.
SaysLifting(r, w, step) ==
  /\ widget' = IF runs[r].here THEN w ELSE widget
  /\ runs' = [runs EXCEPT ![r] = [@ EXCEPT !.step = step]]
  /\ running' = IF step # "creating" /\ runs[r].here THEN FALSE ELSE running

\* The run drives its widget to w, which leaves the page alone once that widget
\* is removed, and lifts its launcher's guard when it is over.
Says(r, w, step) ==
  /\ widget' = IF runs[r].here THEN w ELSE widget
  /\ runs' = [runs EXCEPT ![r] = [@ EXCEPT !.step = step]]
  /\ running' = IF step = "over" /\ runs[r].here THEN FALSE ELSE running

Failed(code) == Transition(widget, Event("JOB_FAILED", code))

\* feedTerminal and settleIfTerminal.
Settled(w, r, status) ==
  Transition(w, IF status = "succeeded" THEN Event("JOB_SUCCEEDED", r)
                                        ELSE Event("JOB_FAILED", "PROVIDER_ERROR"))

\* The shop reads the staged photo back from its object URL.
ReadPhoto(r) ==
  /\ runs[r].step = "reading"
  /\ \/ Says(r, widget, "creating")
     \/ Says(r, Failed("INVALID_INPUT"), "over")
  /\ UNCHANGED <<host, product, page, jobs, bag>>

CreateFails(r) ==
  /\ runs[r].step = "creating"
  /\ \E code \in ApiErrors : Says(r, Failed(code), "over")
  /\ UNCHANGED <<host, product, page, jobs, bag>>

\* embed.ts always polls a created job; the shop settles one that is done.
Created(r) ==
  LET w == Transition(widget, Event("JOB_CREATED", r)) IN
  /\ runs[r].step = "creating"
  /\ \E status \in Outcomes \cup {"pending"} :
       /\ jobs' = [jobs EXCEPT ![r] = status]
       /\ IF host = "embed" THEN Says(r, w, "polling")
          ELSE IF status = "pending" THEN Says(r, w, "waiting")
          ELSE Says(r, Settled(w, r, status), "over")
  /\ UNCHANGED <<host, product, page, bag>>

\* embed.ts drops the code of a failed read.
PollFails(r) ==
  /\ runs[r].step = "polling"
  /\ \E code \in IF host = "shop" THEN ApiErrors ELSE {"PROVIDER_ERROR"} :
       Says(r, Failed(code), "over")
  /\ UNCHANGED <<host, product, page, jobs, bag>>

Polled(r) ==
  /\ runs[r].step = "polling"
  /\ jobs[r] \in Outcomes
  /\ Says(r, Settled(widget, r, jobs[r]), "over")
  /\ UNCHANGED <<host, product, page, jobs, bag>>

\* Mutant: a poll without an answer is not counted.
CountNone(r) == runs[r].polls

Counted(r) == runs[r].polls + 1

\* The shop counts its polls; embed.ts reads the clock after each, and slow
\* answers make its deadline pass after fewer.
PolledInVain(r) ==
  /\ runs[r].step = "polling"
  /\ jobs[r] = "pending"
  /\ \/ /\ Counted(r) = MaxPolls \/ host = "embed"
        /\ Says(r, Failed("PROVIDER_ERROR"), "over")
     \/ /\ Counted(r) < MaxPolls
        /\ runs' = [runs EXCEPT ![r] = [@ EXCEPT !.step = "waiting", !.polls = Counted(r)]]
        /\ UNCHANGED <<widget, running>>
  /\ UNCHANGED <<host, product, page, jobs, bag>>

Wake(r) ==
  /\ runs[r].step = "waiting"
  /\ runs' = [runs EXCEPT ![r] = [@ EXCEPT !.step = "polling"]]
  /\ UNCHANGED <<host, product, page, widget, running, jobs, bag>>

\* The service ends a job in its own time, or never.
ServiceEnds(r) ==
  /\ jobs[r] = "pending"
  /\ \E status \in Outcomes : jobs' = [jobs EXCEPT ![r] = status]
  /\ UNCHANGED <<host, product, page, widget, running, runs, bag>>

-----------------------------------------------------------------------------
(* The bag *)

Keys == Products \X {Sizes[i] : i \in DOMAIN Sizes}

Bag(lines) ==
  /\ host = "shop"
  /\ bag' = lines
  /\ UNCHANGED <<host, product, page, widget, running, runs, jobs>>

Add(size) ==
  /\ CountOf(bag, <<product, size>>) < MaxQuantity
  /\ Bag(AddLine(bag, <<product, size>>))

\* The page adds the chosen size, the result screen the product's first.
AddToBag == \E i \in DOMAIN Sizes : Add(Sizes[i])
AddResult == page = "ready" /\ widget.name = "result" /\ Add(Sizes[1])

StepQuantity ==
  \E key \in Keys, by \in {1, -1} :
    /\ HasLine(bag, key)
    /\ CountOf(bag, key) + by <= MaxQuantity
    /\ Bag(SetQuantity(bag, key, CountOf(bag, key) + by))

RemoveFromBag == \E key \in Keys : HasLine(bag, key) /\ Bag(RemoveLine(bag, key))

-----------------------------------------------------------------------------
Answer(r) == CreateFails(r) \/ Created(r) \/ PollFails(r) \/ Polled(r) \/ PolledInVain(r)

RunSteps(r) == ReadPhoto(r) \/ Answer(r) \/ Wake(r)

Next ==
  \/ Press \/ PressNothing \/ ChooseFile \/ OpenProduct \/ Mount
  \/ \E r \in Run : RunSteps(r) \/ ServiceEnds(r)
  \/ AddToBag \/ AddResult \/ StepQuantity \/ RemoveFromBag

Spec == Init /\ [][Next]_vars

\* A fetch settles and a timer fires; the shopper and the service owe nothing.
Fairness == \A r \in Run : WF_vars(RunSteps(r))

FairSpec == Spec /\ Fairness

-----------------------------------------------------------------------------
(* Privacy (state.ts:7-14): a photo is held only after this session's      *)
(* consent, a run is begun only with one, and a closed sheet remembers     *)
(* nothing, whatever answers arrive afterwards.                            *)
NoPhotoBeforeConsent ==
  /\ widget.consent <=> widget.name \notin {"idle", "consent"}
  /\ widget.photo # None => widget.consent
  /\ widget.name \in {"uploading", "processing", "result"} => widget.photo # None
  /\ widget.name \in {"idle", "consent"} =>
       widget.job = 0 /\ widget.result = 0 /\ widget.error = None

(* The guards of embed.ts:137-148 and TryOnLauncher.tsx:45-71: of the runs *)
(* that drive the widget on the page at most one is under way, and the     *)
(* guard is up exactly then, so that it never blocks a page for good.      *)
OneRunAtATime ==
  LET driving == {r \in Run : Active(r) /\ runs[r].here} IN
  /\ Cardinality(driving) <= 1
  /\ running <=> driving # {}

(* The result on screen is the result of the job whose creation the widget *)
(* was told of, and that job succeeded, although answers of runs begun in  *)
(* earlier sessions still arrive.                                          *)
ResultIsOfTheJob ==
  widget.name = "result" =>
    widget.result = widget.job /\ widget.job \in Run /\ jobs[widget.job] = "succeeded"

(* cartReducer keeps one line per product and size and no empty line.      *)
BagIsSound ==
  \A i, j \in DOMAIN bag : bag[i].quantity > 0 /\ (bag[i].key = bag[j].key => i = j)

(* embed.ts:170-171, tryOnOrchestrator.ts:67-70: the widget never hangs in *)
(* processing, even if the service never ends the job.                     *)
ProcessingEnds == widget.name = "processing" ~> widget.name # "processing"

(* tryOnOrchestrator.ts:14: "it never leaves the widget stuck in           *)
(* `uploading`".                                                           *)
UploadingEnds ==
  host = "shop" /\ widget.name = "uploading" ~> widget.name # "uploading"
=============================================================================
