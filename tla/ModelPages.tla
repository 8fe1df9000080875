----------------------------- MODULE ModelPages -----------------------------
(* The pages of a model: its inference requests, its performance runs.      *)
(*                                                                          *)
(* The Infer page of a model, its part of the store and of the browser's    *)
(* storage, and infer_model() of the backend, which reads Triton's counters *)
(* before and after a request to tell what the request took.                *)
EXTENDS Browser

CONSTANTS Models,    \* models of one instance
          MaxPolls   \* snapshots taken after a request, of either source

(* No counter says that a model is not there.                               *)
ASSUME NoneAssumption == None \notin Nat

VARIABLES served,     \* [model]: requests Triton has served since it has the model
          published,  \* [source]: the counters as that source has them by now
          results,    \* [model]: what localStorage keeps
          response,   \* the result the store holds, or None
          submitting, \* the store's flag
          wandered    \* ghost: another page was opened with a result shown or awaited

inferVars == <<served, published, results, response, submitting, wandered>>

Sources == {"metrics", "stats"}
OnInfer == page.at = "infer"

(* The series of a snapshot: on the metrics page three counters count a     *)
(* request, which are added; the statistics have one.                       *)
MetricRows(counters) == [m \in Models |-> IF counters[m] = None THEN None ELSE 3 * counters[m]]
StatRows(counters) == counters
Rows(source, counters) == IF source = "metrics" THEN MetricRows(counters) ELSE StatRows(counters)

(* A snapshot that failed has no series.                                    *)
NoSnapshot == [m \in Models |-> None]
MetricsSnapshots == {Rows("metrics", published["metrics"]), NoSnapshot}
StatsSnapshots == {Rows("stats", published["stats"]), NoSnapshot}
Snapshots(source) == IF source = "metrics" THEN MetricsSnapshots ELSE StatsSnapshots

Value(n) == IF n = None THEN 0 ELSE n

(* inference_metrics_delta(): the models with a difference, counters that   *)
(* went back have none.                                                     *)
Delta(before, after) ==
  [m \in Models |-> IF after[m] = None \/ after[m] <= Value(before[m]) THEN 0
                    ELSE after[m] - Value(before[m])]

(* The report of a request that was alone.                                  *)
MeasuredAlone(result) == result.alone /\ result.report # None
OneRequest(m) == {Rows(s, [q \in Models |-> IF q = m THEN 1 ELSE 0]) : s \in Sources}

Available(report) == \E m \in Models : report[m] > 0

(* alone: since the first snapshot nothing else has moved the counters, and *)
(* every snapshot of before was there and up to date.                       *)
Inference(m) == [model |-> m, at |-> "before", source |-> "metrics", before |-> NoSnapshot,
                 fallback |-> NoSnapshot, polls |-> 0, report |-> None, alone |-> TRUE]

Disturbed == {[f EXCEPT !.arg.alone = FALSE] : f \in flights}

Doing(f, phase) == f \in flights /\ f.state = "sent" /\ f.arg.at = phase
Becomes(f, c) == flights' = (flights \ {f}) \cup {[f EXCEPT !.arg = c]}
Fresh(source, snapshot) == snapshot = Rows(source, served)

-----------------------------------------------------------------------------
(* The backend: infer_model()                                               *)

(* The instance may have no metrics URL, which is as good as a failure.     *)
MetricsBefore(f) ==
  /\ Doing(f, "before")
  /\ \E s \in MetricsSnapshots :
       Becomes(f, IF s = NoSnapshot THEN [f.arg EXCEPT !.at = "statsBefore", !.source = "stats"]
                  ELSE [f.arg EXCEPT !.at = "fallback", !.before = s, !.alone = @ /\ Fresh("metrics", s)])
  /\ UNCHANGED <<page, acts, inferVars>>

FallbackBefore(f) ==
  /\ Doing(f, "fallback")
  /\ \E s \in StatsSnapshots :
       Becomes(f, [f.arg EXCEPT !.at = "infer", !.fallback = s, !.alone = @ /\ Fresh("stats", s)])
  /\ UNCHANGED <<page, acts, inferVars>>

StatsBefore(f) ==
  /\ Doing(f, "statsBefore")
  /\ \E s \in StatsSnapshots :
       Becomes(f, [f.arg EXCEPT !.at = "infer", !.before = s, !.alone = @ /\ Fresh("stats", s)])
  /\ UNCHANGED <<page, acts, inferVars>>

(* Triton serves the request or refuses it.                                 *)
Infer(f) ==
  /\ Doing(f, "infer")
  /\ \/ /\ served[f.arg.model] # None
        /\ served' = [served EXCEPT ![f.arg.model] = @ + 1]
        /\ flights' = {IF g = f THEN [f EXCEPT !.arg.at = "after"]
                       ELSE [g EXCEPT !.arg.alone = FALSE] : g \in flights}
     \/ /\ flights' = Answered(f, None)
        /\ UNCHANGED served
  /\ UNCHANGED <<page, acts, published, results, response, submitting, wandered>>

(* Mutant: the fallback starts from nothing.                                *)
BadPoll_NoBaseline(f) ==
  /\ Doing(f, "after")
  /\ \E s \in Snapshots(f.arg.source) :
       LET report == Delta(f.arg.before, s)
           c == [f.arg EXCEPT !.polls = @ + 1]
       IN IF Available(report) THEN Becomes(f, [c EXCEPT !.at = "answer", !.report = report])
          ELSE IF c.polls < MaxPolls THEN Becomes(f, c)
          ELSE IF c.source = "metrics"
            THEN Becomes(f, [c EXCEPT !.source = "stats", !.before = NoSnapshot, !.polls = 0])
          ELSE Becomes(f, [c EXCEPT !.at = "answer"])
  /\ UNCHANGED <<page, acts, inferVars>>

(* A snapshot is taken until a difference shows; then the other source is   *)
(* asked.                                                                   *)
Poll(f) ==
  /\ Doing(f, "after")
  /\ \E s \in Snapshots(f.arg.source) :
       LET report == Delta(f.arg.before, s)
           c == [f.arg EXCEPT !.polls = @ + 1]
       IN IF Available(report) THEN Becomes(f, [c EXCEPT !.at = "answer", !.report = report])
          ELSE IF c.polls < MaxPolls THEN Becomes(f, c)
          ELSE IF c.source = "metrics"
            THEN Becomes(f, [c EXCEPT !.source = "stats", !.before = c.fallback, !.polls = 0])
          ELSE Becomes(f, [c EXCEPT !.at = "answer"])
  /\ UNCHANGED <<page, acts, inferVars>>

Respond(f) ==
  /\ Doing(f, "answer")
  /\ flights' = Answered(f, [model |-> f.arg.model, report |-> f.arg.report,
                             alone |-> f.arg.alone])
  /\ UNCHANGED <<page, acts, inferVars>>

-----------------------------------------------------------------------------
(* Triton                                                                   *)

Publish(source) ==
  /\ published[source] # served
  /\ published' = [published EXCEPT ![source] = served]
  /\ UNCHANGED <<browserVars, served, results, response, submitting, wandered>>

OthersInfer(m) ==
  /\ served[m] # None
  /\ Act
  /\ served' = [served EXCEPT ![m] = @ + 1]
  /\ flights' = Disturbed
  /\ UNCHANGED <<page, published, results, response, submitting, wandered>>

(* load_model(), unload_model(): by a page that says so to Triton.          *)
LoadModel(m) ==
  /\ served[m] = None
  /\ Act
  /\ served' = [served EXCEPT ![m] = 0]
  /\ flights' = Disturbed
  /\ UNCHANGED <<page, published, results, response, submitting, wandered>>

UnloadModel(m) ==
  /\ served[m] # None
  /\ Act
  /\ served' = [served EXCEPT ![m] = None]
  /\ flights' = Disturbed
  /\ UNCHANGED <<page, published, results, response, submitting, wandered>>

-----------------------------------------------------------------------------
(* The page                                                                 *)

(* loadRouteState(): the store is cleared and gets the saved result.        *)
LoadRouteState(m, saved) == response' = saved[m] /\ submitting' = FALSE

OpenInfer(m) ==
  /\ ~OnInfer
  /\ Route("infer", m)
  /\ LoadRouteState(m, results)
  /\ wandered' = (wandered \/ \E f \in flights : f.heard /\ f.of # m)
  /\ UNCHANGED <<flights, served, published, results>>

(* Back to the page of another model: its component stays; the effect that  *)
(* saves the shown result runs before the one that loads the other's.       *)
SwitchModel(m) ==
  /\ OnInfer /\ page.of # m
  /\ Route("infer", m)
  /\ results' = IF response = None THEN results ELSE [results EXCEPT ![m] = response]
  /\ LoadRouteState(m, results')
  /\ wandered' = (wandered \/ response # None \/ \E f \in flights : f.heard)
  /\ UNCHANGED <<flights, served, published>>

LeaveInfer ==
  /\ OnInfer
  /\ Route("list", None)
  /\ UNCHANGED <<flights, inferVars>>

(* exhaustMap: nothing is sent while a request is awaited.                  *)
Send ==
  /\ OnInfer /\ ~submitting
  /\ Act
  /\ submitting' = TRUE /\ response' = None
  /\ flights' = IF Awaited({"infer"}) # {} THEN flights
                ELSE Merged(Request("infer", page.of, Inference(page.of)))
  /\ UNCHANGED <<page, served, published, results, wandered>>

(* The page that is open by then saves the result as its model's.           *)
InferSucceeded(f) ==
  /\ Answers(f, {"infer"}) /\ f.result # None
  /\ response' = f.result /\ submitting' = FALSE
  /\ results' = IF OnInfer THEN [results EXCEPT ![page.of] = f.result] ELSE results
  /\ Without(f)
  /\ UNCHANGED <<page, acts, served, published, wandered>>

(* Refused, or given up after inferenceTimeoutMs while the backend goes on. *)
InferFailed(f) ==
  /\ f.kind = "infer" /\ f.heard
  /\ \/ f.state = "ok" /\ f.result = None /\ Without(f) /\ UNCHANGED acts
     \/ f.state = "sent" /\ Act
        /\ flights' = (flights \ {f}) \cup {[f EXCEPT !.heard = FALSE]}
  /\ response' = None /\ submitting' = FALSE
  /\ UNCHANGED <<page, served, published, results, wandered>>

-----------------------------------------------------------------------------
InferenceInit ==
  /\ served = [m \in Models |-> 1]
  /\ published = [s \in Sources |-> served]
  /\ results = [m \in Models |-> None] /\ response = None
  /\ submitting = FALSE /\ wandered = FALSE
  /\ page = [at |-> "list", of |-> None, no |-> 0] /\ flights = {} /\ acts = 0

InferenceNext ==
  \/ \E f \in flights :
       \/ MetricsBefore(f) \/ FallbackBefore(f) \/ StatsBefore(f) \/ Infer(f) \/ Poll(f)
       \/ Respond(f) \/ InferSucceeded(f) \/ InferFailed(f)
  \/ \E source \in Sources : Publish(source)
  \/ \E m \in Models : OthersInfer(m) \/ LoadModel(m) \/ UnloadModel(m) \/ OpenInfer(m) \/ SwitchModel(m)
  \/ LeaveInfer \/ Send

-----------------------------------------------------------------------------
(* The Profile page of a model: it starts and stops performance runs and    *)
(* asks for their state until it is left.  Its component stays when the     *)
(* route changes to another model; answers are taken by the generation of   *)
(* the page and by the number of the last status request.                   *)

CONSTANTS Profiled,    \* models that can be profiled
          MaxVersions  \* changes of a model's runs

VARIABLES runs,     \* [model]: its run at the server and the number of changes
          view,     \* activeRun and what it was read from, or None
          seen,     \* ghost: the most changes the page was told of
          working,  \* busy
          loading,  \* loadingStatus
          failing,  \* statusError
          waiting   \* timer

profileVars == <<runs, view, seen, working, loading, failing, waiting>>

OnProfile == page.at = "profile"

(* Answers for a page of before are not looked at.                          *)
Mine(f) == f.of = page.of /\ f.arg = page.no

(* Mutant: the number of a status request is not compared.                  *)
BadSuperseded_Kept(open) == open

(* statusRequest++: nor are those to an earlier status request.             *)
Superseded(open) == open \ {f \in open : f.kind = "profile"}

StatusAsked(open) == Superseded(open) \cup {Request("profile", page'.of, page'.no)}

Told(changes) == seen' = IF changes > seen THEN changes ELSE seen
Shown(m, run) == [of |-> m, run |-> run]

-----------------------------------------------------------------------------
(* The server                                                               *)

Changes(m, state) ==
  /\ runs[m].changes < MaxVersions
  /\ runs' = [runs EXCEPT ![m] = [state |-> state, changes |-> @.changes + 1]]

OthersStart(m) ==
  /\ runs[m].state = "none"
  /\ Changes(m, "active")
  /\ UNCHANGED <<browserVars, view, seen, working, loading, failing, waiting>>

RunEnds(m) ==
  /\ runs[m].state # "none"
  /\ Changes(m, "none")
  /\ UNCHANGED <<browserVars, view, seen, working, loading, failing, waiting>>

ServeProfile(f) ==
  /\ Sent(f, {"profile"})
  /\ flights' = Answered(f, runs[f.of])
  /\ UNCHANGED <<page, acts, profileVars>>

(* One run of a model at a time; a run that has ended cannot be stopped.    *)
ServeRun(f) ==
  /\ Sent(f, {"startRun", "stopRun"})
  /\ LET to == IF f.kind = "startRun" THEN "active" ELSE "stopping"
     IN \/ /\ runs[f.of].state = (IF f.kind = "startRun" THEN "none" ELSE "active")
           /\ Changes(f.of, to)
           /\ flights' = Answered(f, runs'[f.of])
        \/ /\ runs[f.of].state # (IF f.kind = "startRun" THEN "none" ELSE "active")
           /\ flights' = Answered(f, None)
           /\ UNCHANGED runs
  /\ UNCHANGED <<page, acts, view, seen, working, loading, failing, waiting>>

-----------------------------------------------------------------------------
(* The page                                                                 *)

(* The page is opened, or the route of an open one changes.                 *)
OpenProfile(m) ==
  /\ OnProfile => page.of # m
  /\ Route("profile", m)
  /\ flights' = StatusAsked(flights)
  /\ view' = None /\ seen' = 0
  /\ loading' = TRUE /\ failing' = FALSE /\ working' = FALSE /\ waiting' = FALSE
  /\ UNCHANGED runs

LeaveProfile ==
  /\ OnProfile
  /\ Route("list", None)
  /\ waiting' = FALSE
  /\ UNCHANGED <<flights, runs, view, seen, working, loading, failing>>

(* What status requests bring from here on is out of date.                  *)
Acting(kind) ==
  /\ Act
  /\ flights' = Superseded(flights) \cup {Request(kind, page.of, page.no)}
  /\ working' = TRUE /\ waiting' = FALSE
  /\ UNCHANGED <<page, runs, view, seen, loading, failing>>

RunProfiler ==
  /\ OnProfile /\ ~loading /\ ~failing /\ ~working
  /\ view # None /\ view.run.state = "none"
  /\ Acting("startRun")

StopProfiler ==
  /\ OnProfile /\ ~working
  /\ view # None /\ view.run.state = "active"
  /\ Acting("stopRun")

(* applyRun(), if the request succeeded; then the status is loaded.         *)
RunAnswered(f) ==
  /\ f.kind \in {"startRun", "stopRun"}
  /\ f.state = "ok" \/ acts < MaxActs
  /\ acts' = IF f.state = "ok" THEN acts ELSE acts + 1
  /\ page' = page
  /\ IF OnProfile /\ Mine(f)
     THEN /\ flights' = StatusAsked(flights \ {f})
          /\ working' = FALSE
          /\ view' = IF f.result = None THEN view ELSE Shown(f.of, f.result)
          /\ IF f.result = None THEN UNCHANGED seen ELSE Told(f.result.changes)
     ELSE Without(f) /\ UNCHANGED <<view, seen, working>>
  /\ UNCHANGED <<runs, loading, failing, waiting>>

ProfileAnswered(f) ==
  /\ Answers(f, {"profile"})
  /\ Without(f)
  /\ IF OnProfile /\ Mine(f) /\ ~working
     THEN /\ view' = Shown(f.of, f.result) /\ Told(f.result.changes)
          /\ failing' = FALSE /\ loading' = FALSE /\ waiting' = TRUE
     ELSE UNCHANGED <<view, seen, failing, loading, waiting>>
  /\ UNCHANGED <<page, acts, runs, working>>

(* Retrying: the timer is set all the same.                                 *)
StatusFails(f) ==
  /\ f.kind = "profile"
  /\ Act
  /\ Without(f)
  /\ IF OnProfile /\ Mine(f) /\ ~working
     THEN failing' = TRUE /\ loading' = FALSE /\ waiting' = TRUE
     ELSE UNCHANGED <<failing, loading, waiting>>
  /\ UNCHANGED <<page, runs, view, seen, working>>

AskAgain ==
  /\ waiting /\ Room
  /\ page' = page
  /\ flights' = StatusAsked(flights)
  /\ waiting' = FALSE
  /\ UNCHANGED <<acts, runs, view, seen, working, loading, failing>>

-----------------------------------------------------------------------------
ProfileInit ==
  /\ runs = [m \in Profiled |-> [state |-> "none", changes |-> 0]]
  /\ view = None /\ seen = 0 /\ working = FALSE
  /\ loading = FALSE /\ failing = FALSE /\ waiting = FALSE
  /\ page = [at |-> "list", of |-> None, no |-> 0] /\ flights = {} /\ acts = 0

ProfileNext ==
  \/ \E m \in Profiled : OthersStart(m) \/ RunEnds(m) \/ OpenProfile(m)
  \/ \E f \in flights : ServeProfile(f) \/ ServeRun(f) \/ RunAnswered(f) \/ ProfileAnswered(f) \/ StatusFails(f)
  \/ LeaveProfile \/ RunProfiler \/ StopProfiler \/ AskAgain
=============================================================================
