------------------------------- MODULE Relay -------------------------------
(* HTTP requests the backend passes on to a workspace or to MLflow          *)
(* (development/proxy.py, mlflow/proxy.py), and what it does to those for   *)
(* MLflow so that the creator of a run stays who it is (mlflow/tracking.py). *)
(* One request is followed at a time: a handler shares nothing with others. *)
EXTENDS Browser

CONSTANTS Runs,      \* runs, models and model versions of MLflow
          MaxTries   \* attempts of urllib3 on one request

VARIABLES call,      \* the request in the proxy
          direct,    \* is_running_in_cluster()
          upstream,  \* the server behind: "starting" or "up"
          creator,   \* [run]: the value of its mlflow.user tag; None: no run
          author     \* ghost: who created a run

relayVars == <<call, direct, upstream, creator, author>>

(* Requests to MLflow, by what enforce_creator() tells apart.               *)
Reads == {"read", "search", "graphRead"}
Creations == {"create"}
Tagging == {"setTag", "deleteTag", "logBatch", "tags"}
Unruly == {"tagPath", "graphWrite", "otherApi", "ambiguous"}
Harmless == {"log", "artifact"}
Kinds == Reads \cup Creations \cup Tagging \cup Unruly \cup Harmless \cup {"artifactRoot", "workspace"}

NoCall == [at |-> "none", kind |-> "read", by |-> None, run |-> None, tag |-> None,
           safe |-> TRUE, ran |-> 0, shown |-> None]

-----------------------------------------------------------------------------
(* Mutant: a log-batch is not looked into.                                  *)
BadEnforced_BatchPasses(c) ==
  IF c.kind \in Unruly \/ (c.kind \in Tagging \ {"logBatch"} /\ c.tag # None)
     \/ (c.kind \in Creations /\ c.by = None)
  THEN [c EXCEPT !.at = "refused"]
  ELSE [c EXCEPT !.at = "try", !.tag = IF c.kind \in Creations THEN c.by ELSE @]

(* enforce_creator(): creations get the tag of the account, later edits of  *)
(* the tag are refused, as is whatever cannot be told to be none.           *)
Enforced(c) ==
  IF c.kind \in Unruly \/ (c.kind \in Tagging /\ c.tag # None)
     \/ (c.kind \in Creations /\ c.by = None)
  THEN [c EXCEPT !.at = "refused"]
  ELSE [c EXCEPT !.at = "try", !.tag = IF c.kind \in Creations THEN c.by ELSE @]

(* What MLflow makes of a request: a request in a form of its own may do    *)
(* anything to the tag.                                                     *)
RunsInMlflow(c, tags) ==
  CASE c.kind = "create" -> {[tags EXCEPT ![r] = c.tag] : r \in {q \in Runs : tags[q] = None}}
    [] c.kind \in Tagging \cup Unruly /\ c.tag # None /\ tags[c.run] # None ->
         {[tags EXCEPT ![c.run] = c.tag]}
    [] OTHER -> {tags}

(* expose_creator(): the answer says who the creator is by the tag.         *)
ExposedCreator(c) == IF c.kind = "read" /\ c.run # None THEN creator[c.run] ELSE None

-----------------------------------------------------------------------------
(* A request by a user of the web frontend, or of a workload whose token    *)
(* belongs to an account; tag: the creator it names, if any; safe: its      *)
(* method may be repeated.                                                  *)
Calls ==
  {c \in [at : {"enforce"}, kind : Kinds, by : Users \cup {None}, run : Runs,
          tag : Users \cup {None}, safe : BOOLEAN, ran : {0}, shown : {None}] :
     /\ c.tag # None => c.kind \in Creations \cup Tagging \cup Unruly
     /\ c.by = None => c.kind \in Creations
     /\ c.safe => c.kind \in {"read", "artifact", "workspace"}}

ReceiveCall ==
  /\ call.at \in {"none", "answered", "refused", "badGateway"}
  /\ Act
  /\ call' \in Calls
  /\ UNCHANGED <<page, flights, direct, upstream, creator, author>>

(* The workspace is not the user's, or MLflow is not installed.             *)
NoTarget ==
  /\ call.at = "enforce" /\ call.kind # "artifactRoot"
  /\ call' = [call EXCEPT !.at = "refused"]
  /\ UNCHANGED <<browserVars, direct, upstream, creator, author>>

Enforce ==
  /\ call.at = "enforce"
  /\ call' = CASE call.kind = "workspace" -> [call EXCEPT !.at = "try"]
               [] call.kind = "artifactRoot" -> [call EXCEPT !.at = "answered"]
               [] OTHER -> Enforced(call)
  /\ UNCHANGED <<browserVars, direct, upstream, creator, author>>

(* Nobody listens there yet: only requests of a workspace inside of the     *)
(* cluster are tried again, for _DIRECT_PROXY_STARTUP_TIMEOUT_SECONDS.      *)
Unconnected ==
  /\ call.at = "try"
  /\ upstream = "starting"
  /\ \/ call' = [call EXCEPT !.at = "badGateway"]
     \/ direct /\ call.kind = "workspace" /\ UNCHANGED call
  /\ UNCHANGED <<browserVars, direct, upstream, creator, author>>

(* The request is carried out and its answer arrives, or not.               *)
Carried(answers) ==
  /\ call.at = "try" /\ upstream = "up"
  /\ creator' \in RunsInMlflow(call, creator)
  /\ author' = [r \in Runs |-> IF creator[r] = None /\ creator'[r] # None THEN call.by ELSE author[r]]
  /\ call' \in {[call EXCEPT !.at = a, !.ran = @ + 1,
                  !.shown = IF a = "answered" THEN ExposedCreator(call) ELSE None] : a \in answers}
  /\ UNCHANGED <<browserVars, direct, upstream>>

(* Mutant: every httpx.HTTPError is tried again.                            *)
BadRelay_RetryAll ==
  \/ Carried({"answered", "badGateway"})
  \/ call.ran + 1 < MaxTries /\ Carried({"try"})
  \/ Unconnected

(* The client of the Kubernetes API repeats a request without an answer if  *)
(* its method may be repeated.                                              *)
Retries(c) == ~direct /\ c.safe /\ c.ran + 1 < MaxTries

RelayCall ==
  \/ Carried({"answered", "badGateway"})
  \/ Retries(call) /\ Carried({"try"})
  \/ Unconnected

UpstreamStarts ==
  /\ upstream = "starting"
  /\ upstream' = "up"
  /\ UNCHANGED <<browserVars, call, direct, creator, author>>

-----------------------------------------------------------------------------
RelayInit ==
  /\ call = NoCall /\ direct \in BOOLEAN /\ upstream \in {"starting", "up"}
  /\ creator = [r \in Runs |-> None] /\ author = [r \in Runs |-> None]
  /\ page = [at |-> "none", of |-> None, no |-> 0] /\ flights = {} /\ acts = 0

RelayNext ==
  \/ ReceiveCall \/ NoTarget \/ Enforce \/ RelayCall \/ UpstreamStarts
=============================================================================
