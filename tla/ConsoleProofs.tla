---------------------------- MODULE ConsoleProofs ----------------------------
(* Theorems about what Console follows: parts of the backend (the start on a *)
(* database of any age, the bridge of a WebSocket, the relay of a request,   *)
(* the error log and the verification of bearer tokens) and areas of a tab   *)
(* (logging in and out, the deploy panels, the tables of users and models,   *)
(* the pages of runs and workspaces); for any number of processes, messages, *)
(* requests, reports, keys and failures.                                     *)
EXTENDS Console, TLAPS, FiniteSetTheorems

-----------------------------------------------------------------------------
(* A behaviour stays in its area, and only that area's part takes steps.     *)

AreaInit ==
  /\ area = "start" => SchemaInit
  /\ area = "terminal" => BridgeInit
  /\ area = "relay" => RelayInit
  /\ area = "errors" => ErrorInit
  /\ area = "keys" => KeyInit
  /\ area = "config" => ConfigInit
  /\ area = "files" => FileInit
  /\ area = "inference" => InferenceInit
  /\ area = "instances" => InstanceInit
  /\ area = "deploy" => DraftInit
  /\ area = "access" => AccessInit
  /\ area = "settings" => SettingsInit
  /\ area = "mlflow" => MlflowInit
  /\ area = "models" => ModelPanelInit
  /\ area = "development" => WorkspaceInit
  /\ area = "profile" => ProfileInit
  /\ area = "users" => UserInit
  /\ area = "panels" => PanelInit
  /\ area = "session" => SessionInit

AreaStep ==
  /\ area' = area
  /\ area = "start" => SchemaNext \/ UNCHANGED schemaVars
  /\ area = "terminal" => BridgeNext \/ UNCHANGED bridgeVars
  /\ area = "relay" => RelayNext \/ UNCHANGED relayVars
  /\ area = "errors" => ErrorNext \/ UNCHANGED errorVars
  /\ area = "keys" => KeyNext \/ UNCHANGED keyVars
  /\ area = "config" => ConfigNext \/ UNCHANGED <<browserVars, configVars>>
  /\ area = "files" => FileNext \/ UNCHANGED <<browserVars, fileVars>>
  /\ area = "inference" => InferenceNext \/ UNCHANGED <<browserVars, inferVars>>
  /\ area = "instances" => InstanceNext \/ UNCHANGED <<browserVars, instanceVars>>
  /\ area = "deploy" => DraftNext \/ UNCHANGED <<browserVars, detailVars>>
  /\ area = "access" => AccessNext \/ UNCHANGED <<browserVars, detailVars>>
  /\ area = "settings" => SettingsNext \/ UNCHANGED <<browserVars, settingsVars>>
  /\ area = "mlflow" => MlflowNext \/ UNCHANGED <<browserVars, mlflowVars>>
  /\ area = "models" => ModelPanelNext \/ UNCHANGED <<browserVars, detailVars>>
  /\ area = "development" => WorkspaceNext \/ UNCHANGED <<browserVars, workspaceVars>>
  /\ area = "profile" => ProfileNext \/ UNCHANGED <<browserVars, profileVars>>
  /\ area = "users" => UserNext \/ UNCHANGED <<browserVars, userVars>>
  /\ area = "panels" => PanelNext \/ UNCHANGED <<browserVars, panelVars>>
  /\ area = "session" => SessionNext \/ UNCHANGED <<browserVars, sessionVars>>

LEMMA AreaInits == Init => AreaInit
BY DEF Init, ListInit, FrameInit, FormInit, ServiceInit, AreaInit

LEMMA AreaSteps == [Next]_vars => AreaStep
<1>1. CASE UNCHANGED vars
  BY <1>1 DEF vars, listVars, frameVars, formVars, serviceVars, AreaStep
<1>2. CASE Next
  BY <1>2 DEF Next, ListNext, FrameNext, FormNext, ServiceNext, AreaStep
<1> QED
  BY <1>1, <1>2

-----------------------------------------------------------------------------
(* The relay: what a request may still do once it has been let through.      *)

CallRow == [at : {"none", "enforce", "try", "answered", "refused", "badGateway"}, kind : Kinds,
            by : Users \cup {None}, run : Runs \cup {None}, tag : Users \cup {None},
            safe : BOOLEAN, ran : Nat, shown : Users \cup {None}]

(* It cannot touch the tag of a creator, or creates under its own name.      *)
Passed(c) ==
  /\ c.kind \notin Unruly /\ (c.kind \in Tagging => c.tag = None)
  /\ c.kind = "create" => c.by # None /\ c.tag = c.by

RelayTypes ==
  /\ call \in CallRow
  /\ creator \in [Runs -> Users \cup {None}] /\ author = creator

CallInv(c) ==
  /\ c.at \in {"none", "enforce"} => c.ran = 0 /\ c.shown = None
  /\ c.at = "enforce" => c \in Calls
  /\ c.at = "try" => /\ c.run \in Runs /\ c.shown = None /\ Passed(c)
                     /\ c.ran = 0 \/ (~direct /\ c.safe)
  /\ c.at = "answered" => c.ran >= 1 \/ c.kind = "artifactRoot"
  /\ c.at = "refused" => c.ran = 0
  /\ c.ran <= 1 \/ (~direct /\ c.safe)
  /\ c.shown # None => c.run \in Runs /\ c.shown = creator[c.run]

RelayInv == RelayTypes /\ CallInv(call)

LEMMA CallsAreRows == \A c \in Calls : c \in CallRow /\ c.at = "enforce" /\ c.ran = 0 /\ c.shown = None /\ c.run \in Runs
BY DEF Calls, CallRow

LEMMA KindsApart ==
  /\ "create" \in Kinds /\ "read" \in Kinds /\ Creations = {"create"}
  /\ "create" \notin Tagging \cup Unruly \cup Reads /\ "read" \notin Creations \cup Tagging \cup Unruly
  /\ "workspace" \notin Creations \cup Tagging \cup Unruly
BY DEF Kinds, Reads, Creations, Tagging, Unruly, Harmless

LEMMA RelayStart == RelayInit => RelayInv
<1> SUFFICES ASSUME RelayInit PROVE RelayInv
  OBVIOUS
<1>1. call \in CallRow /\ call = NoCall
  BY KindsApart DEF RelayInit, NoCall, CallRow
<1>2. CallInv(call)
  BY <1>1 DEF CallInv, NoCall
<1> QED
  BY <1>1, <1>2 DEF RelayInit, RelayInv, RelayTypes

(* What enforce_creator() lets through has passed.                           *)
LEMMA EnforcedPassed ==
  ASSUME NEW c \in CallRow, c \in Calls
  PROVE  /\ Enforced(c) \in CallRow
         /\ \/ Enforced(c).at = "refused"
            \/ Enforced(c).at = "try" /\ Passed(Enforced(c))
         /\ Enforced(c).run = c.run /\ Enforced(c).ran = 0 /\ Enforced(c).shown = None
<1>1. c.run \in Runs /\ c.ran = 0 /\ c.shown = None /\ c.kind \in Kinds /\ c.safe \in BOOLEAN
      /\ c.by \in Users \cup {None} /\ c.tag \in Users \cup {None}
  BY DEF Calls
<1>2. CASE c.kind \in Unruly \/ (c.kind \in Tagging /\ c.tag # None) \/ (c.kind \in Creations /\ c.by = None)
  <2>1. Enforced(c) = [c EXCEPT !.at = "refused"]
    BY <1>2 DEF Enforced
  <2> QED
    BY <1>1, <2>1 DEF CallRow
<1>3. CASE ~(c.kind \in Unruly \/ (c.kind \in Tagging /\ c.tag # None) \/ (c.kind \in Creations /\ c.by = None))
  <2> DEFINE tag == IF c.kind \in Creations THEN c.by ELSE c.tag
             e == [c EXCEPT !.at = "try", !.tag = tag]
  <2>1. Enforced(c) = e
    BY <1>3 DEF Enforced
  <2>2. tag \in Users \cup {None} /\ (c.kind \in Tagging => tag = c.tag) /\ (c.kind = "create" => tag = c.by)
    BY <1>1, KindsApart
  <2> HIDE DEF tag
  <2>3. /\ e \in CallRow /\ e.at = "try" /\ e.kind = c.kind /\ e.by = c.by /\ e.tag = tag
        /\ e.run = c.run /\ e.ran = c.ran /\ e.shown = c.shown
    BY <1>1, <2>2 DEF CallRow
  <2>4. Passed(e)
    BY <1>3, <2>2, <2>3, KindsApart DEF Passed
  <2> HIDE DEF e
  <2> QED
    BY <1>1, <2>1, <2>3, <2>4
<1> QED
  BY <1>2, <1>3

(* What a passed request does to the tags: the creator it records is its     *)
(* own account.                                                              *)
LEMMA PassedRuns ==
  ASSUME RelayTypes, Passed(call), Carried({"answered", "badGateway"}) \/ Carried({"try"})
  PROVE  /\ creator' \in [Runs -> Users \cup {None}] /\ author' = creator'
         /\ call.kind # "create" => creator' = creator
<1>1. /\ creator' \in RunsInMlflow(call, creator)
      /\ author' = [r \in Runs |-> IF creator[r] = None /\ creator'[r] # None THEN call.by ELSE author[r]]
  BY DEF Carried
<1>2. CASE call.kind = "create"
  <2>1. PICK r \in Runs : creator[r] = None /\ creator' = [creator EXCEPT ![r] = call.by]
    BY <1>1, <1>2 DEF RunsInMlflow, Passed
  <2>2. call.by \in Users \cup {None}
    BY DEF RelayTypes, CallRow
  <2> QED
    BY <1>1, <1>2, <2>1, <2>2 DEF RelayTypes
<1>3. CASE call.kind # "create"
  <2>1. creator' = creator
    BY <1>1, <1>3 DEF RunsInMlflow, Passed
  <2> QED
    BY <1>1, <1>3, <2>1 DEF RelayTypes
<1> QED
  BY <1>2, <1>3

LEMMA RelayStep == RelayInv /\ (RelayNext \/ UNCHANGED relayVars) => RelayInv'
<1> SUFFICES ASSUME RelayInv, RelayNext \/ UNCHANGED relayVars PROVE RelayInv'
  OBVIOUS
<1>0. RelayTypes /\ CallInv(call) /\ call \in CallRow
  BY DEF RelayInv, RelayTypes
<1>1. ASSUME call' = call, UNCHANGED <<direct, creator, author>> PROVE RelayInv'
  BY <1>0, <1>1 DEF RelayInv, RelayTypes, CallInv
<1>2. CASE ReceiveCall
  <2>1. call' \in Calls /\ UNCHANGED <<direct, creator, author>>
    BY <1>2 DEF ReceiveCall
  <2>2. call' \in CallRow /\ call'.at = "enforce" /\ call'.ran = 0 /\ call'.shown = None
    BY <2>1, CallsAreRows
  <2> QED
    BY <1>0, <2>1, <2>2 DEF RelayInv, RelayTypes, CallInv
<1>3. CASE NoTarget
  <2>1. call' = [call EXCEPT !.at = "refused"] /\ call.at = "enforce" /\ UNCHANGED <<direct, creator, author>>
    BY <1>3 DEF NoTarget
  <2>2. call' \in CallRow /\ call'.at = "refused" /\ call'.ran = 0 /\ call'.shown = None
    BY <1>0, <2>1 DEF CallRow, CallInv
  <2> QED
    BY <1>0, <2>1, <2>2 DEF RelayInv, RelayTypes, CallInv
<1>4. CASE Enforce
  <2>1. call.at = "enforce" /\ call \in Calls /\ UNCHANGED <<direct, creator, author>>
    BY <1>0, <1>4 DEF Enforce, CallInv
  <2>2. call.run \in Runs /\ call.ran = 0 /\ call.shown = None
    BY <2>1, CallsAreRows
  <2>3. CASE call.kind = "workspace"
    <3>1. call' = [call EXCEPT !.at = "try"]
      BY <1>4, <2>3 DEF Enforce
    <3>2. call' \in CallRow /\ call'.at = "try" /\ call'.run \in Runs /\ call'.ran = 0 /\ call'.shown = None
          /\ call'.kind = "workspace"
      BY <1>0, <2>2, <2>3, <3>1 DEF CallRow
    <3>3. Passed(call')
      BY <3>2, KindsApart DEF Passed
    <3> QED
      BY <1>0, <2>1, <3>2, <3>3 DEF RelayInv, RelayTypes, CallInv
  <2>4. CASE call.kind = "artifactRoot"
    <3>1. call' = [call EXCEPT !.at = "answered"]
      BY <1>4, <2>4 DEF Enforce
    <3>2. call' \in CallRow /\ call'.at = "answered" /\ call'.kind = "artifactRoot" /\ call'.ran = 0
          /\ call'.shown = None
      BY <1>0, <2>2, <2>4, <3>1 DEF CallRow
    <3> QED
      BY <1>0, <2>1, <3>2 DEF RelayInv, RelayTypes, CallInv
  <2>5. CASE call.kind \notin {"workspace", "artifactRoot"}
    <3>1. call' = Enforced(call)
      BY <1>4, <2>5 DEF Enforce
    <3>2. /\ call' \in CallRow /\ call'.run \in Runs /\ call'.ran = 0 /\ call'.shown = None
          /\ \/ call'.at = "refused"
             \/ call'.at = "try" /\ Passed(call')
      BY <1>0, <2>1, <2>2, <3>1, EnforcedPassed
    <3> QED
      BY <1>0, <2>1, <3>2 DEF RelayInv, RelayTypes, CallInv
  <2> QED
    BY <2>3, <2>4, <2>5
<1>5. CASE Unconnected
  <2>1. /\ call.at = "try" /\ UNCHANGED <<direct, creator, author>>
        /\ call' = [call EXCEPT !.at = "badGateway"] \/ call' = call
    BY <1>5 DEF Unconnected
  <2>2. CASE call' = [call EXCEPT !.at = "badGateway"]
    <3>1. /\ call' \in CallRow /\ call'.at = "badGateway" /\ call'.ran = call.ran /\ call'.safe = call.safe
          /\ call'.shown = None
      BY <1>0, <2>1, <2>2 DEF CallRow, CallInv
    <3> QED
      BY <1>0, <2>1, <3>1 DEF RelayInv, RelayTypes, CallInv
  <2> QED
    BY <1>1, <2>1, <2>2
<1>6. CASE Carried({"answered", "badGateway"}) \/ (Retries(call) /\ Carried({"try"}))
  <2>1. /\ call.at = "try" /\ direct' = direct /\ Passed(call) /\ call.run \in Runs
        /\ call.ran = 0 \/ (~direct /\ call.safe)
    BY <1>0, <1>6 DEF Carried, CallInv
  <2>2. /\ creator' \in [Runs -> Users \cup {None}] /\ author' = creator'
        /\ call.kind # "create" => creator' = creator
    BY <1>0, <1>6, <2>1, PassedRuns
  <2>3. PICK a \in {"answered", "badGateway", "try"} :
          /\ call' = [call EXCEPT !.at = a, !.ran = @ + 1,
                        !.shown = IF a = "answered" THEN ExposedCreator(call) ELSE None]
          /\ a = "try" => ~direct /\ call.safe
    BY <1>6 DEF Carried, Retries
  <2>4. PICK s : s = IF a = "answered" THEN ExposedCreator(call) ELSE None
    OBVIOUS
  <2>5. s \in Users \cup {None} /\ (s # None => a = "answered" /\ s = creator'[call.run])
    BY <1>0, <2>1, <2>2, <2>4 DEF ExposedCreator, RelayTypes
  <2>6. /\ call' \in CallRow /\ call'.at = a /\ call'.ran = call.ran + 1 /\ call'.shown = s
        /\ call'.run = call.run /\ call'.safe = call.safe /\ call'.kind = call.kind
        /\ call'.by = call.by /\ call'.tag = call.tag /\ call.ran \in Nat
    <3>1. call.ran \in Nat /\ call' = [call EXCEPT !.at = a, !.ran = call.ran + 1, !.shown = s]
      BY <1>0, <2>3, <2>4 DEF CallRow
    <3>2. PICK c \in CallRow : c = call
      BY <1>0
    <3>3. PICK n \in Nat : n = call.ran + 1
      BY <3>1
    <3>4. call' = [c EXCEPT !.at = a, !.ran = n, !.shown = s]
      BY <3>1, <3>2, <3>3
    <3>5. [c EXCEPT !.at = a, !.ran = n, !.shown = s] \in CallRow
      BY ONLY <2>5 DEF CallRow
    <3>6. /\ call'.at = a /\ call'.ran = n /\ call'.shown = s /\ call'.run = c.run /\ call'.safe = c.safe
          /\ call'.kind = c.kind /\ call'.by = c.by /\ call'.tag = c.tag
      BY ONLY <3>4 DEF CallRow
    <3> QED
      BY <3>1, <3>2, <3>3, <3>4, <3>5, <3>6
  <2>7. Passed(call')
    BY <2>1, <2>6 DEF Passed
  <2>8. CallInv(call)'
    BY <2>1, <2>3, <2>5, <2>6, <2>7 DEF CallInv
  <2> QED
    BY <2>2, <2>6, <2>8 DEF RelayInv, RelayTypes
<1>7. CASE UpstreamStarts \/ UNCHANGED relayVars
  BY <1>1, <1>7 DEF UpstreamStarts, relayVars
<1> QED
  BY <1>2, <1>3, <1>4, <1>5, <1>6, <1>7 DEF RelayNext, RelayCall

(* Whatever is sent to MLflow, the creator a run says it has is the account  *)
(* that created it, and a request is carried out more than once only if it   *)
(* may be.                                                                   *)
THEOREM CreatorsAreAuthors == Spec => []CreatorIsAuthor
<1> DEFINE Inv == area = "relay" => RelayInv
<1>1. Init => Inv
  BY AreaInits, RelayStart DEF AreaInit
<1>2. Inv /\ [Next]_vars => Inv'
  BY AreaSteps, RelayStep DEF AreaStep
<1>3. Inv => CreatorIsAuthor
  BY DEF RelayInv, RelayTypes, CallInv, CallRow, CreatorIsAuthor
<1> QED
  BY <1>1, <1>2, <1>3, PTL DEF Spec

-----------------------------------------------------------------------------
(* The keys of the identity provider: how old what is cached or on its way   *)
(* may be.                                                                   *)

Verification == [at : {"idle", "discover", "fetch", "fetched", "accepted", "unknownKey", "failed"},
                 key : Keys \cup {None}, tries : 0..2, since : BOOLEAN, age : Nat,
                 document : SUBSET Keys, late : Nat]
KeySet == [keys : SUBSET Keys, left : 1..Ttl]

(* A verification that waits knows its key; a document on its way is not     *)
(* older than its request, and has the key if that was there all the time.   *)
CheckOk(c, there, since) ==
  /\ c.at \in {"discover", "fetch", "fetched"} =>
       c.key \in Keys /\ c.tries \in {1, 2} /\ c.age <= MaxFetch /\ (c.since => c.key \in there)
  /\ c.at = "fetched" => /\ c.since => c.key \in c.document
                         /\ \A k \in c.document : since[k] <= 1 + c.age
  /\ c.at = "accepted" => c.late <= Ttl + MaxFetch
  /\ c.at = "unknownKey" => ~c.since

CacheOk(cached, since) ==
  cached # None => /\ cached \in KeySet
                   /\ \A k \in cached.keys : since[k] <= 1 + MaxFetch + (Ttl - cached.left)

KeyTypes ==
  /\ provided \in SUBSET Keys /\ gone \in [Keys -> Nat]
  /\ \A k \in provided : gone[k] = 0
  /\ verifications \in [Verifiers -> Verification]

KeyInv ==
  /\ KeyTypes /\ CacheOk(jwks, gone)
  /\ \A v \in Verifiers : CheckOk(verifications[v], provided, gone)

LEMMA OutcomeType ==
  ASSUME gone \in [Keys -> Nat], NEW c \in Verification, NEW at \in {"accepted", "unknownKey", "failed"},
         at = "accepted" => c.key \in Keys
  PROVE  /\ Outcome(c, at) \in Verification /\ Outcome(c, at).at = at /\ Outcome(c, at).since = c.since
         /\ at = "accepted" => Outcome(c, at).late = gone[c.key]
<1>1. PICK late \in Nat : late = IF at = "accepted" THEN gone[c.key] ELSE 0
  OBVIOUS
<1>2. PICK since : since = c.since
  OBVIOUS
<1>3. since \in BOOLEAN
  BY <1>2 DEF Verification
<1>4. PICK d : d = [at |-> at, key |-> None, tries |-> 0, since |-> since, age |-> 0,
                    document |-> {}, late |-> late]
  OBVIOUS
<1>5. Outcome(c, at) = [NoVerification EXCEPT !.at = at, !.since = since, !.late = late]
  BY <1>1, <1>2, Zenon DEF Outcome
<1>6. Outcome(c, at) = d
  BY <1>4, <1>5 DEF NoVerification
<1>7. d \in Verification /\ d.at = at /\ d.since = since /\ d.late = late
  BY <1>3, <1>4 DEF Verification
<1> QED
  BY <1>1, <1>2, <1>6, <1>7

LEMMA AsksType ==
  ASSUME NEW c \in Verification
  PROVE  /\ Asks(c) \in Verification /\ Asks(c).at \in {"discover", "fetch"} /\ Asks(c).age = 0
         /\ Asks(c).key = c.key /\ Asks(c).tries = c.tries /\ Asks(c).since = c.since
<1>1. PICK at \in {"discover", "fetch"} : at = IF discovery > 0 THEN "fetch" ELSE "discover"
  OBVIOUS
<1>2. Asks(c) = [c EXCEPT !.age = 0, !.at = at]
  BY <1>1 DEF Asks
<1>3. [c EXCEPT !.age = 0, !.at = at] \in Verification
  BY DEF Verification
<1>4. LET d == [c EXCEPT !.age = 0, !.at = at]
      IN d.at = at /\ d.age = 0 /\ d.key = c.key /\ d.tries = c.tries /\ d.since = c.since
  BY DEF Verification
<1> QED
  BY <1>2, <1>3, <1>4

(* A verification that changes is one that is in order, and the others stay  *)
(* as they were.                                                             *)
LEMMA OneVerifies ==
  ASSUME KeyInv, NEW v \in Verifiers, NEW d \in Verification, Verifies(v, d), CheckOk(d, provided, gone),
         UNCHANGED <<provided, gone>>, CacheOk(jwks', gone)
  PROVE  KeyInv'
<1>1. /\ verifications' \in [Verifiers -> Verification] /\ verifications'[v] = d
      /\ \A u \in Verifiers \ {v} : verifications'[u] = verifications[u]
  BY DEF Verifies, KeyInv, KeyTypes
<1>2. KeyTypes'
  BY <1>1 DEF KeyInv, KeyTypes
<1>3. ASSUME NEW u \in Verifiers PROVE CheckOk(verifications'[u], provided, gone)
  BY <1>1 DEF KeyInv
<1> QED
  BY <1>2, <1>3 DEF KeyInv

(* A lookup among keys that are not too old.                                 *)
LEMMA LooksUp ==
  ASSUME KeyInv, NEW v \in Verifiers, NEW c \in Verification, NEW cached \in KeySet,
         \A k \in cached.keys : gone[k] <= 1 + MaxFetch + (Ttl - cached.left),
         c.key \in Keys, c.tries \in {1, 2}, c.since => c.key \in provided,
         c.tries = 2 /\ c.since => c.key \in cached.keys,
         LookedUp(v, c, cached), UNCHANGED <<provided, gone>>
  PROVE  KeyInv'
<1>0. gone \in [Keys -> Nat] /\ MaxFetch \in Nat /\ Ttl \in Nat /\ cached.left \in 1..Ttl
  BY TimesAssumption DEF KeyInv, KeyTypes, KeySet
<1>1. CacheOk(cached, gone)
  BY DEF CacheOk
<1>2. CASE /\ c.key \in cached.keys /\ jwks' = cached
           /\ Verifies(v, Outcome(c, "accepted"))
  <2>1. PICK d : d = Outcome(c, "accepted")
    OBVIOUS
  <2>2. d \in Verification /\ d.at = "accepted" /\ d.late = gone[c.key]
    BY <1>0, <2>1, OutcomeType
  <2>3. gone[c.key] <= 1 + MaxFetch + (Ttl - cached.left) /\ gone[c.key] \in Nat
    BY <1>0, <1>2
  <2>4. gone[c.key] <= Ttl + MaxFetch
    BY <1>0, <2>3
  <2>5. CheckOk(d, provided, gone)
    BY <2>2, <2>4 DEF CheckOk
  <2> QED
    BY <1>1, <1>2, <2>1, <2>2, <2>5, OneVerifies
<1>3. CASE /\ c.key \notin cached.keys /\ c.tries = 1 /\ jwks' = None
           /\ Verifies(v, Asks([c EXCEPT !.tries = 2]))
  <2>1. PICK e : e = [c EXCEPT !.tries = 2]
    OBVIOUS
  <2>2. e \in Verification /\ e.key = c.key /\ e.tries = 2 /\ e.since = c.since
    BY <2>1 DEF Verification
  <2>3. PICK d : d = Asks(e)
    OBVIOUS
  <2>4. d \in Verification /\ d.at \in {"discover", "fetch"} /\ d.age = 0
        /\ d.key = c.key /\ d.tries = 2 /\ d.since = c.since
    BY <2>2, <2>3, AsksType
  <2>5. CheckOk(d, provided, gone)
    BY <1>0, <2>4 DEF CheckOk
  <2>6. CacheOk(jwks', gone)
    BY <1>3 DEF CacheOk
  <2> QED
    BY <1>3, <2>1, <2>3, <2>4, <2>5, <2>6, OneVerifies
<1>4. CASE /\ c.key \notin cached.keys /\ c.tries = 2 /\ jwks' = cached
           /\ Verifies(v, Outcome(c, "unknownKey"))
  <2>1. PICK d : d = Outcome(c, "unknownKey")
    OBVIOUS
  <2>2. d \in Verification /\ d.at = "unknownKey" /\ d.since = c.since
    BY <1>0, <2>1, OutcomeType
  <2>3. CheckOk(d, provided, gone)
    BY <1>4, <2>2 DEF CheckOk
  <2> QED
    BY <1>1, <1>4, <2>1, <2>2, <2>3, OneVerifies
<1> QED
  BY <1>2, <1>3, <1>4 DEF LookedUp

LEMMA KeysStart == KeyInit => KeyInv
<1> SUFFICES ASSUME KeyInit PROVE KeyInv
  OBVIOUS
<1>1. NoVerification \in Verification
  BY DEF NoVerification, Verification
<1>2. CheckOk(NoVerification, provided, gone)
  BY DEF NoVerification, CheckOk
<1> QED
  BY <1>1, <1>2 DEF KeyInit, KeyInv, KeyTypes, CacheOk

(* A step of a verification.                                                 *)
LEMMA VerificationSteps ==
  ASSUME KeyInv, NEW v \in Verifiers,
         \/ \E k \in Keys : StartVerification(v, k)
         \/ Discovered(v) \/ ServeKeys(v) \/ KeysArrive(v) \/ FetchFails(v)
  PROVE  KeyInv'
<1>0. /\ gone \in [Keys -> Nat] /\ MaxFetch \in Nat /\ Ttl \in Nat \ {0} /\ provided \in SUBSET Keys
      /\ \A k \in provided : gone[k] = 0
  BY TimesAssumption DEF KeyInv, KeyTypes
<1>c. PICK c \in Verification : c = verifications[v]
  BY DEF KeyInv, KeyTypes
<1>i. CheckOk(c, provided, gone) /\ CacheOk(jwks, gone)
  BY <1>c DEF KeyInv
<1>1. ASSUME NEW k \in Keys, StartVerification(v, k) PROVE KeyInv'
  <2>1. PICK n : n = NewVerification(k)
    OBVIOUS
  <2>2. PICK since : since = (k \in provided)
    OBVIOUS
  <2>3. since \in BOOLEAN /\ (since => k \in provided)
    <3>1. CASE k \in provided
      BY <2>2, <3>1
    <3>2. CASE k \notin provided
      <4>1. (k \in provided) = FALSE
        BY <3>2
      <4>2. since = FALSE
        BY <2>2, <4>1
      <4> QED
        BY <4>2
    <3> QED
      BY <3>1, <3>2
  <2>4. n \in Verification /\ n.key = k /\ n.tries = 1 /\ (n.since => k \in provided)
    <3>1. n = [NoVerification EXCEPT !.key = k, !.tries = 1, !.since = since]
      BY <2>1, <2>2, Zenon DEF NewVerification
    <3>2. n = [at |-> "idle", key |-> k, tries |-> 1, since |-> since, age |-> 0, document |-> {}, late |-> 0]
      BY <3>1 DEF NoVerification
    <3>3. n \in Verification /\ n.key = k /\ n.tries = 1 /\ n.since = since
      BY ONLY <2>3, <3>2, k \in Keys DEF Verification
    <3> QED
      BY <2>3, <3>3
  <2>5. UNCHANGED <<provided, gone>>
    BY <1>1 DEF StartVerification
  <2>6. CASE jwks # None
    <3>1. PICK cached : cached = jwks
      OBVIOUS
    <3>2. cached \in KeySet /\ \A q \in cached.keys : gone[q] <= 1 + MaxFetch + (Ttl - cached.left)
      BY <1>i, <2>6, <3>1 DEF CacheOk
    <3>3. LookedUp(v, n, cached)
      BY <1>1, <2>1, <2>6, <3>1 DEF StartVerification
    <3> QED
      BY <2>4, <2>5, <3>2, <3>3, LooksUp
  <2>7. CASE jwks = None
    <3>1. PICK d : d = Asks(n)
      OBVIOUS
    <3>2. d \in Verification /\ d.at \in {"discover", "fetch"} /\ d.age = 0
          /\ d.key = k /\ d.tries = 1 /\ d.since = n.since
      BY <2>4, <3>1, AsksType
    <3>3. CheckOk(d, provided, gone)
      BY <1>0, <2>4, <3>2 DEF CheckOk
    <3>4. Verifies(v, d) /\ jwks' = jwks
      BY <1>1, <2>1, <2>7, <3>1 DEF StartVerification
    <3> QED
      BY <1>i, <2>5, <3>2, <3>3, <3>4, OneVerifies
  <2> QED
    BY <2>6, <2>7
<1>2. CASE Discovered(v)
  <2>1. PICK d : d = [c EXCEPT !.at = "fetch", !.age = 0]
    OBVIOUS
  <2>2. d \in Verification /\ d.at = "fetch" /\ d.age = 0 /\ d.key = c.key /\ d.tries = c.tries /\ d.since = c.since
    BY <2>1 DEF Verification
  <2>3. c.at = "discover" /\ Verifies(v, d) /\ UNCHANGED <<provided, gone, jwks>>
    BY <1>2, <1>c, <2>1 DEF Discovered
  <2>4. CheckOk(d, provided, gone)
    BY <1>0, <1>i, <2>2, <2>3 DEF CheckOk
  <2> QED
    BY <1>i, <2>2, <2>3, <2>4, OneVerifies
<1>3. CASE ServeKeys(v)
  <2>1. PICK d : d = [c EXCEPT !.at = "fetched", !.document = provided]
    OBVIOUS
  <2>2. d \in Verification
    BY <1>0, <2>1 DEF Verification
  <2>3. /\ d.at = "fetched" /\ d.document = provided /\ d.key = c.key /\ d.tries = c.tries /\ d.since = c.since
        /\ d.age = c.age /\ c.age \in Nat
    BY <2>1 DEF Verification
  <2>4. c.at = "fetch" /\ Verifies(v, d) /\ UNCHANGED <<provided, gone, jwks>>
    BY <1>3, <1>c, <2>1 DEF ServeKeys
  <2>5. \A k \in d.document : gone[k] <= 1 + d.age
    BY <1>0, <2>3
  <2>6. CheckOk(d, provided, gone)
    BY <1>i, <2>3, <2>4, <2>5 DEF CheckOk
  <2> QED
    BY <1>i, <2>2, <2>4, <2>6, OneVerifies
<1>4. CASE KeysArrive(v)
  <2>1. PICK cached : cached = [keys |-> c.document, left |-> Ttl]
    OBVIOUS
  <2>2. c.at = "fetched" /\ LookedUp(v, c, cached) /\ UNCHANGED <<provided, gone>>
    BY <1>4, <1>c, <2>1 DEF KeysArrive
  <2>3. cached \in KeySet /\ cached.keys = c.document /\ cached.left = Ttl
    BY <1>0, <2>1 DEF KeySet, Verification
  <2>4. /\ c.key \in Keys /\ c.tries \in {1, 2} /\ c.age <= MaxFetch /\ (c.since => c.key \in provided)
        /\ c.since => c.key \in c.document
        /\ \A k \in c.document : gone[k] <= 1 + c.age
    BY <1>i, <2>2 DEF CheckOk
  <2>5. ASSUME NEW k \in cached.keys PROVE gone[k] <= 1 + MaxFetch + (Ttl - cached.left)
    <3>1. gone[k] \in Nat /\ c.age \in Nat /\ gone[k] <= 1 + c.age
      BY <1>0, <2>3, <2>4 DEF KeySet, Verification
    <3> QED
      BY <1>0, <2>3, <2>4, <3>1
  <2> QED
    BY <2>2, <2>3, <2>4, <2>5, LooksUp
<1>5. CASE FetchFails(v)
  <2>1. PICK d : d = Outcome(c, "failed")
    OBVIOUS
  <2>2. d \in Verification /\ d.at = "failed"
    BY <1>0, <2>1, OutcomeType
  <2>3. Verifies(v, d) /\ UNCHANGED <<provided, gone, jwks>>
    BY <1>5, <1>c, <2>1 DEF FetchFails
  <2>4. CheckOk(d, provided, gone)
    BY <2>2 DEF CheckOk
  <2> QED
    BY <1>i, <2>2, <2>3, <2>4, OneVerifies
<1> QED
  BY <1>1, <1>2, <1>3, <1>4, <1>5

(* Time passes: a document and the cached keys get older together with what  *)
(* was withdrawn since.                                                      *)
LEMMA TimeSteps == KeyInv /\ TimePasses => KeyInv'
<1> SUFFICES ASSUME KeyInv, TimePasses PROVE KeyInv'
  OBVIOUS
<1>0. /\ gone \in [Keys -> Nat] /\ MaxFetch \in Nat /\ Ttl \in Nat \ {0} /\ provided \in SUBSET Keys
      /\ verifications \in [Verifiers -> Verification] /\ provided' = provided
      /\ \A k \in provided : gone[k] = 0
  BY TimesAssumption DEF KeyInv, KeyTypes, TimePasses
<1>1. /\ gone' \in [Keys -> Nat] /\ \A k \in Keys : gone'[k] <= gone[k] + 1 /\ (gone[k] = 0 => gone'[k] = 0)
  <2>1. gone' = [k \in Keys |-> IF gone[k] \in 1..(Ttl + MaxFetch) THEN gone[k] + 1 ELSE gone[k]]
    BY DEF TimePasses
  <2> QED
    BY <1>0, <2>1
<1>2. ASSUME NEW v \in Verifiers
      PROVE  verifications'[v] \in Verification /\ CheckOk(verifications'[v], provided, gone')
  <2>c. PICK c \in Verification : c = verifications[v]
    BY <1>0
  <2>i. CheckOk(c, provided, gone)
    BY <2>c DEF KeyInv
  <2>1. verifications'[v] = IF Waiting(v) THEN [c EXCEPT !.age = @ + 1] ELSE c
    BY <2>c DEF TimePasses
  <2>2. CASE ~Waiting(v)
    <3>1. c.at \notin {"discover", "fetch", "fetched"} /\ verifications'[v] = c
      BY <2>1, <2>2, <2>c DEF Waiting
    <3> QED
      BY <2>i, <3>1 DEF CheckOk
  <2>3. CASE Waiting(v)
    <3>1. c.age < MaxFetch /\ c.age \in Nat /\ c.at \in {"discover", "fetch", "fetched"}
      BY <2>3, <2>c DEF TimePasses, Waiting, Verification
    <3>2. PICK d : d = [c EXCEPT !.age = c.age + 1]
      OBVIOUS
    <3>3. verifications'[v] = d
      BY <2>1, <2>3, <3>2
    <3>4. /\ d \in Verification /\ d.age = c.age + 1 /\ d.at = c.at /\ d.key = c.key /\ d.tries = c.tries
          /\ d.since = c.since /\ d.document = c.document /\ d.document \subseteq Keys
      BY <3>1, <3>2 DEF Verification
    <3>5. d.age <= MaxFetch
      BY <1>0, <3>1, <3>4
    <3>6. ASSUME d.at = "fetched", NEW k \in d.document PROVE gone'[k] <= 1 + d.age
      <4>1. gone[k] <= 1 + c.age /\ k \in Keys
        BY <2>i, <3>4, <3>6 DEF CheckOk
      <4>2. gone'[k] <= gone[k] + 1 /\ gone'[k] \in Nat /\ gone[k] \in Nat
        BY <1>0, <1>1, <4>1
      <4> QED
        BY <3>1, <3>4, <4>1, <4>2
    <3>7. CheckOk(d, provided, gone')
      BY <2>i, <3>1, <3>4, <3>5, <3>6 DEF CheckOk
    <3> QED
      BY <3>3, <3>4, <3>7
  <2> QED
    BY <2>2, <2>3
<1>3. KeyTypes'
  <2>1. verifications' \in [Verifiers -> Verification]
    <3>1. verifications' = [v \in Verifiers |-> verifications'[v]]
      BY DEF TimePasses
    <3> QED
      BY <1>2, <3>1
  <2> QED
    BY <1>0, <1>1, <2>1 DEF KeyTypes
<1>4. CacheOk(jwks', gone')
  <2>1. CASE jwks = None \/ jwks.left = 1
    BY <2>1 DEF TimePasses, Older, CacheOk
  <2>2. CASE jwks # None /\ jwks.left # 1
    <3>1. PICK j \in KeySet : j = jwks
      BY <2>2 DEF KeyInv, CacheOk
    <3>2. j.left \in 1..Ttl /\ j.keys \subseteq Keys /\ \A k \in j.keys : gone[k] <= 1 + MaxFetch + (Ttl - j.left)
      BY <2>2, <3>1 DEF KeyInv, CacheOk, KeySet
    <3>3. jwks' = [j EXCEPT !.left = j.left - 1]
      BY <2>2, <3>1 DEF TimePasses, Older
    <3>4. j.left - 1 \in 1..Ttl
      BY <1>0, <2>2, <3>1, <3>2
    <3>5. jwks' \in KeySet /\ jwks'.keys = j.keys /\ jwks'.left = j.left - 1
      BY <3>3, <3>4 DEF KeySet
    <3>6. ASSUME NEW k \in j.keys PROVE gone'[k] <= 1 + MaxFetch + (Ttl - (j.left - 1))
      <4>1. gone'[k] <= gone[k] + 1 /\ gone'[k] \in Nat /\ gone[k] \in Nat /\ gone[k] <= 1 + MaxFetch + (Ttl - j.left)
        BY <1>0, <1>1, <3>2
      <4> QED
        BY <1>0, <3>2, <4>1
    <3> QED
      BY <3>5, <3>6 DEF CacheOk
  <2> QED
    BY <2>1, <2>2
<1> QED
  BY <1>0, <1>2, <1>3, <1>4 DEF KeyInv

(* The provider adds a key that never was, or withdraws one.                 *)
LEMMA RotationSteps == ASSUME KeyInv, NEW k \in Keys, AddKey(k) \/ WithdrawKey(k) PROVE KeyInv'
<1>0. /\ gone \in [Keys -> Nat] /\ MaxFetch \in Nat /\ Ttl \in Nat \ {0} /\ provided \in SUBSET Keys
      /\ verifications \in [Verifiers -> Verification] /\ jwks' = jwks
      /\ \A q \in provided : gone[q] = 0
  BY TimesAssumption DEF KeyInv, KeyTypes, AddKey, WithdrawKey
<1>1. CASE AddKey(k)
  <2>1. provided' = provided \cup {k} /\ gone[k] = 0 /\ UNCHANGED <<gone, verifications>>
    BY <1>1 DEF AddKey
  <2>2. KeyTypes'
    BY <1>0, <2>1 DEF KeyTypes
  <2>3. ASSUME NEW v \in Verifiers PROVE CheckOk(verifications[v], provided', gone)
    BY <2>1 DEF KeyInv, CheckOk
  <2> QED
    BY <1>0, <2>1, <2>2, <2>3 DEF KeyInv
<1>2. CASE WithdrawKey(k)
  <2>1. /\ k \in provided /\ provided' = provided \ {k} /\ gone' = [gone EXCEPT ![k] = 1] /\ gone[k] = 0
        /\ verifications' = [v \in Verifiers |-> [verifications[v] EXCEPT !.since = @ /\ verifications[v].key # k]]
    BY <1>0, <1>2 DEF WithdrawKey
  <2>2. gone' \in [Keys -> Nat] /\ gone'[k] = 1 /\ \A q \in Keys \ {k} : gone'[q] = gone[q]
    BY <1>0, <2>1
  <2>3. ASSUME NEW v \in Verifiers
        PROVE  verifications'[v] \in Verification /\ CheckOk(verifications'[v], provided', gone')
    <3>c. PICK c \in Verification : c = verifications[v]
      BY <1>0
    <3>i. CheckOk(c, provided, gone)
      BY <3>c DEF KeyInv
    <3>0. c.since \in BOOLEAN /\ c.age \in Nat /\ c.document \subseteq Keys
      BY DEF Verification
    <3>1. PICK since \in BOOLEAN : since = (c.since /\ c.key # k)
      BY <3>0
    <3>2. PICK d : d = [c EXCEPT !.since = since]
      OBVIOUS
    <3>3. verifications'[v] = d
      BY <2>1, <3>c, <3>1, <3>2
    <3>4. d \in Verification
      BY <3>2 DEF Verification
    <3>5. /\ d.since = since /\ d.at = c.at /\ d.key = c.key /\ d.tries = c.tries /\ d.age = c.age
          /\ d.document = c.document /\ d.late = c.late
      BY <3>2 DEF Verification
    <3>6. ASSUME d.at = "fetched", NEW q \in d.document PROVE gone'[q] <= 1 + d.age
      <4>1. gone[q] <= 1 + c.age /\ q \in Keys
        BY <3>i, <3>0, <3>5, <3>6 DEF CheckOk
      <4> QED
        BY <1>0, <2>2, <3>0, <3>5, <4>1
    <3>7. CheckOk(d, provided', gone')
      BY <2>1, <3>1, <3>i, <3>5, <3>6 DEF CheckOk
    <3> QED
      BY <3>3, <3>4, <3>7
  <2>4. verifications' \in [Verifiers -> Verification]
    BY <2>1, <2>3
  <2>5. KeyTypes'
    BY <1>0, <2>1, <2>2, <2>4 DEF KeyTypes
  <2>6. CacheOk(jwks, gone')
    <3>1. ASSUME jwks # None, NEW q \in jwks.keys PROVE gone'[q] <= 1 + MaxFetch + (Ttl - jwks.left)
      <4>1. jwks.left \in 1..Ttl /\ q \in Keys /\ gone[q] <= 1 + MaxFetch + (Ttl - jwks.left)
        BY <3>1 DEF KeyInv, CacheOk, KeySet
      <4> QED
        BY <1>0, <2>2, <4>1
    <3> QED
      BY <3>1 DEF KeyInv, CacheOk
  <2> QED
    BY <1>0, <2>3, <2>5, <2>6 DEF KeyInv
<1> QED
  BY <1>1, <1>2

(* A token is refused for an unknown key only if its key was not published   *)
(* all the time, and a withdrawn key is accepted no longer than the keys are *)
(* cached and a request takes.                                               *)
THEOREM KeysStayCurrent == Spec => []KeysAreCurrent
<1> DEFINE Inv == area = "keys" => KeyInv
<1>1. Init => Inv
  BY AreaInits, KeysStart DEF AreaInit
<1>2. Inv /\ [Next]_vars => Inv'
  <2>1. ASSUME KeyInv, KeyNext PROVE KeyInv'
    BY <2>1, TimeSteps, RotationSteps, VerificationSteps DEF KeyNext
  <2>2. ASSUME KeyInv, UNCHANGED keyVars PROVE KeyInv'
    BY <2>2 DEF keyVars, KeyInv, KeyTypes, CheckOk, CacheOk
  <2> QED
    BY <2>1, <2>2, AreaSteps DEF AreaStep
<1>3. Inv => KeysAreCurrent
  BY DEF KeyInv, CheckOk, KeysAreCurrent
<1> QED
  BY <1>1, <1>2, <1>3, PTL DEF Spec

-----------------------------------------------------------------------------
(* The start of processes on an older database: which columns a process has  *)
(* seen to at each point of init_db(), whatever the others do meanwhile.     *)

Allowed(t) == EntityOf(t) \cup (IF t = "oidc" THEN Obsolete ELSE {})

Database == {db \in [Tables -> (SUBSET Columns) \cup {None}] :
               \A t \in Tables : db[t] = None \/ db[t] \in SUBSET Allowed(t)}

(* The columns of a table that are there once what precedes n is done.       *)
Due(n, t) ==
  CASE t = "users" -> IF n > 3 THEN EntityOf(t) ELSE {}
    [] t = "instances" -> IF n > 4 THEN EntityOf(t) ELSE IF n > 2 THEN {"fence"} ELSE {}
    [] t = "oidc" -> IF n > 5 THEN EntityOf(t) ELSE {}
    [] t = "perf" -> IF n > 6 THEN EntityOf(t) ELSE {}
    [] t = "mlflow" -> IF n > 8 THEN EntityOf(t) ELSE {}
    [] t = "credentials" -> IF n > 9 THEN EntityOf(t) ELSE {}
    [] OTHER -> {}

TableDone(n, t, x) ==
  x # None /\ Due(n, t) \subseteq x /\ (n > 5 => x \cap Obsolete = {})

(* What a process in state s may rely on.                                    *)
Relies(s, db) ==
  /\ s.next = Creating => \A t \in Tables \ s.missing : db[t] # None
  /\ s.next >= 2 => \A t \in Tables : TableDone(s.next, t, db[t])

StartRow == [next : 0..10, missing : SUBSET Tables]

SchemaInv ==
  /\ tables \in Database /\ starts \in [Processes -> StartRow]
  /\ \A p \in Processes : Relies(starts[p], tables)

(* No column of an entity is ever taken away, and no other one is added.     *)
Grows(db, new) ==
  /\ new \in Database
  /\ \A t \in Tables : db[t] # None =>
       new[t] # None /\ EntityOf(t) \cap db[t] \subseteq new[t] /\ new[t] \cap Obsolete \subseteq db[t]

LEMMA DueOfEntity == ASSUME NEW n \in Nat, NEW t \in Tables PROVE Due(n, t) \subseteq EntityOf(t)
<1>1. "fence" \in EntityOf("instances")
  BY DEF EntityOf
<1> QED
  BY <1>1 DEF Due, Tables

LEMMA GrowthKeeps ==
  ASSUME NEW db \in Database, NEW new, Grows(db, new), NEW s \in StartRow, Relies(s, db)
  PROVE  Relies(s, new)
<1>0. s.next \in Nat
  BY DEF StartRow
<1>1. ASSUME s.next = Creating PROVE \A t \in Tables \ s.missing : new[t] # None
  BY <1>1 DEF Relies, Grows
<1>2. ASSUME s.next >= 2, NEW t \in Tables PROVE TableDone(s.next, t, new[t])
  <2>1. TableDone(s.next, t, db[t])
    BY <1>2 DEF Relies
  <2>2. Due(s.next, t) \subseteq EntityOf(t) \cap db[t]
    BY <1>0, <2>1, DueOfEntity DEF TableDone
  <2>3. new[t] # None /\ EntityOf(t) \cap db[t] \subseteq new[t] /\ new[t] \cap Obsolete \subseteq db[t]
    BY <2>1 DEF TableDone, Grows
  <2> QED
    BY <2>1, <2>2, <2>3 DEF TableDone
<1> QED
  BY <1>1, <1>2 DEF Relies

(* A step of p that leaves the tables larger and p where it may be.          *)
LEMMA ProcessSteps ==
  ASSUME SchemaInv, NEW p \in Processes, NEW s \in StartRow, starts' = [starts EXCEPT ![p] = s],
         Grows(tables, tables'), Relies(s, tables')
  PROVE  SchemaInv'
<1>1. PICK new : new = tables'
  OBVIOUS
<1>2. Grows(tables, new) /\ Relies(s, new) /\ new \in Database
  BY <1>1 DEF Grows
<1>3. /\ starts' \in [Processes -> StartRow] /\ starts'[p] = s
      /\ \A q \in Processes \ {p} : starts'[q] = starts[q]
  BY DEF SchemaInv
<1>4. ASSUME NEW q \in Processes PROVE Relies(starts'[q], new)
  <2>1. CASE q = p
    BY <1>2, <1>3, <2>1
  <2>2. CASE q # p
    BY <1>2, <1>3, <2>2, GrowthKeeps DEF SchemaInv
  <2> QED
    BY <2>1, <2>2
<1> QED
  BY <1>1, <1>2, <1>3, <1>4 DEF SchemaInv

LEMMA EntityColumns ==
  Obsolete \subseteq Columns /\ \A t \in Tables : EntityOf(t) \subseteq Columns
<1>1. ASSUME NEW t \in Tables, NEW c \in EntityOf(t) PROVE c \in UNION {EntityOf(u) : u \in Tables}
  OBVIOUS
<1>2. PICK all : all = UNION {EntityOf(t) : t \in Tables}
  OBVIOUS
<1>3. ASSUME NEW t \in Tables PROVE EntityOf(t) \subseteq all
  BY <1>1, <1>2, Zenon
<1>4. Columns = all \cup Obsolete
  BY <1>2, Zenon DEF Columns
<1> QED
  BY <1>3, <1>4

LEMMA Unchanged == ASSUME NEW db \in Database PROVE Grows(db, db)
BY DEF Grows

(* One table gets columns.                                                   *)
LEMMA TableChanges ==
  ASSUME NEW db \in Database, NEW t \in Tables, NEW x \in SUBSET Allowed(t), NEW n \in Nat,
         \A u \in Tables : TableDone(n, u, db[u]),
         EntityOf(t) \cap db[t] \subseteq x, x \cap Obsolete \subseteq db[t],
         \A u \in Tables \ {t} : Due(n + 1, u) = Due(n, u),
         n # 5 \/ t = "oidc", Due(n + 1, t) \subseteq x, n + 1 > 5 => x \cap Obsolete = {},
         NEW new, new = [db EXCEPT ![t] = x]
  PROVE  Grows(db, new) /\ \A u \in Tables : TableDone(n + 1, u, new[u])
<1>1. x \in SUBSET Columns /\ x # None
  <2>1. x \in SUBSET Columns
    BY EntityColumns DEF Allowed
  <2> QED
    BY <2>1, AbsentTable
<1>2. new[t] = x /\ \A u \in Tables \ {t} : new[u] = db[u]
  BY DEF Database
<1>3. new \in Database
  BY <1>1, <1>2 DEF Database
<1>4. ASSUME NEW u \in Tables, u # t PROVE TableDone(n + 1, u, new[u])
  <2>1. new[u] = db[u] /\ TableDone(n, u, db[u])
    BY <1>2, <1>4
  <2>2. n = 5 => db[u] \cap Obsolete = {}
    BY <1>4, <2>1, <1>3 DEF Database, Allowed, TableDone, EntityOf, Obsolete, Tables
  <2> QED
    BY <1>4, <2>1, <2>2 DEF TableDone
<1>5. TableDone(n + 1, t, new[t])
  BY <1>1, <1>2 DEF TableDone
<1>6. Grows(db, new)
  BY <1>1, <1>2, <1>3 DEF Grows
<1> QED
  BY <1>4, <1>5, <1>6

(* Each migration adds to one table, or takes from it what no entity has.    *)
LEMMA MigrationSteps ==
  ASSUME NEW db \in Database, NEW n \in Migrations, \A t \in Tables : TableDone(n, t, db[t])
  PROVE  /\ Grows(db, Migrated(n, db))
         /\ \A t \in Tables : TableDone(n + 1, t, Migrated(n, db)[t])
<1>0. \A t \in Tables : db[t] # None /\ db[t] \in SUBSET Allowed(t)
  BY DEF TableDone, Database
<1> DEFINE Adds(t, columns) ==
             /\ Migrated(n, db) = [db EXCEPT ![t] = @ \cup columns]
             /\ columns \subseteq EntityOf(t) /\ columns \cap Obsolete = {}
             /\ \A u \in Tables \ {t} : Due(n + 1, u) = Due(n, u)
             /\ Due(n + 1, t) \subseteq Due(n, t) \cup columns
             /\ n # 5
<1>a. ASSUME NEW t \in Tables, NEW columns, Adds(t, columns)
      PROVE  /\ Grows(db, Migrated(n, db))
             /\ \A u \in Tables : TableDone(n + 1, u, Migrated(n, db)[u])
  <2>1. PICK x : x = db[t] \cup columns
    OBVIOUS
  <2>2. /\ x \in SUBSET Allowed(t) /\ EntityOf(t) \cap db[t] \subseteq x /\ x \cap Obsolete \subseteq db[t]
        /\ Due(n + 1, t) \subseteq x
    BY <1>0, <1>a, <2>1 DEF Allowed, TableDone
  <2>3. n + 1 > 5 => x \cap Obsolete = {}
    BY <1>a, <2>1 DEF TableDone, Migrations
  <2>4. PICK new : new = Migrated(n, db)
    OBVIOUS
  <2>5. new = [db EXCEPT ![t] = x]
    BY <1>a, <2>1, <2>4
  <2>6. n \in Nat /\ n # 5 /\ \A u \in Tables \ {t} : Due(n + 1, u) = Due(n, u)
    BY <1>a DEF Migrations
  <2> HIDE DEF Adds
  <2>7. Grows(db, new) /\ \A u \in Tables : TableDone(n + 1, u, new[u])
    BY <2>2, <2>3, <2>5, <2>6, TableChanges
  <2> QED
    BY <2>4, <2>7
<1>1. CASE n = 2
  <2>1. Adds("instances", {"fence"})
    BY <1>0, <1>1 DEF Migrated, FenceColumn, AddColumns, EntityOf, Obsolete, Due, Tables
  <2> QED
    BY <1>a, <2>1 DEF Tables
<1>2. CASE n = 3
  <2>1. Adds("users", {"credential_version"})
    BY <1>0, <1>2 DEF Migrated, UsersLifecycle, AddColumns, EntityOf, Obsolete, Due, Tables
  <2> QED
    BY <1>a, <2>1 DEF Tables
<1>3. CASE n = 4
  <2>1. Adds("instances", {"models", "health", "tls", "metrics", "deployment"})
    BY <1>0, <1>3 DEF Migrated, InstanceColumns, AddColumns, EntityOf, Obsolete, Due, Tables
  <2> QED
    BY <1>a, <2>1 DEF Tables
<1>4. CASE n = 5
  <2>1. PICK x : x = (db["oidc"] \cup {"client"}) \ Obsolete
    OBVIOUS
  <2>2. "oidc" \in Tables /\ EntityOf("oidc") = {"client"} /\ "client" \notin Obsolete
    BY DEF Tables, EntityOf, Obsolete
  <2>3. x \in SUBSET Allowed("oidc") /\ x \cap Obsolete = {} /\ "client" \in x
        /\ EntityOf("oidc") \cap db["oidc"] \subseteq x
    BY <1>0, <2>1, <2>2 DEF Allowed
  <2>4. Due(n + 1, "oidc") \subseteq x
    BY <1>4, <2>2, <2>3 DEF Due
  <2>5. \A u \in Tables \ {"oidc"} : Due(n + 1, u) = Due(n, u)
    BY <1>4 DEF Due, Tables
  <2>6. Migrated(n, db) = [db EXCEPT !["oidc"] = x]
    <3>1. Migrated(n, db) = OidcColumns(db)
      BY <1>4 DEF Migrated
    <3>2. PICK y : y = db["oidc"] \cup {"client"}
      OBVIOUS
    <3>3. AddColumns(db, "oidc", {"client"}) = [db EXCEPT !["oidc"] = y]
      BY <1>0, <2>2, <3>2 DEF AddColumns
    <3>4. y # None
      <4>1. y \in SUBSET Columns
        BY <1>0, <2>2, <3>2, EntityColumns DEF Allowed
      <4> QED
        BY <4>1, AbsentTable
    <3>5. db \in [Tables -> (SUBSET Columns) \cup {None}]
      BY DEF Database
    <3>6. OidcColumns(db) = [[db EXCEPT !["oidc"] = y] EXCEPT !["oidc"] = y \ Obsolete]
      BY <2>2, <3>3, <3>4, <3>5 DEF OidcColumns
    <3> QED
      BY <2>1, <2>2, <3>1, <3>2, <3>5, <3>6
  <2>7. n \in Nat /\ x \cap Obsolete \subseteq db["oidc"]
    BY <1>4, <2>3
  <2> QED
    BY <2>2, <2>3, <2>4, <2>5, <2>6, <2>7, TableChanges
<1>5. CASE n = 6
  <2>1. Adds("perf", {"status"})
    BY <1>0, <1>5 DEF Migrated, PerfColumns, AddColumns, EntityOf, Obsolete, Due, Tables
  <2> QED
    BY <1>a, <2>1 DEF Tables
<1>6. CASE n = 7
  <2>1. Migrated(n, db) = [db EXCEPT !["profiles"] = @ \cup {}]
    <3>1. Migrated(n, db) = ProfilesTable(db)
      BY <1>6 DEF Migrated
    <3>2. db["profiles"] # None /\ "profiles" \in Tables
      BY <1>0 DEF Tables
    <3>3. db["profiles"] \cup {} = db["profiles"]
      BY <3>2, <1>0
    <3> QED
      BY <3>1, <3>2, <3>3 DEF ProfilesTable
  <2>2. Adds("profiles", {})
    BY <1>6, <2>1 DEF EntityOf, Obsolete, Due, Tables
  <2> QED
    BY <1>a, <2>2 DEF Tables
<1>7. CASE n = 8
  <2>1. Adds("mlflow", {"profile", "status"})
    BY <1>0, <1>7 DEF Migrated, MlflowColumns, AddColumns, EntityOf, Obsolete, Due, Tables
  <2> QED
    BY <1>a, <2>1 DEF Tables
<1>8. CASE n = 9
  <2>1. Adds("credentials", {"profile"})
    BY <1>0, <1>8 DEF Migrated, WorkflowLinks, AddColumns, EntityOf, Obsolete, Due, Tables
  <2> QED
    BY <1>a, <2>1 DEF Tables
<1> QED
  BY <1>1, <1>2, <1>3, <1>4, <1>5, <1>6, <1>7, <1>8 DEF Migrations

LEMMA SchemaStarts == SchemaInit => SchemaInv
<1> SUFFICES ASSUME SchemaInit PROVE SchemaInv
  OBVIOUS
<1>1. starts \in [Processes -> StartRow] /\ \A p \in Processes : starts[p].next = 0
  BY DEF SchemaInit, StartRow, Down
<1>2. \A p \in Processes : Relies(starts[p], tables)
  BY <1>1 DEF Relies, Creating
<1>3. \A t \in Tables : \A x \in OlderTable(t) : x = None \/ x \in SUBSET Allowed(t)
  BY DEF OlderTable, Allowed
<1>4. \A t \in Tables : EntityOf(t) \in SUBSET Allowed(t) /\ Allowed(t) \subseteq Columns
  BY EntityColumns DEF Allowed
<1>5. ASSUME tables = [t \in Tables |-> None] \/ tables = [t \in Tables |-> {}]
      PROVE  tables \in Database
  BY <1>5 DEF Database
<1>6. ASSUME NEW a \in Tables, NEW b \in Tables, NEW x \in OlderTable(a), NEW y \in OlderTable(b),
             tables = Aged(a, x, b, y)
      PROVE  tables \in Database
  <2>1. ASSUME NEW t \in Tables PROVE tables[t] = None \/ tables[t] \in SUBSET Allowed(t)
    BY <1>3, <1>4, <1>6 DEF Aged
  <2>2. tables = [t \in Tables |-> tables[t]]
    BY <1>6 DEF Aged
  <2>3. ASSUME NEW t \in Tables PROVE tables[t] \in (SUBSET Columns) \cup {None}
    BY <2>1, <1>4
  <2> QED
    BY <2>1, <2>2, <2>3 DEF Database
<1>7. ASSUME tables \in UNION {{Aged(a, x, b, y) : x \in OlderTable(a), y \in OlderTable(b)} :
                                a \in Tables, b \in Tables}
      PROVE  tables \in Database
  <2>1. PICK a \in Tables, b \in Tables :
          tables \in {Aged(a, x, b, y) : x \in OlderTable(a), y \in OlderTable(b)}
    BY <1>7
  <2>2. PICK x \in OlderTable(a), y \in OlderTable(b) : tables = Aged(a, x, b, y)
    BY <2>1
  <2> QED
    BY <2>2, <1>6
<1>9. tables \in Database
  BY <1>5, <1>7 DEF SchemaInit, Databases
<1> QED
  BY <1>1, <1>2, <1>9 DEF SchemaInv

LEMMA SchemaStep == SchemaInv /\ (SchemaNext \/ UNCHANGED schemaVars) => SchemaInv'
<1> SUFFICES ASSUME SchemaInv, SchemaNext \/ UNCHANGED schemaVars PROVE SchemaInv'
  OBVIOUS
<1>0. tables \in Database /\ Grows(tables, tables)
  BY Unchanged DEF SchemaInv
<1>1. ASSUME NEW p \in Processes, InspectTables(p) PROVE SchemaInv'
  <2>1. PICK missing \in SUBSET Tables : missing = {t \in Tables : tables[t] = None}
    OBVIOUS
  <2>2. PICK s : s = [next |-> 1, missing |-> missing]
    OBVIOUS
  <2>3. s \in StartRow /\ Relies(s, tables)
    BY <2>1, <2>2 DEF StartRow, Relies, Creating
  <2>4. starts' = [starts EXCEPT ![p] = s] /\ tables' = tables
    BY <1>1, <2>1, <2>2 DEF InspectTables, Goes, Creating
  <2> QED
    BY <1>0, <2>3, <2>4, ProcessSteps
<1>2. ASSUME NEW p \in Processes, Goes(p, Down, {}), tables' = tables PROVE SchemaInv'
  <2>1. PICK s : s = [next |-> 0, missing |-> {}]
    OBVIOUS
  <2>2. s \in StartRow /\ Relies(s, tables)
    BY <2>1 DEF StartRow, Relies, Creating
  <2>3. starts' = [starts EXCEPT ![p] = s]
    BY <1>2, <2>1 DEF Goes, Down
  <2> QED
    BY <1>0, <1>2, <2>2, <2>3, ProcessSteps
<1>3. ASSUME NEW p \in Processes, CreateTables(p) PROVE SchemaInv'
  <2>1. CASE \E t \in starts[p].missing : tables[t] # None
    BY <1>2, <1>3, <2>1 DEF CreateTables
  <2>2. CASE ~ \E t \in starts[p].missing : tables[t] # None
    <3>1. PICK missing \in SUBSET Tables : missing = starts[p].missing
      BY DEF SchemaInv, StartRow
    <3>2. \A t \in missing : tables[t] = None
      BY <2>2, <3>1
    <3>3. \A t \in Tables \ missing : tables[t] # None
      BY <1>3, <3>1 DEF SchemaInv, Relies, CreateTables
    <3>4. PICK new : new = MissingCreated(tables, missing)
      OBVIOUS
    <3>5. /\ tables' = new
          /\ starts' = [starts EXCEPT ![p] = [next |-> 2, missing |-> {}]]
      BY <1>3, <2>2, <3>1, <3>4 DEF CreateTables, Goes, Creating
    <3>6. \A t \in Tables : new[t] = IF t \in missing THEN EntityOf(t) ELSE tables[t]
      BY <3>4 DEF MissingCreated
    <3>7. ASSUME NEW t \in Tables PROVE new[t] # None /\ new[t] \in SUBSET Allowed(t) /\ new[t] \in SUBSET Columns
      <4>1. EntityOf(t) \in SUBSET Columns /\ EntityOf(t) # None /\ EntityOf(t) \in SUBSET Allowed(t)
        BY EntityColumns, AbsentTable DEF Allowed
      <4>2. Allowed(t) \in SUBSET Columns
        BY EntityColumns DEF Allowed
      <4> QED
        BY <1>0, <3>3, <3>6, <4>1, <4>2 DEF Database
    <3>8. new \in Database
      <4>1. new = [t \in Tables |-> new[t]]
        BY <3>4 DEF MissingCreated
      <4> QED
        BY <3>7, <4>1 DEF Database
    <3>9. Grows(tables, new)
      BY <3>2, <3>6, <3>7, <3>8 DEF Grows
    <3>10. PICK s : s = [next |-> 2, missing |-> {}]
      OBVIOUS
    <3>11. s \in StartRow /\ Relies(s, new)
      <4>1. \A t \in Tables : Due(2, t) = {}
        BY DEF Due, Tables
      <4> QED
        BY <3>7, <3>10, <4>1 DEF StartRow, Relies, Creating, TableDone
    <3> QED
      BY <3>5, <3>9, <3>10, <3>11, ProcessSteps
  <2> QED
    BY <2>1, <2>2
<1>4. ASSUME NEW p \in Processes, Migrate(p) PROVE SchemaInv'
  <2>1. PICK n \in Migrations : n = starts[p].next
    BY <1>4 DEF Migrate
  <2>2. PICK new : new = Migrated(n, tables)
    OBVIOUS
  <2>3. PICK s : s = [next |-> n + 1, missing |-> {}]
    OBVIOUS
  <2>4. tables' = new /\ starts' = [starts EXCEPT ![p] = s]
    BY <1>4, <2>1, <2>2, <2>3 DEF Migrate, Goes
  <2>5. \A t \in Tables : TableDone(n, t, tables[t])
    BY <2>1 DEF SchemaInv, Relies, Migrations
  <2>6. Grows(tables, new) /\ \A t \in Tables : TableDone(n + 1, t, new[t])
    BY <1>0, <2>2, <2>5, MigrationSteps
  <2>7. s \in StartRow /\ Relies(s, new)
    BY <2>3, <2>6 DEF StartRow, Relies, Creating, Migrations
  <2> QED
    BY <2>4, <2>6, <2>7, ProcessSteps
<1>5. ASSUME NEW p \in Processes, ProcessDies(p) PROVE SchemaInv'
  BY <1>2, <1>5 DEF ProcessDies
<1>6. CASE UNCHANGED schemaVars
  BY <1>6 DEF SchemaInv, schemaVars
<1> QED
  BY <1>1, <1>3, <1>4, <1>5, <1>6 DEF SchemaNext

(* Whatever the age of the database and however many processes start at the  *)
(* same time, die and start again: one that serves has the tables its        *)
(* entities need.                                                            *)
THEOREM WholeSchemaServed == Spec => []ServesWholeSchema
<1> DEFINE Inv == area = "start" => SchemaInv
<1>1. Init => Inv
  BY AreaInits, SchemaStarts DEF AreaInit
<1>2. Inv /\ [Next]_vars => Inv'
  BY AreaSteps, SchemaStep DEF AreaStep
<1>3. Inv => ServesWholeSchema
  <2> SUFFICES ASSUME SchemaInv, NEW p \in Processes, starts[p].next = 10 PROVE WholeSchema(tables)
    BY DEF ServesWholeSchema, Serving
  <2>1. ASSUME NEW t \in Tables PROVE tables[t] = EntityOf(t)
    <3>1. TableDone(10, t, tables[t])
      BY DEF SchemaInv, Relies
    <3>2. tables[t] # None /\ EntityOf(t) \subseteq tables[t] /\ tables[t] \cap Obsolete = {}
      BY <3>1 DEF TableDone, Due, Tables, EntityOf
    <3>3. tables[t] \in SUBSET Allowed(t)
      BY <3>2 DEF SchemaInv, Database
    <3> QED
      BY <3>2, <3>3 DEF Allowed
  <2> QED
    BY <2>1 DEF WholeSchema
<1> QED
  BY <1>1, <1>2, <1>3, PTL DEF Spec

-----------------------------------------------------------------------------
(* The bridge of a WebSocket: what the place of the handler and of its tasks *)
(* says of the two ends and of the messages.                                 *)

Messages == [sent : Nat, taken : Nat, given : Nat]

BridgeTypes ==
  /\ handler \in {"resolve", "connect", "accept", "bridge", "close", "fail", "finally", "ended"}
  /\ upTask \in {"none", "receive", "send", "leave", "done", "failed", "cancelled"}
  /\ downTask \in {"none", "next", "send", "done", "refused", "cancelled"}
  /\ browserEnd \in {"open", "left", "closed"} /\ spaceEnd \in {"none", "open", "left", "closed"}
  /\ seenLeft \in BOOLEAN /\ upward \in Messages /\ downward \in Messages

UpwardInOrder ==
  /\ upTask \in {"none", "receive", "leave", "done"} => upward.given = upward.taken
  /\ upTask = "send" => upward.taken = upward.given + 1
  /\ upTask \in {"leave", "done"} => browserEnd = "left" /\ seenLeft /\ upward.taken = upward.sent
  /\ seenLeft => browserEnd = "left"
  /\ upTask = "failed" => spaceEnd = "left"

DownwardInOrder ==
  /\ downTask \in {"none", "next", "done"} => downward.given = downward.taken
  /\ downTask = "send" => downward.taken = downward.given + 1
  /\ downTask = "done" => /\ downward.taken = downward.sent /\ spaceEnd \in {"left", "closed"}
                          /\ spaceEnd = "left" \/ upTask = "done"
  /\ downTask = "refused" => browserEnd = "left"

Before == {"resolve", "connect", "accept"}

(* Before the bridge nothing is closed; after it no task is left, and one    *)
(* that was cancelled was cancelled because of the other one.                *)
HandlerInOrder ==
  /\ upTask = "none" <=> downTask = "none"
  /\ handler \in Before => upTask = "none" /\ ~seenLeft
  /\ handler \in {"resolve", "connect"} <=> (spaceEnd = "none" /\ handler \notin {"fail", "finally", "ended"})
  /\ handler \in Before \cup {"bridge"} => browserEnd # "closed"
  /\ handler = "bridge" => upTask \notin {"none", "cancelled"} /\ downTask \notin {"none", "cancelled"}
  /\ handler \notin Before \cup {"bridge"} =>
       /\ upTask \in {"none", "done", "failed", "cancelled"}
       /\ downTask \in {"none", "done", "refused", "cancelled"}
       /\ upTask = "cancelled" => downTask \in {"done", "refused"}
       /\ downTask = "cancelled" => upTask \in {"done", "failed"}
  /\ handler # "ended" /\ spaceEnd = "closed" => upTask = "done"
  /\ handler = "finally" => browserEnd # "open"
  /\ handler = "ended" => browserEnd # "open" /\ spaceEnd # "open"

BridgeInv == BridgeTypes /\ UpwardInOrder /\ DownwardInOrder /\ HandlerInOrder

LEMMA OneMore ==
  ASSUME NEW m \in Messages
  PROVE  /\ [m EXCEPT !.sent = @ + 1] \in Messages /\ [m EXCEPT !.sent = @ + 1].sent = m.sent + 1
         /\ [m EXCEPT !.sent = @ + 1].taken = m.taken /\ [m EXCEPT !.sent = @ + 1].given = m.given
         /\ [m EXCEPT !.taken = @ + 1] \in Messages /\ [m EXCEPT !.taken = @ + 1].taken = m.taken + 1
         /\ [m EXCEPT !.taken = @ + 1].sent = m.sent /\ [m EXCEPT !.taken = @ + 1].given = m.given
         /\ [m EXCEPT !.given = @ + 1] \in Messages /\ [m EXCEPT !.given = @ + 1].given = m.given + 1
         /\ [m EXCEPT !.given = @ + 1].sent = m.sent /\ [m EXCEPT !.given = @ + 1].taken = m.taken
BY DEF Messages

(* Messages come, and ends leave.                                            *)
LEMMA EndSteps ==
  BridgeInv /\ (Types \/ BrowserLeaves \/ PrintsText \/ SpaceLeaves) => BridgeInv'
<1> SUFFICES ASSUME BridgeInv, Types \/ BrowserLeaves \/ PrintsText \/ SpaceLeaves PROVE BridgeInv'
  OBVIOUS
<1> USE DEF BridgeInv, BridgeTypes, UpwardInOrder, DownwardInOrder, HandlerInOrder, Before
<1>0. /\ upward.sent \in Nat /\ upward.taken \in Nat /\ upward.given \in Nat
      /\ downward.sent \in Nat /\ downward.taken \in Nat /\ downward.given \in Nat
  BY DEF Messages
<1>1. CASE Types
  <2>1. /\ upward' \in Messages /\ upward'.sent = upward.sent + 1
        /\ upward'.taken = upward.taken /\ upward'.given = upward.given
    BY <1>1, OneMore DEF Types
  <2> QED
    BY <1>1, <2>1 DEF Types
<1>2. CASE BrowserLeaves
  BY <1>2 DEF BrowserLeaves
<1>3. CASE PrintsText
  <2>1. /\ downward' \in Messages /\ downward'.sent = downward.sent + 1
        /\ downward'.taken = downward.taken /\ downward'.given = downward.given
    BY <1>3, OneMore DEF PrintsText
  <2> QED
    BY <1>3, <2>1 DEF PrintsText
<1>4. CASE SpaceLeaves
  BY <1>4 DEF SpaceLeaves
<1> QED
  BY <1>1, <1>2, <1>3, <1>4

LEMMA HandlerSteps ==
  BridgeInv /\ (Refuse \/ Resolve \/ Connect \/ Accept \/ Settle \/ CloseBrowser \/ Fail \/ Finally) => BridgeInv'
<1> SUFFICES ASSUME BridgeInv, Refuse \/ Resolve \/ Connect \/ Accept \/ Settle \/ CloseBrowser \/ Fail \/ Finally
             PROVE  BridgeInv'
  OBVIOUS
<1> USE DEF BridgeInv, BridgeTypes, UpwardInOrder, DownwardInOrder, HandlerInOrder, Before
<1>1. CASE Refuse
  BY <1>1 DEF Refuse
<1>2. CASE Resolve
  BY <1>2 DEF Resolve
<1>3. CASE Connect
  BY <1>3 DEF Connect
<1>4. CASE Accept
  BY <1>4 DEF Accept
<1>5. CASE Settle
  BY <1>5 DEF Settle, Ended
<1>6. CASE CloseBrowser
  BY <1>6 DEF CloseBrowser
<1>7. CASE Fail
  BY <1>7 DEF Fail
<1>8. CASE Finally
  BY <1>8 DEF Finally
<1> QED
  BY <1>1, <1>2, <1>3, <1>4, <1>5, <1>6, <1>7, <1>8

LEMMA TaskSteps ==
  BridgeInv /\ (Receives \/ SendUp \/ CloseSpace \/ NextMessage \/ SendDown) => BridgeInv'
<1> SUFFICES ASSUME BridgeInv, Receives \/ SendUp \/ CloseSpace \/ NextMessage \/ SendDown PROVE BridgeInv'
  OBVIOUS
<1> USE DEF BridgeInv, BridgeTypes, UpwardInOrder, DownwardInOrder, HandlerInOrder, Before
<1>0. /\ upward.sent \in Nat /\ upward.taken \in Nat /\ upward.given \in Nat
      /\ downward.sent \in Nat /\ downward.taken \in Nat /\ downward.given \in Nat
  BY DEF Messages
<1>b. upTask \in {"receive", "send", "leave"} \/ downTask \in {"next", "send"} => handler = "bridge"
  OBVIOUS
<1>1. CASE Receives
  <2>1. CASE upTask' = "send"
    <3>1. /\ upward' \in Messages /\ upward'.taken = upward.taken + 1
          /\ upward'.sent = upward.sent /\ upward'.given = upward.given
      BY <1>1, <2>1, OneMore DEF Receives
    <3> QED
      BY <1>1, <1>b, <2>1, <3>1 DEF Receives
  <2>2. CASE upTask' # "send"
    BY <1>1, <1>b, <2>2 DEF Receives
  <2> QED
    BY <2>1, <2>2
<1>2. CASE SendUp
  <2>1. CASE spaceEnd = "open"
    <3>1. /\ upward' \in Messages /\ upward'.given = upward.given + 1
          /\ upward'.sent = upward.sent /\ upward'.taken = upward.taken
      BY <1>2, <2>1, OneMore DEF SendUp
    <3> QED
      BY <1>0, <1>2, <1>b, <2>1, <3>1 DEF SendUp
  <2>2. CASE spaceEnd # "open"
    BY <1>2, <1>b, <2>2 DEF SendUp
  <2> QED
    BY <2>1, <2>2
<1>3. CASE CloseSpace
  BY <1>3, <1>b DEF CloseSpace
<1>4. CASE NextMessage
  <2>1. CASE downTask' = "send"
    <3>1. /\ downward' \in Messages /\ downward'.taken = downward.taken + 1
          /\ downward'.sent = downward.sent /\ downward'.given = downward.given
      BY <1>4, <2>1, OneMore DEF NextMessage
    <3> QED
      BY <1>4, <1>b, <2>1, <3>1 DEF NextMessage
  <2>2. CASE downTask' # "send"
    BY <1>4, <1>b, <2>2 DEF NextMessage
  <2> QED
    BY <2>1, <2>2
<1>5. CASE SendDown
  <2>1. CASE browserEnd = "open"
    <3>1. /\ downward' \in Messages /\ downward'.given = downward.given + 1
          /\ downward'.sent = downward.sent /\ downward'.taken = downward.taken
      BY <1>5, <2>1, OneMore DEF SendDown
    <3> QED
      BY <1>0, <1>5, <1>b, <2>1, <3>1 DEF SendDown
  <2>2. CASE browserEnd # "open"
    BY <1>5, <1>b, <2>2 DEF SendDown
  <2> QED
    BY <2>1, <2>2
<1> QED
  BY <1>1, <1>2, <1>3, <1>4, <1>5

(* Whatever the two ends do and in whichever order the tasks end: nothing    *)
(* that was sent before an end left is missing at the other one, but for the *)
(* reasons BridgeDelivers gives, and no task or end stays open.              *)
THEOREM BridgeLosesNothing == Spec => []BridgeDelivers
<1> DEFINE Inv == area = "terminal" => BridgeInv
<1>1. Init => Inv
  <2> SUFFICES ASSUME BridgeInit PROVE BridgeInv
    BY AreaInits DEF AreaInit
  <2>1. upward \in Messages /\ downward \in Messages
    BY DEF BridgeInit, Messages
  <2> QED
    BY <2>1 DEF BridgeInit, BridgeInv, BridgeTypes, UpwardInOrder, DownwardInOrder, HandlerInOrder, Before
<1>2. Inv /\ [Next]_vars => Inv'
  <2>1. BridgeInv /\ UNCHANGED bridgeVars => BridgeInv'
    BY DEF BridgeInv, BridgeTypes, UpwardInOrder, DownwardInOrder, HandlerInOrder, bridgeVars
  <2> QED
    BY <2>1, AreaSteps, EndSteps, HandlerSteps, TaskSteps DEF AreaStep, BridgeNext
<1>3. Inv => BridgeDelivers
  BY DEF BridgeInv, BridgeTypes, Messages, UpwardInOrder, DownwardInOrder, HandlerInOrder, Before, BridgeDelivers, Ended
<1> QED
  BY <1>1, <1>2, <1>3, PTL DEF Spec

-----------------------------------------------------------------------------
(* The error log: what a report that is about to delete may take with it, and *)
(* who is still to prune.                                                    *)

Above(S, e) == {x \in S : x > e}
Replaced(e, past) == Cardinality(Above(past, e)) >= Keep

Report == [at : {"idle", "insert", "refresh", "select", "delete", "answer"}, event : Nat,
           kept : SUBSET Nat, tab : BOOLEAN]

(* The reports that are still to prune and whose own event is in the log.    *)
Owing(log, at) ==
  {r \in Reporters : at[r].at \in {"refresh", "select", "delete"} /\ at[r].event \in log}

LogTypes ==
  /\ events \in SUBSET Nat /\ inserted \in SUBSET Nat /\ events \subseteq inserted
  /\ IsFiniteSet(inserted)
  /\ made \in Nat /\ abandoned \in Nat
  /\ reports \in [Reporters -> Report]

(* Whatever it would delete is replaced, or exposed.                         *)
DeletesSafely(c, log, past, excused) ==
  c.at = "delete" => /\ IsFiniteSet(c.kept) /\ Cardinality(c.kept) <= Keep
                     /\ \A e \in log \ c.kept : e \in excused \/ Replaced(e, past)

LogOk(log, past, excused, at, left) ==
  /\ \A e \in past \ log : e \in excused \/ Replaced(e, past)
  /\ \A r \in Reporters : DeletesSafely(at[r], log, past, excused)
  /\ Cardinality(log) <= Keep + left + Cardinality(Owing(log, at))

LogInv == LogTypes /\ LogOk(events, inserted, exposed, reports, abandoned)

(* Every one of the newest has fewer newer ones than there are to be kept,   *)
(* and each another number of them.                                          *)
LEMMA NewestAreFew ==
  ASSUME NEW S \in SUBSET Nat, IsFiniteSet(S)
  PROVE  IsFiniteSet(Newest(S)) /\ Cardinality(Newest(S)) <= Keep
<1>0. Keep \in Nat
  BY ReportersAssumption
<1>1. ASSUME NEW e \in S
      PROVE  IsFiniteSet(Above(S, e)) /\ Cardinality(Above(S, e)) \in Nat
  <2>1. PICK above : above = Above(S, e)
    OBVIOUS
  <2>2. above \in SUBSET S
    BY <2>1 DEF Above
  <2>3. IsFiniteSet(above)
    BY <2>2, FS_Subset
  <2>4. Cardinality(above) \in Nat
    BY <2>3, FS_CardinalityType
  <2> QED
    BY <2>1, <2>3, <2>4, Zenon
<1>2. PICK few : few = Newest(S)
  OBVIOUS
<1>3. few \subseteq S /\ \A e \in few : Cardinality(Above(S, e)) < Keep
  BY <1>2 DEF Newest, Above
<1>4. PICK f : f = [e \in few |-> Cardinality(Above(S, e))]
  OBVIOUS
<1>5. f \in [few -> 0 .. (Keep - 1)]
  BY <1>0, <1>1, <1>3, <1>4
<1>6. ASSUME NEW d \in few, NEW e \in few, d < e PROVE f[d] # f[e]
  <2>0. d \in Nat /\ e \in Nat /\ e \in S
    BY <1>3
  <2>1. Above(S, e) \in SUBSET Above(S, d) /\ e \in Above(S, d) /\ e \notin Above(S, e)
    <3>1. ASSUME NEW x \in Above(S, e) PROVE x \in Above(S, d)
      <4>1. x \in S /\ x > e
        BY DEF Above
      <4>2. x \in Nat
        BY <4>1
      <4>3. x > d
        BY <1>6, <2>0, <4>1, <4>2
      <4> QED
        BY <4>1, <4>3 DEF Above
    <3>2. e \in Above(S, d)
      BY <1>6, <2>0 DEF Above
    <3>3. e \notin Above(S, e)
      BY <2>0 DEF Above
    <3> QED
      BY <3>1, <3>2, <3>3
  <2>2. Above(S, e) # Above(S, d)
    BY <2>1
  <2>3. PICK A, B : A = Above(S, d) /\ B = Above(S, e)
    OBVIOUS
  <2>4. IsFiniteSet(A) /\ B \in SUBSET A /\ A # B
    BY <1>1, <1>3, <2>1, <2>2, <2>3
  <2>5. Cardinality(A) # Cardinality(B)
    BY <2>4, FS_Subset
  <2> QED
    BY <1>4, <2>3, <2>5
<1>7. f \in Injection(few, 0 .. (Keep - 1))
  <2>1. ASSUME NEW d \in few, NEW e \in few, f[d] = f[e] PROVE d = e
    <3>1. d \in Nat /\ e \in Nat
      BY <1>3
    <3>2. d < e \/ e < d \/ d = e
      BY <3>1
    <3> QED
      BY <1>6, <2>1, <3>2
  <2> QED
    BY <1>5, <2>1 DEF Injection, IsInjective
<1>8. IsFiniteSet(0 .. (Keep - 1)) /\ Cardinality(0 .. (Keep - 1)) = Keep
  <2>1. 0 \in Int /\ Keep - 1 \in Int
    BY <1>0
  <2>2. /\ IsFiniteSet(0 .. (Keep - 1))
        /\ Cardinality(0 .. (Keep - 1)) = IF 0 > Keep - 1 THEN 0 ELSE (Keep - 1) - 0 + 1
    BY <2>1, FS_Interval
  <2> QED
    BY <1>0, <2>2
<1>9. IsFiniteSet(few) /\ Cardinality(few) <= Keep
  BY <1>7, <1>8, FS_Injection
<1> QED
  BY <1>2, <1>9

(* What was replaced stays so.                                               *)
LEMMA ReplacedStays ==
  ASSUME NEW S \in SUBSET Nat, NEW T, IsFiniteSet(T), S \subseteq T, NEW e, Replaced(e, S)
  PROVE  Replaced(e, T)
<1>1. Above(S, e) \in SUBSET Above(T, e) /\ Above(T, e) \in SUBSET T
  BY DEF Above
<1>2. IsFiniteSet(Above(T, e))
  BY <1>1, FS_Subset
<1>3. Cardinality(Above(S, e)) <= Cardinality(Above(T, e)) /\ IsFiniteSet(Above(S, e))
  BY <1>1, <1>2, FS_Subset
<1>4. Cardinality(Above(S, e)) \in Nat /\ Cardinality(Above(T, e)) \in Nat
  BY <1>2, <1>3, FS_CardinalityType
<1> QED
  BY <1>3, <1>4, ReportersAssumption DEF Replaced

LEMMA OwingFinite ==
  ASSUME NEW log, NEW at
  PROVE  IsFiniteSet(Owing(log, at)) /\ Cardinality(Owing(log, at)) \in Nat
<1>1. Owing(log, at) \in SUBSET Reporters
  BY DEF Owing
<1>2. IsFiniteSet(Owing(log, at))
  BY <1>1, FS_Subset, ReportersAssumption
<1> QED
  BY <1>2, FS_CardinalityType

(* One report less to prune, at most.                                        *)
LEMMA OwingShrinks ==
  ASSUME NEW debts, NEW owed, IsFiniteSet(debts), IsFiniteSet(owed), NEW r,
         debts \subseteq owed \cup {r}
  PROVE  Cardinality(debts) <= Cardinality(owed) + 1
<1>1. IsFiniteSet(owed \cup {r}) /\ Cardinality(owed \cup {r}) <= Cardinality(owed) + 1
  <2>1. IsFiniteSet(owed \cup {r})
        /\ Cardinality(owed \cup {r}) = IF r \in owed THEN Cardinality(owed) ELSE Cardinality(owed) + 1
    BY FS_AddElement
  <2>2. Cardinality(owed) \in Nat
    BY FS_CardinalityType
  <2> QED
    BY <2>1, <2>2
<1>2. Cardinality(debts) <= Cardinality(owed \cup {r})
  BY <1>1, FS_Subset
<1>3. Cardinality(debts) \in Nat /\ Cardinality(owed) \in Nat /\ Cardinality(owed \cup {r}) \in Nat
  BY <1>1, FS_CardinalityType
<1> QED
  BY <1>1, <1>2, <1>3

LEMMA LogBasics ==
  ASSUME LogInv
  PROVE  /\ Keep \in Nat /\ abandoned \in Nat /\ IsFiniteSet(events) /\ Cardinality(events) \in Nat
         /\ Cardinality(Owing(events, reports)) \in Nat /\ IsFiniteSet(Owing(events, reports))
<1>1. events \in SUBSET inserted /\ IsFiniteSet(inserted) /\ abandoned \in Nat
  BY DEF LogInv, LogTypes
<1>2. IsFiniteSet(events)
  BY <1>1, FS_Subset
<1> QED
  BY <1>1, <1>2, OwingFinite, FS_CardinalityType, ReportersAssumption

(* A report goes on, in a step that leaves the log alone.                    *)
LEMMA ReportSteps ==
  ASSUME LogInv, NEW r \in Reporters, NEW c \in Report, reports' = [reports EXCEPT ![r] = c],
         UNCHANGED <<events, inserted, exposed>>, made' \in Nat,
         DeletesSafely(c, events, inserted, exposed),
         \/ abandoned' = abandoned + 1
         \/ /\ abandoned' = abandoned
            /\ r \in Owing(events, reports) =>
                 c.at \in {"refresh", "select", "delete"} /\ c.event \in events
  PROVE  LogInv'
<1>1. PICK new : new = reports'
  OBVIOUS
<1>2. /\ new \in [Reporters -> Report] /\ new[r] = c
      /\ \A q \in Reporters \ {r} : new[q] = reports[q]
  BY <1>1 DEF LogInv, LogTypes
<1>3. LogTypes'
  BY <1>1, <1>2, LogBasics DEF LogInv, LogTypes
<1>4. ASSUME NEW q \in Reporters PROVE DeletesSafely(new[q], events, inserted, exposed)
  BY <1>2 DEF LogInv, LogOk
<1>5. PICK owed, debts : owed = Owing(events, new) /\ debts = Owing(events, reports)
  OBVIOUS
<1>6. /\ IsFiniteSet(owed) /\ Cardinality(owed) \in Nat /\ IsFiniteSet(debts) /\ Cardinality(debts) \in Nat
      /\ Cardinality(events) \in Nat /\ abandoned \in Nat /\ Keep \in Nat
      /\ Cardinality(events) <= Keep + abandoned + Cardinality(debts)
  BY <1>5, OwingFinite, LogBasics DEF LogInv, LogOk
<1>7. debts \subseteq owed \cup {r}
  BY <1>2, <1>5 DEF Owing
<1>8. Cardinality(events) <= Keep + abandoned' + Cardinality(owed)
  <2>1. CASE abandoned' = abandoned + 1
    BY <1>6, <1>7, <2>1, OwingShrinks
  <2>2. CASE abandoned' # abandoned + 1
    <3>1. abandoned' = abandoned /\ debts \in SUBSET owed
      BY <1>2, <1>5, <1>7, <2>2 DEF Owing
    <3>2. Cardinality(debts) <= Cardinality(owed)
      BY <1>6, <3>1, FS_Subset
    <3> QED
      BY <1>6, <3>1, <3>2
  <2> QED
    BY <2>1, <2>2
<1>9. \A e \in inserted \ events : e \in exposed \/ Replaced(e, inserted)
  BY DEF LogInv, LogOk
<1>10. LogOk(events, inserted, exposed, new, abandoned')
  BY <1>4, <1>5, <1>8, <1>9 DEF LogOk
<1> QED
  BY <1>1, <1>3, <1>10 DEF LogInv

LEMMA LogStarts == ErrorInit => LogInv
<1> SUFFICES ASSUME ErrorInit PROVE LogInv
  OBVIOUS
<1>1. IsFiniteSet({}) /\ Cardinality({}) = 0
  BY FS_EmptySet
<1>2. Idle \in Report
  BY DEF Idle, Report
<1>3. LogTypes
  BY <1>1, <1>2 DEF ErrorInit, LogTypes
<1>4. Cardinality(events) <= Keep + abandoned + Cardinality(Owing(events, reports))
  BY <1>1, OwingFinite, ReportersAssumption DEF ErrorInit
<1> QED
  BY <1>3, <1>4 DEF ErrorInit, LogInv, LogOk, DeletesSafely, Idle

LEMMA EventInserted == ASSUME LogInv, NEW r \in Reporters, InsertEvent(r) PROVE LogInv'
<1>1. PICK c \in Report : c = reports[r]
  BY DEF LogInv, LogTypes
<1>2. PICK e \in Nat : e = c.event
  BY DEF Report
<1>3. PICK at \in {"refresh", "select"} : at = IF c.tab THEN "refresh" ELSE "select"
  OBVIOUS
<1>4. PICK d : d = [c EXCEPT !.at = at]
  OBVIOUS
<1>5. d \in Report /\ d.at = at /\ d.event = e
  BY <1>2, <1>4 DEF Report
<1>6. PICK log, past, excused, new :
        log = events' /\ past = inserted' /\ excused = exposed' /\ new = reports'
  OBVIOUS
<1>7. /\ c.at = "insert" /\ log = events \cup {e} /\ past = inserted \cup {e} /\ new = [reports EXCEPT ![r] = d]
      /\ exposed \subseteq excused
      /\ (\E q \in Reporters : reports[q].at = "delete") => e \in excused
      /\ made' = made /\ abandoned' = abandoned
  BY <1>1, <1>2, <1>3, <1>4, <1>6 DEF InsertEvent, Proceeds
<1>8. new \in [Reporters -> Report] /\ new[r] = d /\ \A q \in Reporters \ {r} : new[q] = reports[q]
  BY <1>5, <1>7 DEF LogInv, LogTypes
<1>9. inserted \in SUBSET Nat /\ IsFiniteSet(inserted) /\ past \in SUBSET Nat /\ IsFiniteSet(past) /\ inserted \subseteq past
  BY <1>7, FS_AddElement DEF LogInv, LogTypes
<1>10. ASSUME NEW x, x \in exposed \/ Replaced(x, inserted) PROVE x \in excused \/ Replaced(x, past)
  BY <1>7, <1>9, <1>10, ReplacedStays
<1>11. LogTypes'
  BY <1>6, <1>7, <1>8, <1>9 DEF LogInv, LogTypes
<1>12. ASSUME NEW x \in past \ log PROVE x \in excused \/ Replaced(x, past)
  BY <1>7, <1>10 DEF LogInv, LogOk
<1>13. ASSUME NEW q \in Reporters PROVE DeletesSafely(new[q], log, past, excused)
  <2>1. CASE q = r
    BY <1>3, <1>5, <1>8, <2>1 DEF DeletesSafely
  <2>2. CASE q # r
    <3>1. new[q] = reports[q] /\ DeletesSafely(reports[q], events, inserted, exposed)
      BY <1>8, <2>2 DEF LogInv, LogOk
    <3>2. ASSUME reports[q].at = "delete", NEW x \in log \ reports[q].kept
          PROVE  x \in excused \/ Replaced(x, past)
      <4>1. CASE x = e
        BY <1>7, <3>2, <4>1
      <4>2. CASE x # e
        BY <1>7, <1>10, <3>1, <3>2, <4>2 DEF DeletesSafely
      <4> QED
        BY <4>1, <4>2
    <3> QED
      BY <3>1, <3>2 DEF DeletesSafely
  <2> QED
    BY <2>1, <2>2
<1>14. PICK owed, debts : owed = Owing(log, new) /\ debts = Owing(events, reports)
  OBVIOUS
<1>15. /\ IsFiniteSet(owed) /\ Cardinality(owed) \in Nat /\ IsFiniteSet(debts) /\ Cardinality(debts) \in Nat
       /\ IsFiniteSet(events) /\ Cardinality(events) \in Nat /\ abandoned \in Nat /\ Keep \in Nat
       /\ Cardinality(events) <= Keep + abandoned + Cardinality(debts)
  BY <1>14, OwingFinite, LogBasics DEF LogInv, LogOk
<1>16. r \notin debts /\ debts \cup {r} \in SUBSET owed
  BY <1>1, <1>3, <1>5, <1>7, <1>8, <1>14 DEF Owing
<1>17. Cardinality(debts) + 1 <= Cardinality(owed)
  <2>1. Cardinality(debts \cup {r}) = Cardinality(debts) + 1
    BY <1>15, <1>16, FS_AddElement
  <2>2. Cardinality(debts \cup {r}) <= Cardinality(owed)
    BY <1>15, <1>16, FS_Subset
  <2> QED
    BY <2>1, <2>2
<1>18. Cardinality(log) <= Cardinality(events) + 1
  <2>1. Cardinality(log) = IF e \in events THEN Cardinality(events) ELSE Cardinality(events) + 1
    BY <1>7, <1>15, FS_AddElement
  <2> QED
    BY <1>15, <2>1
<1>19. IsFiniteSet(log) /\ Cardinality(log) \in Nat
  BY <1>7, <1>15, FS_AddElement, FS_CardinalityType
<1>20. Cardinality(log) <= Keep + abandoned + Cardinality(owed)
  BY <1>15, <1>17, <1>18, <1>19
<1>21. LogOk(log, past, excused, new, abandoned)
  BY <1>12, <1>13, <1>14, <1>20 DEF LogOk
<1> QED
  BY <1>6, <1>7, <1>11, <1>21 DEF LogInv

LEMMA OthersDeleted == ASSUME LogInv, NEW r \in Reporters, DeleteOthers(r) PROVE LogInv'
<1>1. PICK c \in Report : c = reports[r]
  BY DEF LogInv, LogTypes
<1>2. PICK d : d = [c EXCEPT !.at = "answer"]
  OBVIOUS
<1>3. d \in Report /\ d.at = "answer"
  BY <1>2 DEF Report
<1>4. PICK log, new : log = events' /\ new = reports'
  OBVIOUS
<1>5. /\ c.at = "delete" /\ log = events \cap c.kept /\ new = [reports EXCEPT ![r] = d]
      /\ UNCHANGED <<made, inserted, exposed, abandoned>>
  BY <1>1, <1>2, <1>4 DEF DeleteOthers, Proceeds
<1>6. new \in [Reporters -> Report] /\ new[r] = d /\ \A q \in Reporters \ {r} : new[q] = reports[q]
  BY <1>3, <1>5 DEF LogInv, LogTypes
<1>7. LogTypes'
  BY <1>4, <1>5, <1>6 DEF LogInv, LogTypes
<1>8. DeletesSafely(c, events, inserted, exposed)
  BY <1>1 DEF LogInv, LogOk
<1>9. \A e \in inserted \ log : e \in exposed \/ Replaced(e, inserted)
  BY <1>5, <1>8 DEF LogInv, LogOk, DeletesSafely
<1>10. ASSUME NEW q \in Reporters PROVE DeletesSafely(new[q], log, inserted, exposed)
  <2>1. CASE q = r
    BY <1>3, <1>6, <2>1 DEF DeletesSafely
  <2>2. CASE q # r
    BY <1>5, <1>6, <2>2 DEF LogInv, LogOk, DeletesSafely
  <2> QED
    BY <2>1, <2>2
<1>11. Cardinality(log) <= Keep + abandoned + Cardinality(Owing(log, new))
  <2>1. IsFiniteSet(c.kept) /\ Cardinality(c.kept) <= Keep /\ log \in SUBSET c.kept
    BY <1>5, <1>8 DEF DeletesSafely
  <2>2. Cardinality(log) <= Cardinality(c.kept) /\ IsFiniteSet(log)
    BY <2>1, FS_Subset
  <2>3. Cardinality(log) \in Nat /\ Cardinality(c.kept) \in Nat
    BY <2>1, <2>2, FS_CardinalityType
  <2> QED
    BY <2>1, <2>2, <2>3, LogBasics, OwingFinite
<1>12. LogOk(log, inserted, exposed, new, abandoned)
  BY <1>9, <1>10, <1>11 DEF LogOk
<1> QED
  BY <1>4, <1>5, <1>7, <1>12 DEF LogInv

LEMMA KeptSelected == ASSUME LogInv, NEW r \in Reporters, SelectKept(r) PROVE LogInv'
<1>1. PICK c \in Report : c = reports[r]
  BY DEF LogInv, LogTypes
<1>2. events \in SUBSET Nat /\ IsFiniteSet(events) /\ events \subseteq inserted /\ inserted \in SUBSET Nat
      /\ IsFiniteSet(inserted)
  BY LogBasics DEF LogInv, LogTypes
<1>3. PICK newest : newest = Newest(events)
  OBVIOUS
<1>4. newest \in SUBSET Nat /\ IsFiniteSet(newest) /\ Cardinality(newest) <= Keep
  BY <1>2, <1>3, NewestAreFew DEF Newest
<1>5. ASSUME NEW e \in events \ newest PROVE Replaced(e, inserted)
  <2>1. ~ (Cardinality(Above(events, e)) < Keep)
    BY <1>3, <1>5 DEF Newest, Above
  <2>2. Above(events, e) \in SUBSET events
    BY DEF Above
  <2>3. IsFiniteSet(Above(events, e))
    BY <1>2, <2>2, FS_Subset
  <2>4. Cardinality(Above(events, e)) \in Nat
    BY <2>3, FS_CardinalityType
  <2>5. Replaced(e, events)
    BY <2>1, <2>4, ReportersAssumption DEF Replaced
  <2> QED
    BY <1>2, <2>5, ReplacedStays
<1>6. PICK at \in {"answer", "delete"} : at = IF events = {} THEN "answer" ELSE "delete"
  OBVIOUS
<1>7. PICK d : d = [c EXCEPT !.at = at, !.kept = newest]
  OBVIOUS
<1>8. d \in Report /\ d.at = at /\ d.kept = newest /\ d.event = c.event
  BY <1>4, <1>7 DEF Report
<1>9. reports' = [reports EXCEPT ![r] = d]
      /\ UNCHANGED <<events, inserted, exposed, made, abandoned>>
  <2>1. UNCHANGED <<events, inserted, exposed, made, abandoned>>
    BY DEF SelectKept
  <2>2. reports' = [reports EXCEPT ![r] = [c EXCEPT !.at = at, !.kept = newest]]
    BY <1>1, <1>3, <1>6 DEF SelectKept, LogInv, LogTypes
  <2> QED
    BY <1>7, <2>1, <2>2
<1>10. DeletesSafely(d, events, inserted, exposed)
  BY <1>4, <1>5, <1>8 DEF DeletesSafely
<1>11. r \in Owing(events, reports) => d.at \in {"refresh", "select", "delete"} /\ d.event \in events
  BY <1>1, <1>6, <1>8 DEF Owing
<1>12. made' \in Nat
  BY <1>9 DEF LogInv, LogTypes
<1> QED
  BY <1>8, <1>9, <1>10, <1>11, <1>12, ReportSteps

LEMMA LogStep == LogInv /\ (ErrorNext \/ UNCHANGED errorVars) => LogInv'
<1> SUFFICES ASSUME LogInv, ErrorNext \/ UNCHANGED errorVars PROVE LogInv'
  OBVIOUS
<1>0. made \in Nat /\ reports \in [Reporters -> Report]
  BY DEF LogInv, LogTypes
<1>1. CASE LogOut \/ UNCHANGED errorVars
  <2>1. UNCHANGED <<events, inserted, exposed, made, abandoned, reports>>
    BY <1>1 DEF LogOut, errorVars
  <2> QED
    BY <2>1 DEF LogInv, LogTypes
<1>2. ASSUME NEW r \in Reporters, Stops(r), UNCHANGED <<events, inserted, exposed, made>>,
             abandoned' = abandoned + 1 \/ (abandoned' = abandoned /\ r \notin Owing(events, reports))
      PROVE  LogInv'
  <2>1. PICK c : c = Idle
    OBVIOUS
  <2>2. c \in Report /\ c.at = "idle"
    BY <2>1 DEF Idle, Report
  <2>3. DeletesSafely(c, events, inserted, exposed)
    BY <2>2 DEF DeletesSafely
  <2>4. reports' = [reports EXCEPT ![r] = c]
    BY <1>2, <2>1 DEF Stops
  <2> QED
    BY <1>0, <1>2, <2>2, <2>3, <2>4, ReportSteps
<1>3. ASSUME NEW r \in Reporters, NEW tab \in BOOLEAN, MakeEvent(r, tab) PROVE LogInv'
  <2>1. PICK c : c = [at |-> "insert", event |-> made + 1, kept |-> {}, tab |-> tab]
    OBVIOUS
  <2>2. c \in Report /\ c.at = "insert"
    BY <1>0, <2>1 DEF Report
  <2>3. DeletesSafely(c, events, inserted, exposed)
    BY <2>2 DEF DeletesSafely
  <2>4. reports' = [reports EXCEPT ![r] = c] /\ UNCHANGED <<events, inserted, exposed, abandoned>>
        /\ made' \in Nat /\ r \notin Owing(events, reports)
    BY <1>0, <1>3, <2>1 DEF MakeEvent, Owing
  <2> QED
    BY <2>2, <2>3, <2>4, ReportSteps
<1>4. ASSUME NEW r \in Reporters, RefreshEvent(r) PROVE LogInv'
  <2>1. CASE reports[r].event \in events
    <3>1. PICK c \in Report : c = reports[r]
      BY <1>0
    <3>2. PICK d : d = [c EXCEPT !.at = "select"]
      OBVIOUS
    <3>3. d \in Report /\ d.at = "select" /\ d.event = c.event
      BY <3>2 DEF Report
    <3>4. DeletesSafely(d, events, inserted, exposed)
      BY <3>3 DEF DeletesSafely
    <3>5. reports' = [reports EXCEPT ![r] = d] /\ UNCHANGED <<events, inserted, exposed, abandoned>>
          /\ made' \in Nat
      BY <1>0, <1>4, <2>1, <3>1, <3>2 DEF RefreshEvent, Proceeds
    <3> QED
      BY <2>1, <3>1, <3>3, <3>4, <3>5, ReportSteps
  <2>2. CASE reports[r].event \notin events
    BY <1>2, <1>4, <2>2 DEF RefreshEvent, Owing
  <2> QED
    BY <2>1, <2>2
<1>5. ASSUME NEW r \in Reporters, AnswerReport(r) PROVE LogInv'
  BY <1>2, <1>5 DEF AnswerReport, Owing
<1>6. ASSUME NEW r \in Reporters, ReportFails(r) PROVE LogInv'
  BY <1>2, <1>6 DEF ReportFails, Owing
<1> QED
  BY <1>1, <1>3, <1>4, <1>5, <1>6, EventInserted, KeptSelected, OthersDeleted DEF ErrorNext

(* However the reports of errors interleave: none is lost but to enough      *)
(* newer ones, or to the one race the log has, and it outgrows its size only *)
(* by what is still to prune.                                                *)
THEOREM LogKeepsNewest == Spec => []NewestErrorsKept
<1> DEFINE Inv == area = "errors" => LogInv
<1>1. Init => Inv
  BY AreaInits, LogStarts DEF AreaInit
<1>2. Inv /\ [Next]_vars => Inv'
  BY AreaSteps, LogStep DEF AreaStep
<1>3. Inv => NewestErrorsKept
  <2> SUFFICES ASSUME LogInv
               PROVE  /\ \A e \in inserted \ events :
                           e \in exposed \/ Cardinality({x \in inserted : x > e}) >= Keep
                      /\ Cardinality(events) <= Keep + abandoned +
                           Cardinality({r \in Reporters : reports[r].at \in {"refresh", "select", "delete"}})
    BY DEF NewestErrorsKept
  <2>1. \A e \in inserted \ events : e \in exposed \/ Cardinality({x \in inserted : x > e}) >= Keep
    BY DEF LogInv, LogOk, Replaced, Above
  <2>2. PICK pruning, debts : /\ pruning = {r \in Reporters : reports[r].at \in {"refresh", "select", "delete"}}
                              /\ debts = Owing(events, reports)
    OBVIOUS
  <2>3. pruning \in SUBSET Reporters /\ debts \in SUBSET pruning
    BY <2>2 DEF Owing
  <2>4. IsFiniteSet(pruning)
    BY <2>3, ReportersAssumption, FS_Subset
  <2>5. Cardinality(debts) <= Cardinality(pruning) /\ Cardinality(pruning) \in Nat
    BY <2>3, <2>4, FS_Subset, FS_CardinalityType
  <2>6. Cardinality(events) <= Keep + abandoned + Cardinality(debts)
    BY <2>2 DEF LogInv, LogOk
  <2>7. Cardinality(events) <= Keep + abandoned + Cardinality(pruning)
    BY <2>2, <2>5, <2>6, LogBasics
  <2> QED
    BY <2>1, <2>2, <2>7
<1> QED
  BY <1>1, <1>2, <1>3, PTL DEF Spec

-----------------------------------------------------------------------------
(* Logging in and out: where the credentials of a tab come from.             *)

Tok == [of : Locals, no : Nat] \cup {None}
Holder == Locals \cup Externals \cup {None}
Credentials == [bearer : Tok, cookie : Holder, kept : Tok, then : {"init", "guard", "page"}]
SessionKinds == {"me", "options", "whoami", "login", "logout", "api"}
SessionRequest == [kind : SessionKinds, of : Holder, arg : Credentials,
                   state : {"sent"}, result : {None}, heard : {TRUE}]

(* A token that is still good was sent as the bearer.                        *)
Borne == {f \in SessionRequest : /\ f.arg.kept \notin expired => f.arg.bearer = f.arg.kept
                                 /\ f.kind = "login" => f.of \in Locals}

SessionTypes ==
  /\ acts \in Nat /\ adrift \in BOOLEAN /\ None \notin expired \cup ended
  /\ token \in Tok /\ stored \in Tok /\ timer \in Tok
  /\ user \in Holder /\ cookie \in Holder
  /\ flights \subseteq Borne

(* The user shown is the one the credentials stand for.                      *)
OwnCredentials == user # None /\ ~adrift /\ token \notin expired =>
                    Claimed(token, cookie) \in ended \cup {None, user}

SessionInv == /\ SessionTypes /\ OwnCredentials
              /\ token # None => timer = token

LEMMA ClaimedTypes ==
  ASSUME NEW bearer \in Tok, NEW ck \in Holder
  PROVE  Claimed(bearer, ck) \in Holder /\ Accepted(bearer, ck) \in Holder
BY DEF Claimed, Accepted, Tok, Holder

(* What a response leaves in the cookie.                                     *)
LEMMA CookieLeft ==
  ASSUME SessionTypes, NEW f \in SessionRequest
  PROVE  /\ CookieAfter(f) \in Holder
         /\ LET u == Accepted(f.arg.bearer, f.arg.cookie)
            IN IF u = None THEN CookieAfter(f) \in {None, cookie}
               ELSE CookieAfter(f) = u /\ u = Claimed(f.arg.bearer, f.arg.cookie) /\ u \in Holder
<1> DEFINE c == Claimed(f.arg.bearer, f.arg.cookie)
<1>1. c \in Holder
  BY ClaimedTypes DEF SessionRequest, Credentials
<1>2. cookie \in Holder /\ None \in Holder
  BY DEF SessionTypes, Holder
<1>3. None \notin ended
  BY DEF SessionTypes
<1>4. CookieAfter(f) = CASE c = None -> cookie
                         [] c \in ended -> IF f.arg.cookie # None THEN None ELSE cookie
                         [] OTHER -> c
  BY DEF CookieAfter
<1>5. Accepted(f.arg.bearer, f.arg.cookie) = IF c \in ended THEN None ELSE c
  BY DEF Accepted
<1> HIDE DEF c
<1>6. CASE c = None
  <2>1. CookieAfter(f) = cookie
    BY <1>3, <1>4, <1>6
  <2> QED BY <1>2, <1>5, <1>6, <2>1
<1>7. CASE c # None /\ c \in ended
  <2>1. CookieAfter(f) \in {None, cookie}
    BY <1>4, <1>7
  <2> QED BY <1>2, <1>5, <1>7, <2>1
<1>8. CASE c # None /\ c \notin ended
  <2>1. CookieAfter(f) = c
    BY <1>4, <1>8
  <2> QED BY <1>1, <1>2, <1>5, <1>8, <2>1 DEF c
<1> QED BY <1>6, <1>7, <1>8

LEMMA CallsBorne ==
  ASSUME SessionTypes, NEW kind \in SessionKinds, NEW then \in {"init", "guard", "page"}
  PROVE  /\ kind # "login" => Call(kind, then) \in Borne
         /\ \A u \in Locals :
              Request(kind, u, [bearer |-> Live, cookie |-> cookie, kept |-> token, then |-> then]) \in Borne
         /\ \A ck \in Holder : kind # "login" =>
              /\ BareCall(kind, then, ck) \in Borne
              /\ [Call(kind, then) EXCEPT !.arg.cookie = ck] \in Borne
<1>1. None \in Tok /\ None \in Holder /\ token \in Tok /\ cookie \in Holder /\ None \notin expired
  BY DEF SessionTypes, Tok, Holder
<1>2. Live \in Tok /\ (token \notin expired => Live = token)
  BY <1>1 DEF Live
<1>3. ASSUME NEW ck \in Holder, NEW u \in Holder, kind # "login" \/ u \in Locals
      PROVE  [kind |-> kind, of |-> u, arg |-> [bearer |-> Live, cookie |-> ck, kept |-> token, then |-> then],
              state |-> "sent", result |-> None, heard |-> TRUE] \in Borne
  BY <1>1, <1>2, <1>3 DEF Borne, SessionRequest, Credentials
<1>4. ASSUME NEW ck \in Holder, kind # "login"
      PROVE  BareCall(kind, then, ck) \in Borne
  BY <1>1, <1>4 DEF Borne, SessionRequest, Credentials, BareCall, Request
<1>5. ASSUME kind # "login" PROVE Call(kind, then) \in Borne
  BY <1>1, <1>3, <1>5 DEF Call, Request
<1>6. ASSUME NEW ck \in Holder, kind # "login"
      PROVE  [Call(kind, then) EXCEPT !.arg.cookie = ck] \in Borne
  BY <1>1, <1>3, <1>6 DEF Call, Request
<1>7. ASSUME NEW u \in Locals
      PROVE  Request(kind, u, [bearer |-> Live, cookie |-> cookie, kept |-> token, then |-> then]) \in Borne
  BY <1>1, <1>3, <1>7 DEF Request, Holder
<1> QED BY <1>4, <1>5, <1>6, <1>7

LEMMA SettledBorne ==
  ASSUME NEW rest \in SUBSET Borne
  PROVE  Settled(rest) \subseteq Borne
<1>1. ASSUME NEW f \in Borne PROVE [f EXCEPT !.arg.then = "page"] \in Borne
  <2> DEFINE a == [f.arg EXCEPT !.then = "page"]
  <2>1. f \in SessionRequest /\ f.arg \in Credentials /\ (f.arg.kept \notin expired => f.arg.bearer = f.arg.kept)
        /\ (f.kind = "login" => f.of \in Locals)
    BY DEF Borne, SessionRequest
  <2>2. a \in Credentials /\ a.kept = f.arg.kept /\ a.bearer = f.arg.bearer
    BY <2>1 DEF Credentials
  <2>3. [f EXCEPT !.arg.then = "page"] = [f EXCEPT !.arg = a]
    BY <2>1 DEF SessionRequest
  <2> HIDE DEF a
  <2>4. /\ [f EXCEPT !.arg = a] \in SessionRequest /\ [f EXCEPT !.arg = a].arg = a
        /\ [f EXCEPT !.arg = a].kind = f.kind /\ [f EXCEPT !.arg = a].of = f.of
    BY <2>1, <2>2 DEF SessionRequest
  <2> QED BY <2>1, <2>2, <2>3, <2>4 DEF Borne
<1> QED BY <1>1 DEF Settled

LEMMA SigninBorne ==
  ASSUME SessionTypes, NEW rest \in SUBSET Borne, NEW ck \in Holder, ToSignin(rest, ck)
  PROVE  flights' \subseteq Borne
BY SettledBorne, CallsBorne DEF ToSignin, SessionKinds

LEMMA DecidedBorne ==
  ASSUME SessionTypes, NEW rest \in SUBSET Borne, NEW ck \in Holder, NEW f \in flights, Decided(f, rest, ck)
  PROVE  flights' \subseteq Borne
<1>1. BareCall("me", "page", ck) \in Borne
  BY CallsBorne DEF SessionKinds
<1>2. flights' \in {rest, rest \cup {BareCall("me", "page", ck)}}
  BY DEF Decided
<1> QED BY <1>1, <1>2

(* A local session that is cleared shows nobody.                             *)
LEMMA ClearedKeeps ==
  ASSUME SessionTypes, Cleared, UNCHANGED <<expired, ended>>, acts' \in Nat, adrift' \in BOOLEAN,
         cookie' \in Holder, flights' \subseteq Borne
  PROVE  SessionInv'
<1>1. Borne' = Borne
  BY DEF Borne
<1>2. user' = None /\ token' = None /\ stored' = None /\ timer' = None
  BY DEF Cleared
<1>3. None \in Tok /\ None \in Holder
  BY DEF Tok, Holder
<1>4. SessionTypes'
  BY <1>1, <1>2, <1>3 DEF SessionTypes, Tok, Holder
<1>5. OwnCredentials'
  BY <1>2 DEF OwnCredentials
<1> QED BY <1>2, <1>4, <1>5 DEF SessionInv

(* Nothing that is shown changes, and the cookie at most by clearing it.     *)
LEMMA ShownStays ==
  ASSUME SessionInv, UNCHANGED <<user, token, stored, timer, expired, ended>>, acts' \in Nat,
         \/ cookie' \in {None, cookie} /\ adrift' = adrift
         \/ cookie' \in Holder /\ adrift' = (adrift \/ cookie' # cookie),
         flights' \subseteq Borne
  PROVE  SessionInv'
<1>1. Borne' = Borne
  BY DEF Borne, SessionInv, SessionTypes
<1>2. None \in Holder /\ cookie \in Holder
  BY DEF SessionInv, SessionTypes, Holder
<1>3. SessionTypes'
  BY <1>1, <1>2 DEF SessionInv, SessionTypes, Tok, Holder
<1>4. OwnCredentials'
  <2>1. ASSUME user' # None, ~adrift', token' \notin expired'
        PROVE  Claimed(token, cookie)' \in ended \cup {None, user}
    <3>1. user # None /\ ~adrift /\ token \notin expired /\ cookie' \in {None, cookie}
      <4>1. CASE cookie' \in {None, cookie} /\ adrift' = adrift
        BY <2>1, <4>1
      <4>2. CASE adrift' = (adrift \/ cookie' # cookie)
        BY <2>1, <4>2
      <4> QED BY <4>1, <4>2
    <3>2. Claimed(token, cookie) \in ended \cup {None, user}
      BY <3>1 DEF OwnCredentials, SessionInv
    <3>3. Claimed(token, cookie)' \in {None, Claimed(token, cookie)}
      BY <3>1 DEF Claimed
    <3> QED BY <3>2, <3>3
  <2> QED BY <2>1 DEF OwnCredentials
<1> QED BY <1>3, <1>4 DEF SessionInv

LEMMA SendingKeeps ==
  ASSUME SessionInv, AsSending, UNCHANGED <<expired, ended, adrift>>, acts' \in Nat, cookie' \in {None, cookie},
         flights' \subseteq Borne
  PROVE  SessionInv'
<1>1. cookie' \in Holder /\ adrift' \in BOOLEAN
  BY DEF SessionInv, SessionTypes, Holder
<1>2. CASE token \in expired
  BY <1>1, <1>2, ClearedKeeps DEF AsSending, SessionInv
<1>3. CASE token \notin expired
  BY <1>1, <1>3, ShownStays DEF AsSending
<1> QED BY <1>2, <1>3

LEMMA BootKeeps ==
  ASSUME SessionTypes, NEW where \in {"app", "start", "signin"}, NEW first \in Tok, NEW ck \in Holder,
         Boot(where, first, ck), UNCHANGED <<expired, ended>>, acts' \in Nat
  PROVE  SessionInv'
<1> DEFINE t == IF first \in expired THEN None ELSE first
           Probe(then) == Request("me", None, [bearer |-> t, cookie |-> ck, kept |-> t, then |-> then])
<1>1. t \in Tok /\ None \in Holder /\ None \notin expired
  BY DEF SessionTypes, Tok, Holder
<1>2. /\ user' = None /\ token' = t /\ stored' = t /\ timer' = t /\ cookie' = ck /\ adrift' = FALSE
      /\ flights' = {Probe("init"), Probe(IF where = "signin" THEN "page" ELSE "guard")}
  BY DEF Boot
<1> HIDE DEF t
<1>3. \A then \in {"init", "guard", "page"} : Probe(then) \in Borne
  BY <1>1 DEF Request, Borne, SessionRequest, Credentials, SessionKinds
<1>4. flights' \subseteq Borne
  BY <1>2, <1>3
<1> HIDE DEF Probe
<1>5. Borne' = Borne
  BY DEF Borne
<1>6. SessionTypes'
  BY <1>1, <1>2, <1>4, <1>5 DEF SessionTypes, Tok, Holder
<1> QED BY <1>2, <1>6 DEF SessionInv, OwnCredentials

LEMMA ActsCount == ASSUME acts \in Nat, Act \/ UNCHANGED acts PROVE acts' \in Nat
BY DEF Act

LEMMA SessionUserKeeps == SessionInv /\ SessionUser => SessionInv'
<1> SUFFICES ASSUME SessionInv, SessionUser PROVE SessionInv'
  OBVIOUS
<1>0. SessionTypes /\ flights \in SUBSET Borne /\ acts \in Nat /\ cookie \in Holder
      /\ None \in Holder /\ adrift \in BOOLEAN
  BY DEF SessionInv, SessionTypes, Holder
<1>1. CASE Redirect
  BY <1>0, <1>1, ShownStays DEF Redirect, sessionVars
<1>2. CASE Logout
  <2> DEFINE rest == flights \cup {BareCall("logout", "page", cookie)}
  <2>1. rest \in SUBSET Borne
    BY <1>0, CallsBorne DEF SessionKinds
  <2>2. Cleared /\ ToSignin(rest, cookie) /\ acts' \in Nat /\ cookie' = cookie /\ UNCHANGED <<expired, ended, adrift>>
    BY <1>0, <1>2, ActsCount DEF Logout
  <2> HIDE DEF rest
  <2>3. flights' \subseteq Borne
    BY <1>0, <2>1, <2>2, SigninBorne
  <2> QED BY <1>0, <2>2, <2>3, ClearedKeeps
<1>3. CASE Use
  <2>1. flights' \subseteq Borne
    BY <1>0, <1>3, CallsBorne DEF Use, Merged, SessionKinds
  <2> QED BY <1>0, <1>3, <2>1, SendingKeeps DEF Use
<1>4. CASE AutoLogout
  <2>1. flights' \subseteq Borne
    BY <1>0, <1>4, SigninBorne DEF AutoLogout
  <2> QED BY <1>0, <1>4, <2>1, ClearedKeeps DEF AutoLogout
<1>5. ASSUME NEW where \in {"start", "signin"}, Reload(where) PROVE SessionInv'
  <2>1. stored \in Tok /\ acts' \in Nat /\ UNCHANGED <<expired, ended>> /\ Boot(where, stored, cookie)
    BY <1>0, <1>5, ActsCount DEF Reload, SessionTypes
  <2> QED BY <1>0, <2>1, BootKeeps
<1>6. ASSUME NEW u \in Locals, Login(u) PROVE SessionInv'
  <2>1. flights' \subseteq Borne
    BY <1>0, <1>6, CallsBorne DEF Login, Merged, SessionKinds, Holder
  <2>2. acts' \in Nat
    BY <1>0, <1>6, ActsCount DEF Login
  <2> QED BY <1>0, <1>6, <2>1, <2>2, SendingKeeps DEF Login
<1>7. ASSUME NEW u \in Locals, EndSessions(u) PROVE SessionInv'
  <2>1. acts' \in Nat /\ Borne' = Borne
    BY <1>0, <1>7, ActsCount DEF EndSessions, Borne
  <2>2. SessionTypes'
    BY <1>0, <1>7, <2>1, HoldersAssumption DEF EndSessions, SessionTypes
  <2>3. OwnCredentials'
    BY <1>7 DEF EndSessions, OwnCredentials, Claimed, SessionInv
  <2> QED BY <1>7, <2>2, <2>3 DEF EndSessions, SessionInv
<1>8. ASSUME NEW u \in Externals, OidcLogin(u) PROVE SessionInv'
  <2>1. stored \in Tok /\ acts' \in Nat /\ UNCHANGED <<expired, ended>> /\ Boot("app", stored, u) /\ u \in Holder
    BY <1>0, <1>8, ActsCount DEF OidcLogin, SessionTypes, Holder
  <2> QED BY <1>0, <2>1, BootKeeps
<1>9. ASSUME NEW t \in Tokens, Expire(t) PROVE SessionInv'
  <2>1. acts' \in Nat /\ t # None /\ expired' = expired \cup {t}
    BY <1>0, <1>9, ActsCount DEF Expire, Tokens
  <2>2. Borne \subseteq Borne'
    BY <2>1 DEF Borne
  <2>3. SessionTypes'
    BY <1>0, <1>9, <2>1, <2>2 DEF Expire, SessionTypes
  <2>4. OwnCredentials'
    BY <1>9, <2>1 DEF Expire, OwnCredentials, Claimed, SessionInv
  <2> QED BY <1>9, <2>3, <2>4 DEF Expire, SessionInv
<1> QED BY <1>1, <1>2, <1>3, <1>4, <1>5, <1>6, <1>7, <1>8, <1>9 DEF SessionUser

(* An answer that names a user comes with the credentials it was asked with. *)
LEMMA MeKeeps == ASSUME SessionInv, NEW f \in flights, Me(f) PROVE SessionInv'
<1> DEFINE u == Accepted(f.arg.bearer, f.arg.cookie)
           first == f.arg.kept
           rest == flights \ {f}
<1>1. SessionTypes /\ f \in SessionRequest /\ f \in Borne /\ rest \in SUBSET Borne /\ acts \in Nat /\ stored \in Tok
      /\ timer \in Tok /\ None \in Tok /\ None \in Holder /\ (token # None => timer = token) /\ None \notin expired
  BY DEF SessionInv, SessionTypes, Borne, Tok, Holder
<1>2. f.arg.bearer \in Tok /\ first \in Tok /\ (first \notin expired => f.arg.bearer = first)
  BY <1>1 DEF Borne, SessionRequest, Credentials
<1>3. u # None /\ cookie' = CookieAfter(f) /\ adrift' = FALSE /\ UNCHANGED <<acts, oidc, ended, expired>>
  BY DEF Me
<1>4. cookie' = u /\ u \in Holder /\ u = Claimed(f.arg.bearer, f.arg.cookie)
  BY <1>1, <1>3, CookieLeft
<1>5. \/ /\ user' = u /\ token' = None /\ stored' \in {None, stored} /\ timer' = timer
         /\ Decided(f, rest, cookie')
      \/ Cleared /\ ToSignin(rest, cookie')
      \/ /\ user' = u /\ token' = first /\ stored' = stored
         /\ timer' = IF first # None THEN first ELSE timer
         /\ Decided(f, rest, cookie')
  BY <1>3 DEF Me, Kept
<1>6. Borne' = Borne
  BY <1>3 DEF Borne
<1> HIDE DEF u, rest, first
<1>7. CASE /\ user' = u /\ token' = None /\ stored' \in {None, stored} /\ timer' = timer
           /\ Decided(f, rest, cookie')
  <2>1. flights' \subseteq Borne
    BY <1>1, <1>4, <1>7, DecidedBorne
  <2>2. SessionTypes'
    BY <1>1, <1>3, <1>4, <1>6, <1>7, <2>1 DEF SessionTypes
  <2>3. OwnCredentials'
    BY <1>4, <1>7 DEF OwnCredentials, Claimed
  <2> QED BY <1>7, <2>2, <2>3 DEF SessionInv
<1>8. CASE Cleared /\ ToSignin(rest, cookie')
  <2>1. flights' \subseteq Borne
    BY <1>1, <1>4, <1>8, SigninBorne
  <2> QED BY <1>1, <1>3, <1>4, <1>8, <2>1, ClearedKeeps
<1>9. CASE /\ user' = u /\ token' = first /\ stored' = stored
           /\ timer' = IF first # None THEN first ELSE timer
           /\ Decided(f, rest, cookie')
  <2>1. flights' \subseteq Borne
    BY <1>1, <1>4, <1>9, DecidedBorne
  <2>2. timer' \in Tok /\ token' \in Tok /\ stored' \in Tok
    BY <1>1, <1>2, <1>9
  <2>3. SessionTypes'
    BY <1>1, <1>3, <1>4, <1>6, <1>9, <2>1, <2>2 DEF SessionTypes
  <2>4. ASSUME first \notin expired PROVE Claimed(first, u) = u
    <3>1. u = Claimed(first, f.arg.cookie)
      BY <1>2, <1>4, <2>4
    <3> QED BY <3>1 DEF Claimed
  <2>5. OwnCredentials'
    BY <1>3, <1>4, <1>9, <2>4 DEF OwnCredentials, Claimed
  <2> QED BY <1>9, <2>3, <2>5 DEF SessionInv
<1> QED BY <1>5, <1>7, <1>8, <1>9

(* The store drops its session; the timer goes on.                           *)
LEMMA DroppedKeeps ==
  ASSUME SessionTypes, Dropped, UNCHANGED <<expired, ended, timer, cookie>>, acts' \in Nat, adrift' \in BOOLEAN,
         flights' \subseteq Borne
  PROVE  SessionInv'
<1>1. None \in Tok /\ None \in Holder /\ Borne' = Borne /\ user' = None /\ token' = None /\ stored' = None
  BY DEF Tok, Holder, Borne, Dropped
<1>2. SessionTypes'
  BY <1>1 DEF SessionTypes, Tok, Holder
<1> QED BY <1>1, <1>2 DEF SessionInv, OwnCredentials

LEMMA RefreshKeeps ==
  ASSUME SessionInv, NEW f \in flights,
         MeFails(f) \/ Options(f) \/ NoOptions(f) \/ Whoami(f) \/ WhoamiFails(f)
  PROVE  SessionInv'
<1> DEFINE rest == flights \ {f}
<1>0. /\ SessionTypes /\ f \in SessionRequest /\ rest \in SUBSET Borne /\ acts \in Nat
      /\ cookie \in Holder /\ None \in Holder /\ f.arg.then \in {"init", "guard", "page"}
      /\ f.arg.cookie \in Holder
  BY DEF SessionInv, SessionTypes, Borne, Holder, SessionRequest, Credentials
<1>1. CASE MeFails(f)
  <2>1. cookie' \in {None, cookie} /\ acts' \in Nat
    BY <1>0, <1>1, CookieLeft DEF MeFails, Act
  <2>2. cookie' \in Holder
    BY <1>0, <2>1
  <2>3. flights' \subseteq Borne
    BY <1>0, <1>1, <2>2, CallsBorne DEF MeFails, SessionKinds
  <2> QED BY <1>1, <2>1, <2>3, SendingKeeps DEF MeFails
<1>2. CASE Options(f)
  <2>1. flights' \subseteq Borne
    BY <1>0, <1>2, CallsBorne DEF Options, SessionKinds
  <2> QED BY <1>0, <1>2, <2>1, SendingKeeps DEF Options
<1>3. CASE NoOptions(f)
  <2>1. acts' \in Nat /\ Dropped /\ Decided(f, rest, cookie) /\ UNCHANGED <<expired, ended, timer, cookie>>
        /\ adrift' = FALSE
    BY <1>0, <1>3 DEF NoOptions, Act
  <2> HIDE DEF rest
  <2>2. flights' \subseteq Borne
    BY <1>0, <2>1, DecidedBorne
  <2> QED BY <1>0, <2>1, <2>2, DroppedKeeps
<1>4. CASE Whoami(f)
  <2>1. /\ user' = f.arg.cookie /\ cookie' = f.arg.cookie /\ adrift' = (token # None)
        /\ UNCHANGED <<token, stored, timer, acts, ended, expired>> /\ Decided(f, rest, cookie')
    BY <1>4 DEF Whoami
  <2> HIDE DEF rest
  <2>2. flights' \subseteq Borne /\ Borne' = Borne
    BY <1>0, <2>1, DecidedBorne DEF Borne
  <2>3. SessionTypes'
    BY <1>0, <2>1, <2>2 DEF SessionTypes
  <2>4. OwnCredentials'
    BY <2>1 DEF OwnCredentials, Claimed
  <2> QED BY <2>1, <2>3, <2>4 DEF SessionInv
<1>5. CASE WhoamiFails(f)
  <2>1. UNCHANGED <<expired, ended, cookie>> /\ acts' \in Nat /\ adrift' = FALSE
    BY <1>0, <1>5 DEF WhoamiFails, Act
  <2>2. CASE Cleared /\ ToSignin(rest, cookie)
    <3>1. flights' \subseteq Borne
      BY <1>0, <2>2, SigninBorne
    <3> QED BY <1>0, <2>1, <2>2, <3>1, ClearedKeeps
  <2>3. CASE Dropped /\ UNCHANGED timer /\ Decided(f, rest, cookie)
    <3>1. flights' \subseteq Borne
      BY <1>0, <2>3, DecidedBorne
    <3> QED BY <1>0, <2>1, <2>3, <3>1, DroppedKeeps
  <2> QED BY <1>5, <2>2, <2>3 DEF WhoamiFails
<1> QED BY <1>1, <1>2, <1>3, <1>4, <1>5

LEMMA OtherAnswersKeep ==
  ASSUME SessionInv, NEW f \in flights,
         LoggedIn(f) \/ LoginFails(f) \/ LoggedOut(f) \/ Served(f) \/ Refused(f)
  PROVE  SessionInv'
<1> DEFINE rest == flights \ {f}
<1>0. /\ SessionTypes /\ f \in SessionRequest /\ rest \in SUBSET Borne /\ acts \in Nat
      /\ cookie \in Holder /\ None \in Holder
  BY DEF SessionInv, SessionTypes, Borne, Holder
<1>1. CASE LoggedIn(f)
  <2> DEFINE t == [of |-> f.of, no |-> acts]
  <2>1. f.of \in Locals /\ f.of \in Holder /\ t \in Tok /\ t.of = f.of
    BY <1>0, <1>1 DEF LoggedIn, SessionInv, SessionTypes, Borne, Tok, Holder
  <2>2. /\ user' = f.of /\ token' = t /\ stored' = t /\ timer' = t /\ cookie' = f.of
        /\ flights' = Settled(rest) /\ adrift' = FALSE /\ UNCHANGED <<acts, expired, ended>>
    BY <1>1 DEF LoggedIn
  <2>3. flights' \subseteq Borne /\ Borne' = Borne
    BY <1>0, <2>2, SettledBorne DEF Borne
  <2> HIDE DEF t
  <2>4. SessionTypes'
    BY <1>0, <2>1, <2>2, <2>3 DEF SessionTypes
  <2>5. OwnCredentials'
    BY <2>1, <2>2 DEF OwnCredentials, Claimed
  <2> QED BY <2>2, <2>4, <2>5 DEF SessionInv
<1>2. CASE LoginFails(f)
  <2>1. acts' \in Nat /\ flights' \subseteq Borne
    BY <1>0, <1>2 DEF LoginFails, Act, Without
  <2> QED BY <1>0, <1>2, <2>1, ShownStays DEF LoginFails, sessionVars
<1>3. CASE LoggedOut(f)
  <2>1. acts' \in Nat /\ flights' \subseteq Borne /\ cookie' \in {None, cookie}
    BY <1>0, <1>3 DEF LoggedOut, Act, Without
  <2> QED BY <1>3, <2>1, ShownStays DEF LoggedOut
<1>4. CASE Served(f)
  <2>1. acts' \in Nat /\ flights' \subseteq Borne /\ cookie' \in Holder
    BY <1>0, <1>4, CookieLeft DEF Served, Act, Without
  <2> QED BY <1>4, <2>1, ShownStays DEF Served
<1>5. CASE Refused(f)
  <2>1. cookie' \in Holder /\ Cleared /\ ToSignin(rest, cookie') /\ UNCHANGED <<acts, expired, ended>>
        /\ adrift' = FALSE
    BY <1>0, <1>5, CookieLeft DEF Refused
  <2>2. flights' \subseteq Borne
    BY <1>0, <2>1, SigninBorne
  <2> QED BY <1>0, <2>1, <2>2, ClearedKeeps
<1> QED BY <1>1, <1>2, <1>3, <1>4, <1>5

LEMMA SessionStarts == SessionInit => SessionInv
<1> SUFFICES ASSUME SessionInit PROVE SessionInv
  OBVIOUS
<1>1. PICK first \in {None} \cup {[of |-> u, no |-> 0] : u \in Locals},
           ck \in {None} \cup Locals \cup (IF oidc THEN Externals ELSE {}) :
        LET Probe(then) == Request("me", None, [bearer |-> first, cookie |-> ck, kept |-> first, then |-> then])
        IN /\ token = first /\ stored = first /\ timer = first /\ cookie = ck
           /\ flights = {Probe("init"), Probe("guard")}
  BY DEF SessionInit
<1>2. first \in Tok /\ ck \in Holder /\ None \in Holder
  BY DEF Tok, Holder
<1>3. \A then \in {"init", "guard"} :
        Request("me", None, [bearer |-> first, cookie |-> ck, kept |-> first, then |-> then]) \in Borne
  BY <1>2 DEF Request, Borne, SessionRequest, Credentials, SessionKinds
<1>4. flights \subseteq Borne
  BY <1>1, <1>3
<1>5. SessionTypes
  BY <1>1, <1>2, <1>4 DEF SessionInit, SessionTypes, Holder
<1> QED BY <1>1, <1>5 DEF SessionInit, SessionInv, OwnCredentials

LEMMA SessionStep == SessionInv /\ (SessionNext \/ UNCHANGED <<browserVars, sessionVars>>) => SessionInv'
<1> SUFFICES ASSUME SessionInv, SessionNext \/ UNCHANGED <<browserVars, sessionVars>> PROVE SessionInv'
  OBVIOUS
<1>1. CASE UNCHANGED <<browserVars, sessionVars>>
  BY <1>1 DEF browserVars, sessionVars, SessionInv, SessionTypes, OwnCredentials, Claimed, Borne
<1>2. CASE SessionUser
  BY <1>2, SessionUserKeeps
<1>3. ASSUME NEW f \in flights, SessionAnswers(f) PROVE SessionInv'
  BY <1>3, MeKeeps, RefreshKeeps, OtherAnswersKeep DEF SessionAnswers
<1> QED BY <1>1, <1>2, <1>3 DEF SessionNext

(* The user a page shows is the one its requests are made for: whoever the   *)
(* server takes the token or the cookie for, through logins, logouts in      *)
(* other tabs, refreshed and expired tokens and late answers, for any number *)
(* of tokens and requests (auth.service.ts, the interceptor, auth_api.py).   *)
THEOREM IdentityIsSent == Spec => []IdentityShownIsSent
<1>1. Init => (area = "session" => SessionInv)
  BY AreaInits, SessionStarts DEF AreaInit
<1>2. (area = "session" => SessionInv) /\ [Next]_vars => (area = "session" => SessionInv)'
  BY AreaSteps, SessionStep DEF AreaStep
<1>3. (area = "session" => SessionInv) => IdentityShownIsSent
  BY DEF SessionInv, SessionTypes, OwnCredentials, Claimed, Accepted, IdentityShownIsSent
<1> QED
  BY <1>1, <1>2, <1>3, PTL DEF Spec

-----------------------------------------------------------------------------
(* The deploy panels: what has been uploaded for a deployment stays there.   *)

UploadRow == [by : Panels, name : Names, at : Places, left : SUBSET Files, silent : BOOLEAN]
HandOver == [kind : {"createDeployment", "notify"}, of : Panels, arg : Names, state : {"sent"},
             result : {None}, heard : {TRUE}]
TargetFetch == [kind : {"consume"}, of : {None}, arg : [then : Names \cup {None}, copy : 0..2],
          state : {"sent", "ok"}, result : Names \cup {None}, heard : {TRUE}]
CreatedRow == [at : Places, by : Panels]

PanelTypes ==
  /\ profile \in Places
  /\ bucket \in [Places -> [Names -> [Files -> Panels \cup {None}]]]
  /\ uploads \subseteq UploadRow /\ flights \subseteq HandOver \cup TargetFetch
  /\ deployments \in [Names -> CreatedRow \cup {None}]
  /\ pending \in Names \cup {None} /\ messages \subseteq [no : Names, copy : 1..2]
  /\ visits \in [Names -> Nat]

Spoilt(p, n) == [by |-> p, name |-> n] \in spoilt

(* These files of the folder are the panel's.                                *)
Laid(p, n, at, files) == \A x \in files : bucket[at][n][x] = p

UploadsStay == \A u \in uploads : Spoilt(u.by, u.name) \/ (u.at = profile /\ Laid(u.by, u.name, profile, Files \ u.left))
RequestsStay == \A f \in flights : f.kind = "createDeployment" =>
                  Spoilt(f.of, f.arg) \/ Laid(f.of, f.arg, profile, Files)
CreatedStay == \A n \in Names : deployments[n] # None =>
                 Spoilt(deployments[n].by, n) \/ Laid(deployments[n].by, n, deployments[n].at, Files)
VisitedOnce == \A n \in Names : visits[n] <= 1 /\ (n \notin handled => visits[n] = 0)

PanelInv == PanelTypes /\ UploadsStay /\ RequestsStay /\ CreatedStay /\ VisitedOnce

LEMMA OrphansAlike ==
  ASSUME uploads \subseteq UploadRow, NEW P
  PROVE  /\ Orphaned(P) \subseteq UploadRow
         /\ \A v \in Orphaned(P) : \E u \in uploads : v.by = u.by /\ v.name = u.name /\ v.at = u.at /\ v.left = u.left
<1>1. ASSUME NEW u \in uploads
      PROVE  LET v == [u EXCEPT !.silent = @ \/ u.by \in P]
             IN v \in UploadRow /\ v.by = u.by /\ v.name = u.name /\ v.at = u.at /\ v.left = u.left
  <2> DEFINE b == u.silent \/ u.by \in P
             v == [u EXCEPT !.silent = b]
  <2>1. u \in UploadRow /\ b \in BOOLEAN
    OBVIOUS
  <2> HIDE DEF b
  <2>2. v \in UploadRow /\ v.by = u.by /\ v.name = u.name /\ v.at = u.at /\ v.left = u.left
    BY <2>1 DEF UploadRow
  <2> QED BY <2>2 DEF b
<1> QED BY <1>1 DEF Orphaned

(* What a navigation does, or leaves.                                        *)
Visiting == \/ UNCHANGED <<handled, visits>>
            \/ \E n \in Names : /\ n \notin handled /\ handled' = handled \cup {n}
                                /\ visits' = [visits EXCEPT ![n] = @ + 1]

LEMMA VisitsKept ==
  ASSUME VisitedOnce, visits \in [Names -> Nat], Visiting
  PROVE  VisitedOnce' /\ visits' \in [Names -> Nat]
<1>1. CASE UNCHANGED <<handled, visits>>
  BY <1>1 DEF VisitedOnce
<1>2. ASSUME NEW n \in Names, n \notin handled, handled' = handled \cup {n}, visits' = [visits EXCEPT ![n] = @ + 1]
      PROVE  VisitedOnce' /\ visits' \in [Names -> Nat]
  BY <1>2 DEF VisitedOnce
<1> QED BY <1>1, <1>2 DEF Visiting

(* Steps that neither write to the bucket nor create anything.               *)
LEMMA AsidePanels ==
  ASSUME PanelInv, UNCHANGED <<profile, bucket, spoilt, deployments>>, Visiting,
         uploads' \subseteq UploadRow,
         \A v \in uploads' : \E u \in uploads : v.by = u.by /\ v.name = u.name /\ v.at = u.at /\ v.left = u.left,
         flights' \subseteq HandOver \cup TargetFetch,
         \A f \in flights' : f.kind = "createDeployment" => f \in flights,
         pending' \in Names \cup {None}, messages' \subseteq [no : Names, copy : 1..2]
  PROVE  PanelInv'
<1>1. VisitedOnce' /\ visits' \in [Names -> Nat]
  BY VisitsKept DEF PanelInv, PanelTypes
<1>2. PanelTypes'
  BY <1>1 DEF PanelInv, PanelTypes
<1>3. UploadsStay'
  <2> SUFFICES ASSUME NEW v \in uploads'
               PROVE (Spoilt(v.by, v.name) \/ (v.at = profile /\ Laid(v.by, v.name, profile, Files \ v.left)))'
    BY DEF UploadsStay
  <2>1. PICK u \in uploads : v.by = u.by /\ v.name = u.name /\ v.at = u.at /\ v.left = u.left
    OBVIOUS
  <2>2. Spoilt(u.by, u.name) \/ (u.at = profile /\ Laid(u.by, u.name, profile, Files \ u.left))
    BY DEF PanelInv, UploadsStay
  <2> QED BY <2>1, <2>2 DEF Spoilt, Laid
<1>4. RequestsStay'
  BY DEF PanelInv, RequestsStay, Spoilt, Laid
<1>5. CreatedStay'
  BY DEF PanelInv, CreatedStay, Spoilt, Laid
<1> QED BY <1>1, <1>2, <1>3, <1>4, <1>5 DEF PanelInv

LEMMA HandlingTypes ==
  ASSUME NEW p \in Panels, NEW n \in Names
  PROVE  /\ Request("createDeployment", p, n) \in HandOver /\ Request("notify", p, n) \in HandOver
         /\ Request("createDeployment", p, n).of = p /\ Request("createDeployment", p, n).arg = n
         /\ Request("notify", p, n).kind = "notify"
BY DEF Request, HandOver

LEMMA FetchTypes ==
  ASSUME NEW n \in Names \cup {None}, NEW c \in 0..2
  PROVE  /\ Request("consume", None, [then |-> n, copy |-> c]) \in TargetFetch
         /\ Request("consume", None, [then |-> n, copy |-> c]).kind = "consume"
BY DEF Request, TargetFetch

LEMMA NavigateVisits ==
  ASSUME PanelInv, NEW n \in Names, Navigate(n)
  PROVE  /\ Visiting /\ uploads' \subseteq UploadRow /\ messages' \subseteq messages
         /\ \A v \in uploads' : \E u \in uploads : v.by = u.by /\ v.name = u.name /\ v.at = u.at /\ v.left = u.left
<1>1. uploads \subseteq UploadRow
  BY DEF PanelInv, PanelTypes
<1>2. CASE n \in handled
  BY <1>1, <1>2 DEF Navigate, Staying, Visiting
<1>3. CASE n \notin handled
  <2>1. uploads' = Orphaned(Panels) /\ messages' = {}
        /\ handled' = handled \cup {n} /\ visits' = [visits EXCEPT ![n] = @ + 1]
    BY <1>3 DEF Navigate, Leaving
  <2> QED BY <1>1, <1>3, <2>1, OrphansAlike DEF Visiting
<1> QED BY <1>2, <1>3

LEMMA StudioKeeps ==
  ASSUME PanelInv,
         \/ \E p \in Panels : Show(p) \/ \E closed \in BOOLEAN : Hide(p, closed)
         \/ \E u \in uploads : UploadFails(u)
         \/ \E m \in messages : Receive(m)
         \/ PollNavigation \/ LeaveStudio \/ OpenStudio
         \/ \E f \in flights : Notify(f) \/ Consume(f)
  PROVE  PanelInv'
<1>0. /\ PanelTypes /\ uploads \subseteq UploadRow /\ flights \subseteq HandOver \cup TargetFetch
      /\ pending \in Names \cup {None} /\ messages \subseteq [no : Names, copy : 1..2]
  BY DEF PanelInv, PanelTypes
<1>1. ASSUME NEW p \in Panels, Show(p) PROVE PanelInv'
  BY <1>0, <1>1, AsidePanels DEF Show, browserVars, Visiting
<1>2. ASSUME NEW p \in Panels, NEW closed \in BOOLEAN, Hide(p, closed) PROVE PanelInv'
  <2>1. flights' \subseteq flights /\ UNCHANGED <<profile, bucket, spoilt, deployments, pending, messages, handled, visits>>
    BY <1>2 DEF Hide
  <2>2. /\ uploads' \subseteq UploadRow
        /\ \A v \in uploads' : \E u \in uploads : v.by = u.by /\ v.name = u.name /\ v.at = u.at /\ v.left = u.left
    BY <1>0, <1>2, OrphansAlike DEF Hide
  <2> QED BY <1>0, <2>1, <2>2, AsidePanels DEF Visiting
<1>3. ASSUME NEW u \in uploads, UploadFails(u) PROVE PanelInv'
  BY <1>0, <1>3, AsidePanels DEF UploadFails, Visiting
<1>4. ASSUME NEW m \in messages, Receive(m) PROVE PanelInv'
  <2>1. m.no \in Names /\ m.copy \in 0..2
    BY <1>0
  <2> DEFINE r == Request("consume", None, [then |-> IF m.no \in handled THEN None ELSE m.no, copy |-> m.copy])
  <2>2. r \in TargetFetch /\ r.kind = "consume"
    BY <2>1, FetchTypes
  <2>3. flights' = flights \cup {r} /\ messages' \subseteq messages
        /\ UNCHANGED <<profile, bucket, uploads, spoilt, deployments, pending, handled, visits>>
    BY <1>4 DEF Receive, Merged
  <2> HIDE DEF r
  <2> QED BY <1>0, <2>2, <2>3, AsidePanels DEF Visiting
<1>5. CASE PollNavigation
  <2> DEFINE r == Request("consume", None, [then |-> None, copy |-> 0])
  <2>1. None \in Names \cup {None} /\ 0 \in 0..2
    OBVIOUS
  <2>2. r \in TargetFetch /\ r.kind = "consume"
    BY <2>1, FetchTypes
  <2>3. flights' = flights \cup {r} /\ UNCHANGED panelVars
    BY <1>5 DEF PollNavigation, Merged
  <2> HIDE DEF r
  <2> QED BY <1>0, <2>2, <2>3, AsidePanels DEF Visiting, panelVars
<1>6. CASE LeaveStudio
  <2>1. flights' \subseteq flights /\ UNCHANGED <<profile, bucket, spoilt, deployments, pending, handled, visits>>
        /\ messages' = {} /\ uploads' = Orphaned(Panels)
    BY <1>6 DEF LeaveStudio, Leaving, Of
  <2> QED BY <1>0, <2>1, OrphansAlike, AsidePanels DEF Visiting
<1>7. CASE OpenStudio
  BY <1>0, <1>7, AsidePanels DEF OpenStudio, panelVars, Visiting
<1>8. ASSUME NEW f \in flights, Notify(f) PROVE PanelInv'
  <2>1. f.arg \in Names
    BY <1>0, <1>8 DEF Notify, HandOver, TargetFetch
  <2>2. /\ pending' \in Names \cup {None} /\ messages' \subseteq [no : Names, copy : 1..2] /\ flights' \subseteq flights
        /\ UNCHANGED <<profile, bucket, uploads, spoilt, deployments, handled, visits>>
    BY <1>0, <1>8, <2>1 DEF Notify, Without
  <2> QED BY <1>0, <2>2, AsidePanels DEF Visiting
<1>9. ASSUME NEW f \in flights, Consume(f) PROVE PanelInv'
  <2> DEFINE g == [f EXCEPT !.state = "ok", !.result = pending]
  <2>1. f \in TargetFetch
    BY <1>0, <1>9 DEF Consume, HandOver
  <2>2. g \in TargetFetch /\ g.kind = "consume"
    BY <1>0, <2>1 DEF TargetFetch
  <2>3. flights' \subseteq flights \cup {g} /\ pending' = None
        /\ UNCHANGED <<profile, bucket, uploads, spoilt, deployments, messages, handled, visits>>
    BY <1>9 DEF Consume, Answered
  <2> HIDE DEF g
  <2> QED BY <1>0, <2>2, <2>3, AsidePanels DEF Visiting
<1> QED BY <1>1, <1>2, <1>3, <1>4, <1>5, <1>6, <1>7, <1>8, <1>9

LEMMA TargetKeeps ==
  ASSUME PanelInv, NEW f \in flights, Consumed(f) \/ ConsumeLost(f)
  PROVE  PanelInv'
<1>0. /\ PanelTypes /\ uploads \subseteq UploadRow /\ flights \subseteq HandOver \cup TargetFetch
      /\ pending \in Names \cup {None} /\ messages \subseteq [no : Names, copy : 1..2]
  BY DEF PanelInv, PanelTypes
<1>1. f \in TargetFetch
  BY <1>0 DEF Consumed, ConsumeLost, HandOver
<1>2. f.result \in Names \cup {None} /\ f.arg.then \in Names \cup {None}
  BY <1>1 DEF TargetFetch
<1>3. flights' \subseteq flights /\ UNCHANGED <<profile, bucket, deployments, pending, spoilt>>
  BY DEF Consumed, ConsumeLost, Framed
<1>4. Staying \/ \E n \in Names : Navigate(n)
  BY <1>2 DEF Consumed, ConsumeLost
<1>5. CASE Staying
  BY <1>0, <1>3, <1>5, AsidePanels DEF Staying, Visiting
<1>6. ASSUME NEW n \in Names, Navigate(n) PROVE PanelInv'
  BY <1>0, <1>3, <1>6, NavigateVisits, AsidePanels
<1> QED BY <1>4, <1>5, <1>6

(* A file that is put is the panel's, and spoils what others have put.       *)
LEMMA FilesPut ==
  ASSUME PanelInv, NEW u \in uploads, NEW x \in u.left, PutFile(u, x),
         NEW p \in Panels, NEW n \in Names, NEW at \in Places, NEW files \in SUBSET Files
  PROVE  /\ Spoilt(p, n) => Spoilt(p, n)'
         /\ Laid(p, n, at, files) => Spoilt(p, n)' \/ \A y \in files : bucket'[at][n][y] = p
<1>1. u \in UploadRow /\ bucket \in [Places -> [Names -> [Files -> Panels \cup {None}]]]
  BY DEF PanelInv, PanelTypes
<1>2. /\ bucket' = [bucket EXCEPT ![u.at][u.name][x] = u.by]
      /\ spoilt' = spoilt \cup {v \in [by : Panels, name : {u.name}] : v.by # u.by}
  BY DEF PutFile
<1>3. CASE n = u.name /\ p # u.by
  BY <1>2, <1>3 DEF Spoilt
<1>4. CASE n # u.name
  <2>1. bucket'[at][n] = bucket[at][n]
    BY <1>1, <1>2, <1>4 DEF UploadRow
  <2> QED BY <1>2, <2>1 DEF Spoilt, Laid
<1>5. CASE n = u.name /\ p = u.by
  <2>1. \A y \in Files : bucket'[at][n][y] \in {u.by, bucket[at][n][y]}
    BY <1>1, <1>2 DEF UploadRow
  <2> QED BY <1>2, <1>5, <2>1 DEF Spoilt, Laid
<1> QED BY <1>3, <1>4, <1>5

LEMMA PutFileKeeps ==
  ASSUME PanelInv, NEW u \in uploads, NEW x \in Files, PutFile(u, x)
  PROVE  PanelInv'
<1> DEFINE w == [u EXCEPT !.left = @ \ {x}]
<1>0. u \in UploadRow /\ PanelTypes /\ UploadsStay /\ RequestsStay /\ CreatedStay /\ VisitedOnce /\ x \in u.left
  BY DEF PanelInv, PanelTypes, PutFile
<1>1. w \in UploadRow /\ w.by = u.by /\ w.name = u.name /\ w.at = u.at /\ w.left = u.left \ {x}
  BY <1>0 DEF UploadRow
<1>2. /\ uploads' = (uploads \ {u}) \cup {w} /\ bucket' = [bucket EXCEPT ![u.at][u.name][x] = u.by]
      /\ UNCHANGED <<flights, profile, deployments, pending, messages, handled, visits>>
  BY DEF PutFile, browserVars
<1> HIDE DEF w
<1>3. u.by \in Panels /\ u.at \in Places /\ u.name \in Names
  BY <1>0 DEF UploadRow
<1>4. bucket' \in [Places -> [Names -> [Files -> Panels \cup {None}]]]
  BY <1>0, <1>2, <1>3 DEF PanelTypes
<1>5. PanelTypes'
  BY <1>0, <1>1, <1>2, <1>4 DEF PanelTypes
<1>6. VisitedOnce'
  BY <1>0, <1>2 DEF VisitedOnce
<1>7. RequestsStay'
  <2> SUFFICES ASSUME NEW f \in flights, f.kind = "createDeployment"
               PROVE  Spoilt(f.of, f.arg)' \/ Laid(f.of, f.arg, profile, Files)'
    BY <1>2 DEF RequestsStay, Laid, Spoilt
  <2>1. f.of \in Panels /\ f.arg \in Names /\ profile \in Places /\ Files \in SUBSET Files
    BY <1>0 DEF PanelTypes, HandOver, TargetFetch
  <2>2. Spoilt(f.of, f.arg) \/ Laid(f.of, f.arg, profile, Files)
    BY <1>0 DEF RequestsStay
  <2> QED BY <1>0, <1>2, <2>1, <2>2, FilesPut DEF Laid, Spoilt
<1>8. CreatedStay'
  <2> SUFFICES ASSUME NEW n \in Names, deployments[n] # None
               PROVE  Spoilt(deployments[n].by, n)' \/ Laid(deployments[n].by, n, deployments[n].at, Files)'
    BY <1>2 DEF CreatedStay, Laid, Spoilt
  <2>1. deployments[n].by \in Panels /\ deployments[n].at \in Places /\ Files \in SUBSET Files
    BY <1>0 DEF PanelTypes, CreatedRow
  <2>2. Spoilt(deployments[n].by, n) \/ Laid(deployments[n].by, n, deployments[n].at, Files)
    BY <1>0 DEF CreatedStay
  <2> QED BY <1>0, <1>2, <2>1, <2>2, FilesPut DEF Laid, Spoilt
<1>9. UploadsStay'
  <2>1. ASSUME NEW v \in uploads
        PROVE  Spoilt(v.by, v.name)' \/ (v.at = profile /\ Laid(v.by, v.name, profile, Files \ v.left)')
    <3>1. v.by \in Panels /\ v.name \in Names /\ profile \in Places /\ Files \ v.left \in SUBSET Files
      BY <1>0 DEF PanelTypes, UploadRow
    <3>2. Spoilt(v.by, v.name) \/ (v.at = profile /\ Laid(v.by, v.name, profile, Files \ v.left))
      BY <1>0 DEF UploadsStay
    <3>3. PICK a \in Places : a = profile
      BY <3>1
    <3>4. /\ Spoilt(v.by, v.name) => Spoilt(v.by, v.name)'
          /\ Laid(v.by, v.name, a, Files \ v.left) =>
               Spoilt(v.by, v.name)' \/ \A y \in Files \ v.left : bucket'[a][v.name][y] = v.by
      BY <1>0, <3>1, FilesPut DEF Laid, Spoilt
    <3> QED BY <1>2, <3>2, <3>3, <3>4 DEF Laid
  <2>2. ASSUME w.at = profile, Laid(u.by, u.name, profile, Files \ u.left)'
        PROVE  Laid(w.by, w.name, profile, Files \ w.left)'
    <3>1. bucket'[profile][u.name][x] = u.by
      BY <1>0, <1>1, <1>2, <1>3, <2>2 DEF PanelTypes
    <3> QED BY <1>1, <1>2, <2>2, <3>1 DEF Laid
  <2>3. Spoilt(w.by, w.name)' \/ (w.at = profile /\ Laid(w.by, w.name, profile, Files \ w.left)')
    BY <1>1, <2>1, <2>2
  <2> QED BY <1>2, <2>1, <2>3 DEF UploadsStay, Laid, Spoilt
<1> QED BY <1>5, <1>6, <1>7, <1>8, <1>9 DEF PanelInv

LEMMA UploadKeeps ==
  ASSUME PanelInv, \/ \E p \in Panels, name \in Names, wizard \in BOOLEAN : Submit(p, name, wizard)
                   \/ \E u \in uploads : Uploaded(u)
                   \/ \E at \in Places : EditProfile(at)
  PROVE  PanelInv'
<1>0. PanelTypes /\ UploadsStay /\ RequestsStay /\ CreatedStay /\ VisitedOnce
  BY DEF PanelInv
<1>1. ASSUME NEW p \in Panels, NEW name \in Names, NEW wizard \in BOOLEAN, Submit(p, name, wizard)
      PROVE  PanelInv'
  <2> DEFINE u == [by |-> p, name |-> name, at |-> profile, left |-> Files, silent |-> wizard]
  <2>1. u \in UploadRow /\ u.by = p /\ u.name = name /\ u.at = profile /\ u.left = Files
    BY <1>0 DEF UploadRow, PanelTypes
  <2>2. uploads' = uploads \cup {u}
        /\ UNCHANGED <<flights, profile, bucket, deployments, pending, messages, handled, visits, spoilt>>
    BY <1>1 DEF Submit
  <2> HIDE DEF u
  <2>3. PanelTypes'
    BY <1>0, <2>1, <2>2 DEF PanelTypes
  <2>4. UploadsStay'
    BY <1>0, <2>1, <2>2 DEF UploadsStay, Spoilt, Laid
  <2>5. RequestsStay' /\ CreatedStay' /\ VisitedOnce'
    BY <1>0, <2>2 DEF RequestsStay, CreatedStay, VisitedOnce, Spoilt, Laid
  <2> QED BY <2>3, <2>4, <2>5 DEF PanelInv
<1>2. ASSUME NEW u \in uploads, Uploaded(u) PROVE PanelInv'
  <2> DEFINE r == Request("createDeployment", u.by, u.name)
  <2>1. u \in UploadRow /\ r \in HandOver /\ r.of = u.by /\ r.arg = u.name /\ u.left = {}
    BY <1>0, <1>2, HandlingTypes DEF UploadRow, PanelTypes, Uploaded
  <2>2. /\ uploads' \subseteq uploads /\ flights' \subseteq flights \cup {r}
        /\ UNCHANGED <<profile, bucket, deployments, pending, messages, handled, visits, spoilt>>
    BY <1>2 DEF Uploaded, Merged
  <2>3. Spoilt(u.by, u.name) \/ Laid(u.by, u.name, profile, Files)
    BY <1>0, <2>1 DEF UploadsStay, Laid
  <2> HIDE DEF r
  <2>4. PanelTypes'
    BY <1>0, <2>1, <2>2 DEF PanelTypes
  <2>5. RequestsStay'
    BY <1>0, <2>1, <2>2, <2>3 DEF RequestsStay, Spoilt, Laid
  <2>6. UploadsStay' /\ CreatedStay' /\ VisitedOnce'
    BY <1>0, <2>2 DEF UploadsStay, CreatedStay, VisitedOnce, Spoilt, Laid
  <2> QED BY <2>4, <2>5, <2>6 DEF PanelInv
<1>3. ASSUME NEW at \in Places, EditProfile(at) PROVE PanelInv'
  <2>1. /\ profile' = at /\ spoilt' = spoilt \cup [by : Panels, name : Names]
        /\ UNCHANGED <<flights, bucket, uploads, deployments, pending, messages, handled, visits>>
    BY <1>3 DEF EditProfile
  <2>2. PanelTypes' /\ VisitedOnce'
    BY <1>0, <2>1 DEF PanelTypes, VisitedOnce
  <2>3. \A p \in Panels, n \in Names : Spoilt(p, n)'
    BY <2>1 DEF Spoilt
  <2>4. UploadsStay'
    BY <1>0, <2>1, <2>3 DEF UploadsStay, PanelTypes, UploadRow
  <2>5. RequestsStay'
    BY <1>0, <2>1, <2>3 DEF RequestsStay, PanelTypes, HandOver, TargetFetch
  <2>6. CreatedStay'
    BY <1>0, <2>1, <2>3 DEF CreatedStay, PanelTypes, CreatedRow
  <2> QED BY <2>2, <2>4, <2>5, <2>6 DEF PanelInv
<1> QED BY <1>1, <1>2, <1>3

LEMMA CreateKeeps ==
  ASSUME PanelInv, NEW f \in flights, Create(f) \/ CreateFails(f)
  PROVE  PanelInv'
<1> DEFINE r == Request("notify", f.of, f.arg)
<1>0. PanelTypes /\ UploadsStay /\ RequestsStay /\ CreatedStay /\ VisitedOnce
  BY DEF PanelInv
<1>1. f \in HandOver /\ f.kind = "createDeployment" /\ f.of \in Panels /\ f.arg \in Names
  BY <1>0 DEF Create, CreateFails, PanelTypes, HandOver, TargetFetch
<1>2. r \in HandOver /\ r.kind = "notify"
  BY <1>1, HandlingTypes
<1>3. /\ flights' \subseteq flights \cup {r}
      /\ \/ UNCHANGED deployments
         \/ deployments[f.arg] = None /\ deployments' = [deployments EXCEPT ![f.arg] = NewRow(f.of)]
      /\ UNCHANGED <<profile, bucket, uploads, pending, messages, handled, visits, spoilt>>
  BY DEF Create, CreateFails, Without
<1> HIDE DEF r
<1>4. UploadsStay' /\ RequestsStay' /\ VisitedOnce'
  BY <1>0, <1>2, <1>3 DEF UploadsStay, RequestsStay, VisitedOnce, Spoilt, Laid
<1>5. NewRow(f.of) \in CreatedRow /\ NewRow(f.of).by = f.of /\ NewRow(f.of).at = profile
  BY <1>0, <1>1 DEF NewRow, CreatedRow, PanelTypes
<1>6. PanelTypes'
  BY <1>0, <1>2, <1>3, <1>5 DEF PanelTypes
<1>7. Spoilt(f.of, f.arg) \/ Laid(f.of, f.arg, profile, Files)
  BY <1>0, <1>1 DEF RequestsStay
<1>8. CreatedStay'
  <2> SUFFICES ASSUME NEW n \in Names, deployments'[n] # None
               PROVE  (Spoilt(deployments[n].by, n) \/ Laid(deployments[n].by, n, deployments[n].at, Files))'
    BY DEF CreatedStay
  <2>1. CASE deployments'[n] = deployments[n]
    BY <1>0, <1>3, <2>1 DEF CreatedStay, Spoilt, Laid
  <2>2. CASE deployments'[n] # deployments[n]
    <3>1. n = f.arg /\ deployments'[n] = NewRow(f.of)
      BY <1>0, <1>1, <1>3, <2>2 DEF PanelTypes
    <3> QED BY <1>3, <1>5, <1>7, <3>1 DEF Spoilt, Laid
  <2> QED BY <2>1, <2>2
<1> QED BY <1>4, <1>6, <1>8 DEF PanelInv

LEMMA PanelStarts == PanelInit => PanelInv
BY DEF PanelInit, PanelInv, PanelTypes, UploadsStay, RequestsStay, CreatedStay, VisitedOnce

LEMMA PanelStep == PanelInv /\ (PanelNext \/ UNCHANGED <<browserVars, panelVars>>) => PanelInv'
<1> SUFFICES ASSUME PanelInv, PanelNext \/ UNCHANGED <<browserVars, panelVars>> PROVE PanelInv'
  OBVIOUS
<1>1. CASE UNCHANGED <<browserVars, panelVars>>
  BY <1>1 DEF browserVars, panelVars, PanelInv, PanelTypes, UploadsStay, RequestsStay, CreatedStay,
              VisitedOnce, Spoilt, Laid
<1>2. CASE PanelUser
  BY <1>2, StudioKeeps, UploadKeeps, PutFileKeeps DEF PanelUser
<1>3. ASSUME NEW f \in flights, PanelAnswers(f) PROVE PanelInv'
  BY <1>3, StudioKeeps, TargetKeeps, CreateKeeps DEF PanelAnswers
<1> QED BY <1>1, <1>2, <1>3 DEF PanelNext

(* A deployment finds the whole folder its panel uploaded, unless another    *)
(* panel uploaded to the same name or the profile was pointed elsewhere, and *)
(* a hand-over is followed once, whichever of the two messages or the        *)
(* backend brings it first; for any number of panels, files and names        *)
(* (VS Code extension, deploy panels, frontend's deployment target).         *)
THEOREM HandedOver == Spec => []HandedOverOnce
<1>1. Init => (area = "panels" => PanelInv)
  BY AreaInits, PanelStarts DEF AreaInit
<1>2. (area = "panels" => PanelInv) /\ [Next]_vars => (area = "panels" => PanelInv)'
  BY AreaSteps, PanelStep DEF AreaStep
<1>3. (area = "panels" => PanelInv) => HandedOverOnce
  BY DEF PanelInv, CreatedStay, VisitedOnce, Spoilt, Laid, HandedOverOnce
<1> QED
  BY <1>1, <1>2, <1>3, PTL DEF Spec

-----------------------------------------------------------------------------
(* The users: what the answers that are still to come make of the table.     *)

UserTables == [Users -> Account \cup {None}]
UserArgs == Roles \cup (SUBSET Ids) \cup Newcomers \cup {None}
UserRequest ==
  {f \in [kind : UserWrites \cup {"users"}, of : Users \cup {None},
          arg : UserArgs, state : {"sent", "ok"},
          result : UserTables \cup {None}, heard : BOOLEAN] :
     /\ f.kind = "users" => f.heard /\ (f.state = "ok" => f.result \in UserTables)
     /\ f.kind # "users" => f.of \in Users
     /\ f.kind = "setRole" => f.arg \in Roles
     /\ f.kind \in {"assign", "unassign"} => f.arg \in SUBSET Ids
     /\ f.kind = "createUser" => f.arg \in Newcomers}

UserTypes ==
  /\ accounts \in UserTables /\ table \in UserTables /\ flights \subseteq UserRequest
  /\ \A f, g \in flights : f.kind = "users" /\ g.kind = "users" => f = g

(* Answers under way: of writes to a row, and of the load.                   *)
DueTo(u) == {f \in flights : f.state = "ok" /\ f.kind \in UserWrites /\ f.of = u}
Loads == {f \in flights : f.state = "ok" /\ f.kind = "users"}

(* What a write has made of its column.                                      *)
Says(f, row) ==
  /\ f.kind = "setRole" => row # None /\ row.role = f.arg
  /\ f.kind \in {"assign", "unassign"} => row # None /\ row.given = f.arg
  /\ f.kind = "deleteUser" => row = None
  /\ f.kind = "createUser" => row = f.arg

(* A row that agrees with another one but for what answers will change.      *)
Agrees(shownRow, row, answers) ==
  /\ (\A f \in answers : f.kind \notin {"createUser", "deleteUser"}) => (shownRow = None <=> row = None)
  /\ row # None /\ (\A f \in answers : "role" \notin Column(f.kind)) => shownRow.role = row.role
  /\ row # None /\ (\A f \in answers : "given" \notin Column(f.kind)) => shownRow.given = row.given

ApartIn(answers) == \A f, g \in answers : f # g => Column(f.kind) \cap Column(g.kind) = {}

LoadedRight(u) == DueTo(u) = {} /\ \E f \in Loads : f.result[u] = accounts[u]
WrittenRight(u) == /\ Loads = {} /\ ApartIn(DueTo(u)) /\ \A f \in DueTo(u) : Says(f, accounts[u])
                   /\ Agrees(table[u], accounts[u], DueTo(u))

UserInv == UserTypes /\ \A u \in Users \ spoiled : LoadedRight(u) \/ WrittenRight(u)

LEMMA ColumnsOf ==
  /\ Column("setRole") = {"role"} /\ Column("assign") = {"given"} /\ Column("unassign") = {"given"}
  /\ Column("createUser") = {"role", "given"} /\ Column("deleteUser") = {"role", "given"}
BY DEF Column

LEMMA WriteKinds == UserWrites \subseteq Writes /\ "users" \notin Writes /\ "users" \notin UserWrites
BY DEF UserWrites, Writes

(* A row whose answers, whose account and whose place in the table stay.     *)
LEMMA RowStays ==
  ASSUME NEW u \in Users, LoadedRight(u) \/ WrittenRight(u), DueTo(u)' = DueTo(u), Loads' = Loads,
         accounts'[u] = accounts[u], table'[u] = table[u]
  PROVE  (LoadedRight(u) \/ WrittenRight(u))'
BY DEF LoadedRight, WrittenRight

LEMMA UnheardTypes ==
  ASSUME NEW f \in UserRequest, f.kind \in UserWrites
  PROVE  /\ [f EXCEPT !.heard = FALSE] \in UserRequest /\ [f EXCEPT !.heard = FALSE].state = f.state
         /\ [f EXCEPT !.heard = FALSE].kind = f.kind
BY WriteKinds DEF UserRequest

LEMMA ArgTypes == None \in UserArgs /\ Roles \subseteq UserArgs /\ SUBSET Ids \subseteq UserArgs /\ Newcomers \subseteq UserArgs
<1> DEFINE Sets == SUBSET Ids
<1>2. UserArgs = Roles \cup Sets \cup Newcomers \cup {None}
  BY DEF UserArgs
<1> HIDE DEF Sets
<1>1. /\ None \in Roles \cup Sets \cup Newcomers \cup {None}
      /\ Roles \subseteq Roles \cup Sets \cup Newcomers \cup {None}
      /\ Sets \subseteq Roles \cup Sets \cup Newcomers \cup {None}
      /\ Newcomers \subseteq Roles \cup Sets \cup Newcomers \cup {None}
  OBVIOUS
<1>3. None \in UserArgs /\ Roles \subseteq UserArgs /\ Sets \subseteq UserArgs /\ Newcomers \subseteq UserArgs
  BY ONLY <1>1, <1>2
<1> QED BY <1>3 DEF Sets

LEMMA UserRequested ==
  ASSUME NEW kind \in UserWrites \cup {"users"}, NEW u \in Users \cup {None}, NEW arg \in UserArgs,
         kind # "users" => u \in Users, kind = "setRole" => arg \in Roles,
         kind \in {"assign", "unassign"} => arg \in SUBSET Ids, kind = "createUser" => arg \in Newcomers
  PROVE  Request(kind, u, arg) \in UserRequest
<1>1. None \in UserTables \cup {None}
  OBVIOUS
<1> DEFINE r == Request(kind, u, arg)
<1>2. /\ r \in [kind : UserWrites \cup {"users"}, of : Users \cup {None}, arg : UserArgs,
              state : {"sent", "ok"}, result : UserTables \cup {None}, heard : BOOLEAN]
      /\ r.kind = kind /\ r.arg = arg /\ r.of = u /\ r.heard /\ r.state = "sent"
  BY <1>1 DEF Request
<1> HIDE DEF r
<1> QED BY <1>2 DEF UserRequest, r

(* The requests beside the one that is asked for.                            *)
LEMMA BesideAsked ==
  ASSUME UserTypes, NEW kind \in UserWrites \cup {"users"}
  PROVE  /\ Unheard({kind}) \subseteq UserRequest
         /\ \A f \in Unheard({kind}) : \/ f \in flights /\ f.kind # kind
                                       \/ f.kind = kind /\ f.kind \in UserWrites /\ f.state = "sent"
         /\ \A f \in flights : f.kind # kind => f \in Unheard({kind})
<1>1. ASSUME NEW g \in flights, g.kind \in {kind}, g.kind \in Writes, g.state = "sent"
      PROVE  LET f == [g EXCEPT !.heard = FALSE]
             IN f \in UserRequest /\ f.kind = kind /\ f.kind \in UserWrites /\ f.state = "sent"
  <2>1. g \in UserRequest /\ g.kind \in UserWrites
    BY <1>1, WriteKinds DEF UserTypes
  <2> QED BY <1>1, <2>1, UnheardTypes
<1>2. Unheard({kind}) = {g \in flights : g.kind # kind}
        \cup {[f EXCEPT !.heard = FALSE] : f \in {g \in Of({kind}) : g.kind \in Writes /\ g.state = "sent"}}
  BY DEF Unheard, Of
<1>3. \A f \in Unheard({kind}) : \/ f \in flights /\ f.kind # kind
                                 \/ f \in UserRequest /\ f.kind = kind /\ f.kind \in UserWrites /\ f.state = "sent"
  BY <1>1, <1>2 DEF Of
<1> QED BY <1>2, <1>3 DEF UserTypes

LEMMA OpenUsersKeeps == UserInv /\ OpenUsers => UserInv'
<1> SUFFICES ASSUME UserInv, OpenUsers PROVE UserInv'
  OBVIOUS
<1> DEFINE r == Request("users", None, None)
<1>1. r \in UserRequest /\ r.kind = "users"
  <2>1. None \in Users \cup {None} /\ "users" \in UserWrites \cup {"users"}
    OBVIOUS
  <2>2. Request("users", None, None) \in UserRequest
    BY <2>1, UserRequested, ArgTypes
  <2> QED BY <2>2 DEF Request
<1>2. flights' = Unheard({"users"}) \cup {r} /\ spoiled' = Users /\ UNCHANGED <<accounts, table>>
  BY DEF OpenUsers, Switched, Request
<1> HIDE DEF r
<1>3. UserTypes'
  BY <1>1, <1>2, BesideAsked, WriteKinds DEF UserInv, UserTypes
<1> QED BY <1>2, <1>3 DEF UserInv

LEMMA AskKeeps ==
  ASSUME UserInv, NEW kind \in UserWrites, NEW u \in Users, NEW arg, Ask(kind, u, arg),
         Request(kind, u, arg) \in UserRequest
  PROVE  UserInv'
<1> DEFINE r == Request(kind, u, arg)
<1>1. r \in UserRequest /\ r.kind = kind /\ r.state = "sent"
  BY DEF Request
<1>2. /\ flights' = Unheard({kind}) \cup {r} /\ UNCHANGED <<accounts, table>>
      /\ spoiled' = spoiled \cup {f.of : f \in {g \in Of(UserWrites) : g.kind = kind /\ g.state = "ok"}}
  BY DEF Ask, Switched, Request
<1> HIDE DEF r
<1>3. UserTypes'
  BY <1>1, <1>2, BesideAsked, WriteKinds DEF UserInv, UserTypes
<1>4. Loads' = Loads
  BY <1>1, <1>2, BesideAsked, WriteKinds DEF UserInv, UserTypes, Loads
<1>5. ASSUME NEW v \in Users \ spoiled' PROVE (LoadedRight(v) \/ WrittenRight(v))'
  <2>1. v \notin spoiled /\ \A f \in flights : ~(f.kind = kind /\ f.state = "ok" /\ f.of = v)
    BY <1>2, <1>5 DEF Of
  <2>2. DueTo(v)' = DueTo(v)
    BY <1>1, <1>2, <2>1, BesideAsked DEF UserInv, UserTypes, DueTo
  <2>3. LoadedRight(v) \/ WrittenRight(v)
    BY <2>1 DEF UserInv
  <2> QED BY <1>2, <1>4, <2>2, <2>3, RowStays
<1> QED BY <1>3, <1>5 DEF UserInv

LEMMA AdministratorKeeps == UserInv /\ UserUser => UserInv'
<1> SUFFICES ASSUME UserInv, UserUser PROVE UserInv'
  OBVIOUS
<1>0. accounts \in UserTables /\ table \in UserTables /\ flights \subseteq UserRequest
  BY DEF UserInv, UserTypes
<1>1. CASE OpenUsers
  BY <1>1, OpenUsersKeeps
<1>2. ASSUME NEW u \in Users, DeleteUser(u) PROVE UserInv'
  <2>0. "deleteUser" \in UserWrites /\ u \in Users \cup {None}
    BY DEF UserWrites
  <2>1. Request("deleteUser", u, None) \in UserRequest /\ "deleteUser" \in UserWrites
    BY <2>0, UserRequested, ArgTypes
  <2> QED BY <1>2, <2>1, AskKeeps DEF DeleteUser
<1>3. ASSUME NEW u \in Users, NEW role \in Roles, SetRole(u, role) PROVE UserInv'
  <2>1. Request("setRole", u, role) \in UserRequest /\ "setRole" \in UserWrites
    BY UserRequested, ArgTypes DEF UserWrites
  <2> QED BY <1>3, <2>1, AskKeeps DEF SetRole
<1>4. ASSUME NEW u \in Users, NEW kind \in {"assign", "unassign"}, NEW arg \in SUBSET Ids, Ask(kind, u, arg) PROVE UserInv'
  <2>1. kind \in UserWrites /\ kind \notin {"users", "setRole", "createUser"} /\ arg \in UserArgs /\ u \in Users \cup {None}
    BY ArgTypes DEF UserWrites
  <2>2. Request(kind, u, arg) \in UserRequest
    BY <2>1, UserRequested, ArgTypes
  <2> QED BY <1>4, <2>1, <2>2, AskKeeps
<1>5. ASSUME NEW u \in Users, NEW i \in Ids, AddInstance(u, i) \/ RemoveInstance(u, i) PROVE UserInv'
  <2>1. table[u] # None
    BY <1>5 DEF AddInstance, RemoveInstance
  <2>2. table[u].given \cup {i} \in SUBSET Ids /\ table[u].given \ {i} \in SUBSET Ids
    BY <1>0, <2>1 DEF UserTables, Account
  <2> QED BY <1>4, <1>5, <2>2 DEF AddInstance, RemoveInstance
<1>6. ASSUME NEW u \in Users, NEW i \in Ids, OtherAdmin(u, i) PROVE UserInv'
  <2> DEFINE given == IF i \in accounts[u].given THEN accounts[u].given \ {i} ELSE accounts[u].given \cup {i}
  <2>1. /\ accounts[u] # None /\ accounts' = [accounts EXCEPT ![u].given = given]
        /\ spoiled' = spoiled \cup {u} /\ UNCHANGED <<flights, table>>
    BY <1>6 DEF OtherAdmin
  <2>2. accounts[u] \in Account
    BY <1>0, <2>1 DEF UserTables
  <2>3. given \in SUBSET Ids
    BY <2>2 DEF Account
  <2> HIDE DEF given
  <2>4. accounts' \in UserTables /\ \A v \in Users \ {u} : accounts'[v] = accounts[v]
    BY <1>0, <2>1, <2>2, <2>3 DEF UserTables, Account
  <2>5. UserTypes'
    BY <2>1, <2>4 DEF UserInv, UserTypes
  <2>6. ASSUME NEW v \in Users \ spoiled' PROVE (LoadedRight(v) \/ WrittenRight(v))'
    <3>1. v \notin spoiled /\ accounts'[v] = accounts[v] /\ table'[v] = table[v]
      BY <2>1, <2>4, <2>6
    <3>2. DueTo(v)' = DueTo(v) /\ Loads' = Loads
      BY <2>1 DEF DueTo, Loads
    <3> QED BY <3>1, <3>2, RowStays DEF UserInv
  <2> QED BY <2>5, <2>6 DEF UserInv
<1>7. ASSUME NEW u \in Users, NEW account \in Newcomers, CreateUser(u, account) PROVE UserInv'
  <2>1. Request("createUser", u, account) \in UserRequest /\ "createUser" \in UserWrites
    BY UserRequested, ArgTypes DEF UserWrites
  <2> QED BY <1>7, <2>1, AskKeeps DEF CreateUser
<1> QED BY <1>1, <1>2, <1>3, <1>5, <1>6, <1>7 DEF UserUser

LEMMA TableApplied ==
  ASSUME NEW f \in UserRequest, f.kind \in UserWrites, NEW t \in UserTables, NEW v,
         \/ f.kind = "setRole" /\ t[f.of] # None /\ v = [t EXCEPT ![f.of].role = f.arg]
         \/ f.kind \in {"assign", "unassign"} /\ t[f.of] # None /\ v = [t EXCEPT ![f.of].given = f.arg]
         \/ f.kind = "deleteUser" /\ v = [t EXCEPT ![f.of] = None]
         \/ f.kind = "createUser" /\ v = [t EXCEPT ![f.of] = f.arg]
  PROVE  v \in UserTables
<1>1. f.of \in Users
  BY WriteKinds DEF UserRequest
<1>2. CASE f.kind = "setRole" /\ t[f.of] # None /\ v = [t EXCEPT ![f.of].role = f.arg]
  <2>1. t[f.of] \in Account
    BY <1>1, <1>2 DEF UserTables
  <2>2. f.arg \in Roles
    BY <1>2 DEF UserRequest
  <2>3. [t[f.of] EXCEPT !.role = f.arg] \in Account
    BY <2>1, <2>2 DEF Account
  <2> QED BY <1>1, <1>2, <2>3 DEF UserTables
<1>3. CASE f.kind \in {"assign", "unassign"} /\ t[f.of] # None /\ v = [t EXCEPT ![f.of].given = f.arg]
  <2>1. t[f.of] \in Account
    BY <1>1, <1>3 DEF UserTables
  <2>2. f.arg \in SUBSET Ids
    BY <1>3 DEF UserRequest
  <2>3. [t[f.of] EXCEPT !.given = f.arg] \in Account
    BY <2>1, <2>2 DEF Account
  <2> QED BY <1>1, <1>3, <2>3 DEF UserTables
<1>4. CASE f.kind = "deleteUser" /\ v = [t EXCEPT ![f.of] = None]
  BY <1>1, <1>4 DEF UserTables
<1>5. CASE f.kind = "createUser" /\ v = [t EXCEPT ![f.of] = f.arg]
  <2>1. f.arg \in Account
    BY <1>5, NewcomersAssumption DEF UserRequest
  <2> QED BY <1>1, <1>5, <2>1 DEF UserTables
<1> QED BY <1>2, <1>3, <1>4, <1>5

(* What a write makes of a row, at the server and on the page.               *)
LEMMA RowApplied ==
  ASSUME NEW f \in UserRequest, f.kind \in UserWrites, NEW t \in UserTables, NEW v \in UserTables,
         \/ f.kind = "setRole" /\ t[f.of] # None /\ v = [t EXCEPT ![f.of].role = f.arg]
         \/ f.kind \in {"assign", "unassign"} /\ t[f.of] # None /\ v = [t EXCEPT ![f.of].given = f.arg]
         \/ f.kind = "deleteUser" /\ v = [t EXCEPT ![f.of] = None]
         \/ f.kind = "createUser" /\ v = [t EXCEPT ![f.of] = f.arg]
  PROVE  /\ \A u \in Users \ {f.of} : v[u] = t[u]
         /\ Says(f, v[f.of])
         /\ "role" \notin Column(f.kind) => v[f.of].role = t[f.of].role /\ v[f.of] # None
         /\ "given" \notin Column(f.kind) => v[f.of].given = t[f.of].given /\ v[f.of] # None
<1>1. f.of \in Users
  BY WriteKinds DEF UserRequest
<1>2. CASE f.kind = "setRole" /\ t[f.of] # None /\ v = [t EXCEPT ![f.of].role = f.arg]
  <2>1. t[f.of] \in Account
    BY <1>1, <1>2 DEF UserTables
  <2>2. v[f.of] = [t[f.of] EXCEPT !.role = f.arg] /\ v[f.of] \in Account \cup {None}
    BY <1>1, <1>2 DEF UserTables
  <2>3. [t[f.of] EXCEPT !.role = f.arg] \in Account /\ v[f.of].role = f.arg /\ v[f.of].given = t[f.of].given
    BY <1>2, <2>1, <2>2 DEF Account, UserRequest
  <2> QED BY <1>1, <1>2, <2>2, <2>3, ColumnsOf, NewcomersAssumption DEF Says, UserTables
<1>3. CASE f.kind \in {"assign", "unassign"} /\ t[f.of] # None /\ v = [t EXCEPT ![f.of].given = f.arg]
  <2>1. t[f.of] \in Account
    BY <1>1, <1>3 DEF UserTables
  <2>2. v[f.of] = [t[f.of] EXCEPT !.given = f.arg] /\ v[f.of] \in Account \cup {None}
    BY <1>1, <1>3 DEF UserTables
  <2>3. [t[f.of] EXCEPT !.given = f.arg] \in Account /\ v[f.of].given = f.arg /\ v[f.of].role = t[f.of].role
    BY <1>3, <2>1, <2>2 DEF Account, UserRequest
  <2> QED BY <1>1, <1>3, <2>2, <2>3, ColumnsOf, NewcomersAssumption DEF Says, UserTables
<1>4. CASE f.kind = "deleteUser" /\ v = [t EXCEPT ![f.of] = None]
  BY <1>1, <1>4, ColumnsOf DEF Says, UserTables
<1>5. CASE f.kind = "createUser" /\ v = [t EXCEPT ![f.of] = f.arg]
  BY <1>1, <1>5, ColumnsOf DEF Says, UserTables
<1> QED BY <1>2, <1>3, <1>4, <1>5

LEMMA ColumnsTouched ==
  ASSUME NEW f, NEW g, f.kind \in UserWrites, g.kind \in UserWrites, Column(f.kind) \cap Column(g.kind) = {}
  PROVE  \/ f.kind = "setRole" /\ g.kind \in {"assign", "unassign"}
         \/ g.kind = "setRole" /\ f.kind \in {"assign", "unassign"}
BY ColumnsOf DEF UserWrites

(* An answer joins others: what it says and what it leaves to them.          *)
LEMMA AnswerJoins ==
  ASSUME NEW D, \A g \in D : g.kind \in UserWrites, NEW h, h.kind \in UserWrites,
         ApartIn(D), \A g \in D : Column(g.kind) \cap Column(h.kind) = {},
         NEW row, NEW new, NEW shownRow, \A g \in D : Says(g, row), Agrees(shownRow, row, D), Says(h, new),
         "role" \notin Column(h.kind) => new.role = row.role /\ new # None /\ row # None,
         "given" \notin Column(h.kind) => new.given = row.given /\ new # None /\ row # None
  PROVE  /\ ApartIn(D \cup {h}) /\ Agrees(shownRow, new, D \cup {h})
         /\ \A g \in D \cup {h} : Says(g, new)
<1>1. \A g \in D : \/ h.kind = "setRole" /\ g.kind \in {"assign", "unassign"}
                   \/ g.kind = "setRole" /\ h.kind \in {"assign", "unassign"}
  BY ColumnsTouched
<1>2. ApartIn(D \cup {h})
  BY DEF ApartIn
<1>3. \A g \in D \cup {h} : Says(g, new)
  BY <1>1, ColumnsOf DEF Says
<1>4. Agrees(shownRow, new, D \cup {h})
  BY <1>1, ColumnsOf DEF Agrees, UserWrites
<1> QED BY <1>2, <1>3, <1>4

(* The page takes one of the answers in.                                     *)
LEMMA AnswerLeaves ==
  ASSUME NEW D, \A g \in D : g.kind \in UserWrites, ApartIn(D), NEW f \in D, f.kind = "createUser" => f.arg # None,
         NEW row, NEW shownRow, NEW new, Says(f, row), Agrees(shownRow, row, D), Says(f, new),
         "role" \notin Column(f.kind) => new.role = shownRow.role /\ new # None,
         "given" \notin Column(f.kind) => new.given = shownRow.given /\ new # None
  PROVE  ApartIn(D \ {f}) /\ Agrees(new, row, D \ {f})
<1>1. \A g \in D \ {f} : \/ f.kind = "setRole" /\ g.kind \in {"assign", "unassign"}
                         \/ g.kind = "setRole" /\ f.kind \in {"assign", "unassign"}
  BY ColumnsTouched DEF ApartIn
<1>2. ApartIn(D \ {f})
  BY DEF ApartIn
<1>3. CASE f.kind \in {"createUser", "deleteUser"}
  <2>1. D \ {f} = {}
    BY <1>1, <1>3
  <2>2. new = row
    BY <1>3 DEF Says
  <2>3. Agrees(row, row, {})
    BY DEF Agrees
  <2> QED BY <1>2, <2>1, <2>2, <2>3
<1>4. CASE f.kind \in {"setRole", "assign", "unassign"}
  <2>1. row # None /\ new # None
    BY <1>4, ColumnsOf DEF Says
  <2>2. \A g \in D : g.kind \notin {"createUser", "deleteUser"}
    BY <1>1, <1>4
  <2>3. shownRow # None
    BY <2>1, <2>2 DEF Agrees
  <2>4. CASE f.kind = "setRole"
    <3>1. new.role = row.role /\ new.given = shownRow.given
      BY <2>4, ColumnsOf DEF Says
    <3>2. (\A g \in D \ {f} : "given" \notin Column(g.kind)) => shownRow.given = row.given
      BY <2>1, <2>4, ColumnsOf DEF Agrees
    <3> QED BY <1>2, <2>1, <3>1, <3>2 DEF Agrees
  <2>5. CASE f.kind \in {"assign", "unassign"}
    <3>1. new.given = row.given /\ new.role = shownRow.role
      BY <2>5, ColumnsOf DEF Says
    <3>2. (\A g \in D \ {f} : "role" \notin Column(g.kind)) => shownRow.role = row.role
      BY <2>1, <2>5, ColumnsOf DEF Agrees
    <3> QED BY <1>2, <2>1, <3>1, <3>2 DEF Agrees
  <2> QED BY <1>4, <2>4, <2>5
<1> QED BY <1>2, <1>3, <1>4 DEF UserWrites

LEMMA ApplyUserKeeps ==
  ASSUME UserInv, NEW f \in flights, ApplyUser(f)
  PROVE  UserInv'
<1> DEFINE h == [f EXCEPT !.state = "ok", !.result = None]
<1>1. /\ f \in UserRequest /\ f.kind \in UserWrites /\ f.state = "sent" /\ f.of \in Users
      /\ accounts \in UserTables /\ table \in UserTables /\ flights \subseteq UserRequest
  BY WriteKinds DEF UserInv, UserTypes, ApplyUser, Sent, UserRequest
<1>2. /\ h \in UserRequest /\ h.kind = f.kind /\ h.of = f.of /\ h.arg = f.arg /\ h.state = "ok"
  BY <1>1, WriteKinds DEF UserRequest
<1>3. /\ flights' = (flights \ {f}) \cup (IF f.heard THEN {h} ELSE {})
      /\ accounts' = Applied(accounts, f) /\ table' = table
      /\ spoiled' = IF ~f.heard \/ Overtakes(f) THEN spoiled \cup {f.of} ELSE spoiled
      /\ (accounts[f.of] = None) = (f.kind = "createUser")
  BY DEF ApplyUser, Answered
<1> HIDE DEF h
<1>4. \/ f.kind = "setRole" /\ accounts[f.of] # None /\ accounts' = [accounts EXCEPT ![f.of].role = f.arg]
      \/ f.kind \in {"assign", "unassign"} /\ accounts[f.of] # None /\ accounts' = [accounts EXCEPT ![f.of].given = f.arg]
      \/ f.kind = "deleteUser" /\ accounts' = [accounts EXCEPT ![f.of] = None]
      \/ f.kind = "createUser" /\ accounts' = [accounts EXCEPT ![f.of] = f.arg]
  BY <1>1, <1>3 DEF Applied, UserWrites
<1>5. accounts' \in UserTables
  BY <1>1, <1>4, TableApplied
<1>6. /\ \A u \in Users \ {f.of} : accounts'[u] = accounts[u]
      /\ Says(f, accounts'[f.of])
      /\ "role" \notin Column(f.kind) =>
           accounts'[f.of].role = accounts[f.of].role /\ accounts'[f.of] # None /\ accounts[f.of] # None
      /\ "given" \notin Column(f.kind) =>
           accounts'[f.of].given = accounts[f.of].given /\ accounts'[f.of] # None /\ accounts[f.of] # None
  BY <1>1, <1>3, <1>4, <1>5, RowApplied, ColumnsOf DEF UserWrites
<1>7. UserTypes'
  BY <1>1, <1>2, <1>3, <1>5, WriteKinds DEF UserInv, UserTypes
<1>8. Loads' = Loads
  BY <1>1, <1>2, <1>3, WriteKinds DEF Loads
<1>9. ASSUME NEW u \in Users \ spoiled', u # f.of PROVE (LoadedRight(u) \/ WrittenRight(u))'
  <2>1. DueTo(u)' = DueTo(u)
    BY <1>1, <1>2, <1>3, <1>9 DEF DueTo
  <2>2. u \notin spoiled
    BY <1>3, <1>9
  <2> QED BY <1>3, <1>6, <1>8, <1>9, <2>1, <2>2, RowStays DEF UserInv
<1>10. ASSUME f.of \notin spoiled' PROVE WrittenRight(f.of)'
  <2> DEFINE u == f.of
             D == DueTo(u)
  <2>1. u \notin spoiled /\ f.heard /\ ~Overtakes(f)
    BY <1>3, <1>10
  <2>2. Loads = {} /\ \A g \in D : Column(g.kind) \cap Column(f.kind) = {}
    BY <1>1, <2>1, WriteKinds DEF Overtakes, Loads, DueTo
  <2>3. ApartIn(D) /\ (\A g \in D : Says(g, accounts[u])) /\ Agrees(table[u], accounts[u], D)
    BY <1>1, <2>1, <2>2 DEF UserInv, LoadedRight, WrittenRight
  <2>4. DueTo(u)' = D \cup {h}
    BY <1>1, <1>2, <1>3, <2>1 DEF DueTo
  <2>5. /\ h.kind \in UserWrites /\ Says(h, accounts'[u])
        /\ \A g \in D : g.kind \in UserWrites /\ Column(g.kind) \cap Column(h.kind) = {}
    BY <1>1, <1>2, <1>6, <2>2 DEF Says, DueTo
  <2>6. /\ "role" \notin Column(h.kind) =>
             accounts'[u].role = accounts[u].role /\ accounts'[u] # None /\ accounts[u] # None
        /\ "given" \notin Column(h.kind) =>
             accounts'[u].given = accounts[u].given /\ accounts'[u] # None /\ accounts[u] # None
    BY <1>2, <1>6
  <2> HIDE DEF D, u
  <2>7. /\ ApartIn(D \cup {h}) /\ Agrees(table[u], accounts'[u], D \cup {h})
        /\ \A g \in D \cup {h} : Says(g, accounts'[u])
    BY <2>3, <2>5, <2>6, AnswerJoins
  <2> QED BY <1>3, <1>8, <2>2, <2>4, <2>7 DEF WrittenRight, u
<1> QED BY <1>7, <1>9, <1>10 DEF UserInv

LEMMA UserRefusedKeeps ==
  ASSUME UserInv, NEW f \in flights, f.state = "sent", Without(f), UNCHANGED userVars
  PROVE  UserInv'
<1>1. flights' = flights \ {f} /\ UNCHANGED <<accounts, table, spoiled>>
  BY DEF Without, userVars
<1>2. UserTypes'
  BY <1>1 DEF UserInv, UserTypes
<1>3. ASSUME NEW u \in Users \ spoiled' PROVE (LoadedRight(u) \/ WrittenRight(u))'
  <2>1. DueTo(u)' = DueTo(u) /\ Loads' = Loads
    BY <1>1 DEF DueTo, Loads
  <2> QED BY <1>1, <1>3, <2>1, RowStays DEF UserInv
<1> QED BY <1>2, <1>3 DEF UserInv

LEMMA ReadUsersKeeps ==
  ASSUME UserInv, NEW f \in flights, ReadUsers(f)
  PROVE  UserInv'
<1> DEFINE h == [f EXCEPT !.state = "ok", !.result = accounts]
<1>1. /\ f \in UserRequest /\ f.kind = "users" /\ f.heard
      /\ accounts \in UserTables /\ table \in UserTables /\ flights \subseteq UserRequest
  BY WriteKinds DEF UserInv, UserTypes, ReadUsers, Sent, UserRequest
<1>2. h \in UserRequest /\ h.kind = "users" /\ h.state = "ok" /\ h.result = accounts
  BY <1>1, WriteKinds DEF UserRequest
<1>3. /\ flights' = (flights \ {f}) \cup {h} /\ UNCHANGED <<accounts, table>>
      /\ spoiled' = {g.of : g \in {a \in Of(UserWrites) : a.state = "ok"}}
  BY <1>1 DEF ReadUsers, Answered
<1> HIDE DEF h
<1>4. UserTypes'
  BY <1>1, <1>2, <1>3, WriteKinds DEF UserInv, UserTypes
<1>5. ASSUME NEW u \in Users \ spoiled' PROVE LoadedRight(u)'
  <2>1. DueTo(u)' = {}
    BY <1>2, <1>3, <1>5, WriteKinds DEF DueTo, Of
  <2>2. h \in Loads'
    BY <1>2, <1>3 DEF Loads
  <2> QED BY <1>2, <1>3, <2>1, <2>2 DEF LoadedRight
<1> QED BY <1>4, <1>5 DEF UserInv

LEMMA UserRequestLostKeeps ==
  ASSUME UserInv, NEW f \in flights, UserRequestLost(f)
  PROVE  UserInv'
<1>1. /\ flights' = flights \ {f} /\ UNCHANGED <<accounts, table>> /\ f.kind \in UserWrites \cup {"users"}
      /\ spoiled' = IF f.kind = "users" THEN Users ELSE IF f.state = "ok" THEN spoiled \cup {f.of} ELSE spoiled
  BY DEF UserRequestLost, Without
<1>2. UserTypes'
  BY <1>1 DEF UserInv, UserTypes
<1>3. ASSUME NEW u \in Users \ spoiled' PROVE (LoadedRight(u) \/ WrittenRight(u))'
  <2>1. u \notin spoiled /\ f.kind # "users" /\ (f.state = "ok" => f.of # u)
    BY <1>1, <1>3
  <2>2. DueTo(u)' = DueTo(u) /\ Loads' = Loads
    BY <1>1, <2>1 DEF DueTo, Loads
  <2> QED BY <1>1, <2>1, <2>2, RowStays DEF UserInv
<1> QED BY <1>2, <1>3 DEF UserInv

LEMMA UsersLoadedKeeps ==
  ASSUME UserInv, NEW f \in flights, UsersLoaded(f)
  PROVE  UserInv'
<1>1. /\ flights' = flights \ {f} /\ UNCHANGED <<accounts, spoiled>> /\ table' = f.result
      /\ f.kind = "users" /\ f.state = "ok" /\ f \in UserRequest
  BY DEF UserInv, UserTypes, UsersLoaded, Without, Answers
<1>2. UserTypes'
  BY <1>1 DEF UserInv, UserTypes, UserRequest
<1>3. Loads = {f}
  BY <1>1 DEF UserInv, UserTypes, Loads
<1>4. ASSUME NEW u \in Users \ spoiled' PROVE WrittenRight(u)'
  <2>1. DueTo(u) = {} /\ table'[u] = accounts'[u]
    BY <1>1, <1>3, <1>4 DEF UserInv, LoadedRight, WrittenRight
  <2>2. DueTo(u)' = {} /\ Loads' = {}
    BY <1>1, <1>3, <2>1, WriteKinds DEF DueTo, Loads
  <2>3. ApartIn({}) /\ Agrees(table'[u], accounts'[u], {})
    BY <2>1 DEF ApartIn, Agrees
  <2> QED BY <2>2, <2>3 DEF WrittenRight
<1> QED BY <1>2, <1>4 DEF UserInv

LEMMA UserWrittenKeeps ==
  ASSUME UserInv, NEW f \in flights, UserWritten(f)
  PROVE  UserInv'
<1>1. /\ f \in UserRequest /\ f.kind \in UserWrites /\ f.state = "ok" /\ f.of \in Users
      /\ accounts \in UserTables /\ table \in UserTables
  BY WriteKinds DEF UserInv, UserTypes, UserWritten, Answers, UserRequest
<1>2. flights' = flights \ {f} /\ UNCHANGED <<accounts, spoiled>>
  BY DEF UserWritten, Without
<1>0. table[f.of] = None => table = [table EXCEPT ![f.of] = None]
  BY <1>1 DEF UserTables
<1>3. \/ f.kind \in {"setRole", "assign", "unassign"} /\ table[f.of] = None /\ table' = table
      \/ f.kind = "setRole" /\ table[f.of] # None /\ table' = [table EXCEPT ![f.of].role = f.arg]
      \/ f.kind \in {"assign", "unassign"} /\ table[f.of] # None /\ table' = [table EXCEPT ![f.of].given = f.arg]
      \/ f.kind = "deleteUser" /\ table' = [table EXCEPT ![f.of] = None]
      \/ f.kind = "createUser" /\ table' = [table EXCEPT ![f.of] = f.arg]
  BY <1>0, <1>1 DEF UserWritten, UserWrites, Applied
<1>4. table' \in UserTables
  BY <1>1, <1>3, TableApplied
<1>5. UserTypes'
  BY <1>1, <1>2, <1>4 DEF UserInv, UserTypes
<1>6. \A u \in Users \ {f.of} : table'[u] = table[u]
  BY <1>1, <1>3, <1>4, RowApplied
<1>7. Loads' = Loads
  BY <1>1, <1>2, WriteKinds DEF Loads
<1>8. ASSUME NEW u \in Users \ spoiled', u # f.of PROVE (LoadedRight(u) \/ WrittenRight(u))'
  <2>1. DueTo(u)' = DueTo(u)
    BY <1>2, <1>8 DEF DueTo
  <2> QED BY <1>2, <1>6, <1>7, <1>8, <2>1, RowStays DEF UserInv
<1>9. ASSUME f.of \notin spoiled' PROVE WrittenRight(f.of)'
  <2> DEFINE u == f.of
             D == DueTo(u)
  <2>1. f \in D
    BY <1>1 DEF DueTo
  <2>2. /\ Loads = {} /\ ApartIn(D) /\ (\A g \in D : Says(g, accounts[u]))
        /\ Agrees(table[u], accounts[u], D)
    BY <1>1, <1>2, <1>9, <2>1 DEF UserInv, LoadedRight, WrittenRight
  <2>3. DueTo(u)' = D \ {f} /\ \A g \in D : g.kind \in UserWrites
    BY <1>2 DEF DueTo
  <2>4. f.kind \in {"setRole", "assign", "unassign"} => table[u] # None
    <3>1. SUFFICES ASSUME f.kind \in {"setRole", "assign", "unassign"} PROVE table[u] # None
      OBVIOUS
    <3>2. accounts[u] # None
      BY <2>1, <2>2, <3>1 DEF Says
    <3>3. \A g \in D : g.kind \notin {"createUser", "deleteUser"}
      BY <2>1, <2>2, <2>3, <3>1, ColumnsTouched, ColumnsOf DEF ApartIn
    <3> QED BY <2>2, <3>2, <3>3 DEF Agrees
  <2>5. /\ Says(f, table'[u])
        /\ "role" \notin Column(f.kind) => table'[u].role = table[u].role /\ table'[u] # None
        /\ "given" \notin Column(f.kind) => table'[u].given = table[u].given /\ table'[u] # None
    BY <1>1, <1>3, <1>4, <2>4, RowApplied
  <2>6. f.kind = "createUser" => f.arg # None
    BY <1>1, NewcomersAssumption DEF UserRequest
  <2>7. Says(f, accounts[u])
    BY <2>1, <2>2
  <2> HIDE DEF D, u
  <2>8. ApartIn(D \ {f}) /\ Agrees(table'[u], accounts[u], D \ {f})
    BY <2>1, <2>2, <2>3, <2>5, <2>6, <2>7, AnswerLeaves
  <2> QED BY <1>2, <1>7, <2>2, <2>3, <2>8 DEF WrittenRight, u
<1> QED BY <1>5, <1>8, <1>9 DEF UserInv

LEMMA UserStarts == UserInit => UserInv
<1> SUFFICES ASSUME UserInit PROVE UserInv
  OBVIOUS
<1>1. Request("users", None, None) \in UserRequest
  <2>1. None \in Users \cup {None} /\ "users" \in UserWrites \cup {"users"}
    OBVIOUS
  <2> QED BY <2>1, UserRequested, ArgTypes
<1>2. accounts \in UserTables
  BY NewcomersAssumption DEF UserInit, UserTables
<1>3. table \in UserTables
  BY DEF UserInit, UserTables
<1> QED BY <1>1, <1>2, <1>3 DEF UserInit, UserInv, UserTypes

LEMMA UserStep == UserInv /\ (UserNext \/ UNCHANGED <<browserVars, userVars>>) => UserInv'
<1> SUFFICES ASSUME UserInv, UserNext \/ UNCHANGED <<browserVars, userVars>> PROVE UserInv'
  OBVIOUS
<1>1. CASE UserUser
  BY <1>1, AdministratorKeeps
<1>2. ASSUME NEW f \in flights, UserAnswers(f) PROVE UserInv'
  <2>1. CASE ApplyUser(f)
    BY <2>1, ApplyUserKeeps
  <2>2. CASE UserRefused(f)
    BY <2>2, UserRefusedKeeps DEF UserRefused, Sent
  <2>3. CASE ReadUsers(f)
    BY <2>3, ReadUsersKeeps
  <2>4. CASE UserRequestLost(f)
    BY <2>4, UserRequestLostKeeps
  <2>5. CASE UsersLoaded(f)
    BY <2>5, UsersLoadedKeeps
  <2>6. CASE UserWritten(f)
    BY <2>6, UserWrittenKeeps
  <2> QED BY <1>2, <2>1, <2>2, <2>3, <2>4, <2>5, <2>6 DEF UserAnswers
<1>3. CASE UNCHANGED <<browserVars, userVars>>
  <2>1. UNCHANGED <<flights, accounts, table, spoiled>>
    BY <1>3 DEF browserVars, userVars
  <2>2. \A u \in Users : DueTo(u)' = DueTo(u) /\ Loads' = Loads
    BY <2>1 DEF DueTo, Loads
  <2>3. UserTypes'
    BY <2>1 DEF UserInv, UserTypes
  <2>4. ASSUME NEW u \in Users \ spoiled' PROVE (LoadedRight(u) \/ WrittenRight(u))'
    BY <2>1, <2>2, <2>4, RowStays DEF UserInv
  <2> QED BY <2>3, <2>4 DEF UserInv
<1> QED BY <1>1, <1>2, <1>3 DEF UserNext

(* A row without an answer under way is the server's.                        *)
LEMMA RowsAreRight == UserInv => \A u \in Users \ spoiled :
  table[u] = accounts[u] \/ \E f \in flights : f.state = "ok" /\ (f.kind = "users" \/ f.of = u)
<1> SUFFICES ASSUME UserInv, NEW u \in Users \ spoiled,
                    ~ \E f \in flights : f.state = "ok" /\ (f.kind = "users" \/ f.of = u)
             PROVE  table[u] = accounts[u]
  OBVIOUS
<1>1. DueTo(u) = {} /\ Loads = {}
  BY DEF DueTo, Loads
<1>2. Agrees(table[u], accounts[u], {})
  BY <1>1 DEF UserInv, LoadedRight, WrittenRight
<1>3. table[u] \in Account \cup {None} /\ accounts[u] \in Account \cup {None}
  BY DEF UserInv, UserTypes, UserTables
<1>4. table[u] = None <=> accounts[u] = None
  BY <1>2 DEF Agrees
<1>5. accounts[u] # None => table[u].role = accounts[u].role /\ table[u].given = accounts[u].given
  BY <1>2 DEF Agrees
<1> QED BY <1>3, <1>4, <1>5 DEF Account

(* A row of the table of the users that no answer under way will change is   *)
(* the server's, whatever the order in which the load and the writes of an   *)
(* administrator are answered, except where two of them touched the same     *)
(* columns of a user, an answer got lost or another administrator wrote; for *)
(* any number of users and requests (state/users, api/users.py).             *)
THEOREM TableStaysRight == Spec => []TableIsRight
<1>1. Init => (area = "users" => UserInv)
  BY AreaInits, UserStarts DEF AreaInit
<1>2. (area = "users" => UserInv) /\ [Next]_vars => (area = "users" => UserInv)'
  BY AreaSteps, UserStep DEF AreaStep
<1>3. (area = "users" => UserInv) => TableIsRight
  BY RowsAreRight DEF TableIsRight
<1> QED
  BY <1>1, <1>2, <1>3, PTL DEF Spec

-----------------------------------------------------------------------------
(* The Profile page: which answers may still say something about the run.    *)

RunState == [state : {"none", "active", "stopping"}, changes : Nat]
ProfileRequest ==
  {f \in [kind : {"profile", "startRun", "stopRun"}, of : Profiled, arg : Nat, state : {"sent", "ok"},
          result : RunState \cup {None}, heard : {TRUE}] :
     /\ f.kind = "profile" /\ f.state = "ok" => f.result \in RunState
     /\ f.state = "sent" => f.result = None}

Tells(f) == f.state = "ok" /\ (f.kind = "profile" \/ f.result # None)
ActionAsked(f) == f.kind \in {"startRun", "stopRun"} /\ Mine(f)

ProfileTypes ==
  /\ acts \in Nat /\ page.no \in Nat /\ page.no <= acts
  /\ runs \in [Profiled -> RunState] /\ seen \in Nat
  /\ OnProfile => page.of \in Profiled
  /\ flights \subseteq ProfileRequest /\ \A f \in flights : f.arg <= page.no
  /\ working \in BOOLEAN /\ waiting \in BOOLEAN

(* Nothing that is told is older than what is shown.                         *)
InOrder ==
  /\ OnProfile => seen <= runs[page.of].changes
  /\ OnProfile /\ view # None => view.of = page.of /\ view.run.changes = seen
  /\ \A f \in flights : Tells(f) => /\ f.result.changes <= runs[f.of].changes
                                    /\ OnProfile /\ Mine(f) => seen <= f.result.changes

(* One status request at a time; one action, for which the page waits.       *)
OneAtATime ==
  /\ \A f, g \in flights : f.kind = "profile" /\ g.kind = "profile" => f = g
  /\ OnProfile => /\ \A f, g \in flights : ActionAsked(f) /\ ActionAsked(g) => f = g
                  /\ working <=> \E f \in flights : ActionAsked(f)

StatusComes == /\ OnProfile => waiting \/ \E f \in flights : Mine(f)
               /\ waiting => OnProfile

ProfileInv == ProfileTypes /\ InOrder /\ OneAtATime /\ StatusComes

(* A request that the server has answered.                                   *)
LEMMA ProfileServed ==
  ASSUME ProfileInv, NEW f \in flights, NEW answer, answer \in RunState \/ (answer = None /\ f.kind # "profile"),
         flights' = Answered(f, answer), UNCHANGED <<page, acts, view, seen, working, loading, failing, waiting>>,
         runs' \in [Profiled -> RunState], \A m \in Profiled : runs[m].changes <= runs'[m].changes,
         answer # None \/ f.kind = "profile" => answer = runs'[f.of]
  PROVE  ProfileInv'
<1> DEFINE h == [f EXCEPT !.state = "ok", !.result = answer]
<1>1. /\ f \in ProfileRequest /\ f.of \in Profiled /\ flights \subseteq ProfileRequest /\ f.heard
      /\ runs \in [Profiled -> RunState] /\ seen \in Nat
  BY DEF ProfileInv, ProfileTypes, ProfileRequest
<1>2. /\ h \in ProfileRequest /\ h.kind = f.kind /\ h.of = f.of /\ h.arg = f.arg /\ h.state = "ok"
      /\ h.result = answer
  BY <1>1 DEF ProfileRequest
<1>3. flights' = (flights \ {f}) \cup {h}
  BY <1>1 DEF Answered
<1> HIDE DEF h
<1>4. (Mine(f)' <=> Mine(f)) /\ (Mine(h)' <=> Mine(f)) /\ (OnProfile' <=> OnProfile) /\ \A g : Mine(g)' <=> Mine(g)
  BY <1>2 DEF Mine, OnProfile
<1>5. ProfileTypes'
  BY <1>2, <1>3, <1>4 DEF ProfileInv, ProfileTypes, ProfileRequest, OnProfile
<1>6. InOrder'
  <2>1. \A m \in Profiled : runs[m].changes \in Nat /\ runs'[m].changes \in Nat
    BY <1>1 DEF RunState
  <2>2. OnProfile => page.of \in Profiled /\ seen <= runs[page.of].changes
    BY DEF ProfileInv, ProfileTypes, InOrder
  <2>3. (OnProfile => seen <= runs[page.of].changes)'
    BY <1>1, <1>4, <2>1, <2>2 DEF OnProfile
  <2>4. (OnProfile /\ view # None => view.of = page.of /\ view.run.changes = seen)'
    BY <1>4 DEF ProfileInv, InOrder
  <2>5. ASSUME NEW g \in flights', Tells(g)'
        PROVE  g.result.changes <= runs'[g.of].changes /\ (OnProfile' /\ Mine(g)' => seen' <= g.result.changes)
    <3>1. CASE g \in flights
      <4>1. g.of \in Profiled /\ g.result \in RunState /\ g.result.changes \in Nat
        BY <1>1, <2>5, <3>1 DEF Tells, ProfileRequest, RunState
      <4>2. g.result.changes <= runs[g.of].changes /\ (OnProfile /\ Mine(g) => seen <= g.result.changes)
        BY <2>5, <3>1 DEF ProfileInv, InOrder, Tells
      <4> QED BY <1>4, <2>1, <4>1, <4>2
    <3>2. CASE g = h
      <4>1. h.result = runs'[h.of]
        BY <1>2, <2>5, <3>2 DEF Tells
      <4>2. Mine(h) => h.of = page.of
        BY DEF Mine
      <4> QED BY <1>1, <1>2, <1>4, <2>1, <2>3, <3>2, <4>1, <4>2 DEF Mine
    <3> QED BY <1>3, <2>5, <3>1, <3>2
  <2> QED BY <2>3, <2>4, <2>5 DEF InOrder
<1>7. \A g : ActionAsked(g)' <=> ActionAsked(g)
  BY <1>4 DEF ActionAsked
<1>8. ActionAsked(h) <=> ActionAsked(f)
  BY <1>2 DEF ActionAsked, Mine
<1>9. OneAtATime'
  <2>1. \A g1, g2 \in flights' : g1.kind = "profile" /\ g2.kind = "profile" => g1 = g2
    BY <1>2, <1>3 DEF ProfileInv, OneAtATime
  <2>2. OnProfile => /\ \A g1, g2 \in flights' : ActionAsked(g1) /\ ActionAsked(g2) => g1 = g2
                     /\ working <=> \E g \in flights' : ActionAsked(g)
    BY <1>3, <1>8 DEF ProfileInv, OneAtATime
  <2> QED BY <1>4, <1>7, <2>1, <2>2 DEF OneAtATime
<1>10. StatusComes'
  BY <1>2, <1>3, <1>4 DEF ProfileInv, StatusComes, Mine
<1> QED BY <1>5, <1>6, <1>9, <1>10 DEF ProfileInv

LEMMA RunsChange ==
  ASSUME ProfileInv, NEW m \in Profiled, NEW state \in {"none", "active", "stopping"}, Changes(m, state)
  PROVE  /\ runs' \in [Profiled -> RunState] /\ \A n \in Profiled : runs[n].changes <= runs'[n].changes
<1>1. runs \in [Profiled -> RunState] /\ runs[m].changes \in Nat
  BY DEF ProfileInv, ProfileTypes, RunState
<1>2. [state |-> state, changes |-> runs[m].changes + 1] \in RunState
  BY <1>1 DEF RunState
<1>3. runs' = [runs EXCEPT ![m] = [state |-> state, changes |-> runs[m].changes + 1]]
  BY DEF Changes
<1>4. \A n \in Profiled : runs[n].changes \in Nat
  BY <1>1 DEF RunState
<1> QED BY <1>1, <1>2, <1>3, <1>4

LEMMA ProfileServerKeeps ==
  ASSUME ProfileInv, \/ \E m \in Profiled : OthersStart(m) \/ RunEnds(m)
                     \/ \E f \in flights : ServeProfile(f) \/ ServeRun(f)
  PROVE  ProfileInv'
<1>0. runs \in [Profiled -> RunState] /\ flights \subseteq ProfileRequest /\ \A n \in Profiled : runs[n].changes \in Nat
  BY DEF ProfileInv, ProfileTypes, RunState
<1>1. ASSUME NEW m \in Profiled, NEW state \in {"none", "active"}, Changes(m, state),
             UNCHANGED <<browserVars, view, seen, working, loading, failing, waiting>>
      PROVE  ProfileInv'
  <2>1. /\ runs' \in [Profiled -> RunState] /\ \A n \in Profiled : runs[n].changes <= runs'[n].changes
        /\ \A n \in Profiled : runs'[n].changes \in Nat
    BY <1>1, RunsChange DEF RunState
  <2>2. UNCHANGED <<page, flights, acts, view, seen, working, waiting>>
    BY <1>1 DEF browserVars
  <2>3. ProfileTypes'
    BY <2>1, <2>2 DEF ProfileInv, ProfileTypes, OnProfile
  <2>4. InOrder'
    <3>1. OnProfile => page.of \in Profiled /\ seen \in Nat /\ seen <= runs[page.of].changes
      BY DEF ProfileInv, ProfileTypes, InOrder
    <3>2. ASSUME NEW g \in flights, Tells(g)
          PROVE  /\ g.result.changes <= runs'[g.of].changes
                 /\ OnProfile /\ Mine(g) => seen <= g.result.changes
      <4>1. g.of \in Profiled /\ g.result \in RunState /\ g.result.changes \in Nat
        BY <1>0, <3>2 DEF Tells, ProfileRequest, RunState
      <4> QED BY <1>0, <2>1, <3>2, <4>1 DEF ProfileInv, InOrder
    <3>3. OnProfile => seen <= runs'[page.of].changes
      BY <1>0, <2>1, <3>1
    <3> QED BY <2>2, <3>2, <3>3 DEF ProfileInv, InOrder, OnProfile, Mine, Tells
  <2>5. OneAtATime' /\ StatusComes'
    BY <2>2 DEF ProfileInv, OneAtATime, StatusComes, OnProfile, ActionAsked, Mine
  <2> QED BY <2>3, <2>4, <2>5 DEF ProfileInv
<1>2. ASSUME NEW f \in flights, ServeProfile(f) PROVE ProfileInv'
  <2>1. f.of \in Profiled /\ runs[f.of] \in RunState
    BY <1>0 DEF ProfileRequest
  <2>2. flights' = Answered(f, runs[f.of]) /\ runs' = runs
        /\ UNCHANGED <<page, acts, view, seen, working, loading, failing, waiting>>
    BY <1>2 DEF ServeProfile, profileVars
  <2> QED BY <1>0, <2>1, <2>2, ProfileServed
<1>3. ASSUME NEW f \in flights, ServeRun(f) PROVE ProfileInv'
  <2>1. f.of \in Profiled /\ f.kind # "profile"
    BY <1>0, <1>3 DEF ProfileRequest, ServeRun, Sent
  <2>2. CASE flights' = Answered(f, None) /\ UNCHANGED runs
    BY <1>0, <1>3, <2>1, <2>2, ProfileServed DEF ServeRun
  <2>3. CASE \E to \in {"active", "stopping"} : Changes(f.of, to) /\ flights' = Answered(f, runs'[f.of])
    <3>1. /\ runs' \in [Profiled -> RunState] /\ \A n \in Profiled : runs[n].changes <= runs'[n].changes
      BY <2>1, <2>3, RunsChange
    <3> QED BY <1>3, <2>1, <2>3, <3>1, ProfileServed DEF ServeRun
  <2> QED BY <1>3, <2>2, <2>3 DEF ServeRun
<1>4. ASSUME NEW m \in Profiled, OthersStart(m) \/ RunEnds(m) PROVE ProfileInv'
  BY <1>1, <1>4 DEF OthersStart, RunEnds
<1> QED BY <1>2, <1>3, <1>4

(* The requests after the page has asked for the status.                     *)
LEMMA StatusIsAsked ==
  ASSUME NEW open, open \subseteq ProfileRequest, page'.of \in Profiled, page'.no \in Nat
  PROVE  LET r == Request("profile", page'.of, page'.no)
         IN /\ r \in ProfileRequest /\ r \in StatusAsked(open) /\ StatusAsked(open) \subseteq ProfileRequest
            /\ r.of = page'.of /\ r.arg = page'.no /\ r.kind = "profile" /\ r.state = "sent"
            /\ \A f \in StatusAsked(open) : f = r \/ (f \in open /\ f.kind # "profile")
            /\ \A f \in open : f.kind # "profile" => f \in StatusAsked(open)
<1> DEFINE r == Request("profile", page'.of, page'.no)
<1>1. /\ r \in ProfileRequest /\ r.of = page'.of /\ r.arg = page'.no /\ r.kind = "profile" /\ r.state = "sent"
  <2>1. None \in RunState \cup {None}
    OBVIOUS
  <2> QED BY <2>1 DEF Request, ProfileRequest
<1>2. StatusAsked(open) = (open \ {f \in open : f.kind = "profile"}) \cup {r}
  BY DEF StatusAsked, Superseded
<1> HIDE DEF r
<1>3. /\ r \in StatusAsked(open) /\ StatusAsked(open) \subseteq ProfileRequest
      /\ \A f \in StatusAsked(open) : f = r \/ (f \in open /\ f.kind # "profile")
      /\ \A f \in open : f.kind # "profile" => f \in StatusAsked(open)
  BY <1>1, <1>2
<1> QED BY <1>1, <1>3 DEF r

LEMMA OpenProfileKeeps ==
  ASSUME ProfileInv, NEW m \in Profiled, OpenProfile(m)
  PROVE  ProfileInv'
<1>1. /\ acts \in Nat /\ page.no \in Nat /\ page.no <= acts /\ runs \in [Profiled -> RunState]
      /\ flights \subseteq ProfileRequest /\ \A f \in flights : f.arg <= page.no /\ f.arg \in Nat
  BY DEF ProfileInv, ProfileTypes, ProfileRequest
<1>2. /\ page' = [at |-> "profile", of |-> m, no |-> acts + 1] /\ acts' = acts + 1
      /\ flights' = StatusAsked(flights) /\ view' = None /\ seen' = 0 /\ runs' = runs
      /\ working' = FALSE /\ waiting' = FALSE
  BY DEF OpenProfile, Route, Act
<1>3. page'.of = m /\ page'.no = acts + 1 /\ OnProfile'
  BY <1>2 DEF OnProfile
<1>4. PICK r :
      /\ r \in ProfileRequest /\ r \in flights' /\ flights' \subseteq ProfileRequest
      /\ r.of = page'.of /\ r.arg = page'.no /\ r.kind = "profile" /\ r.state = "sent"
      /\ \A f \in flights' : f = r \/ (f \in flights /\ f.kind # "profile")
  BY <1>1, <1>2, <1>3, StatusIsAsked
<1>5. Mine(r)' /\ \A f \in flights' : Mine(f)' => f = r
  BY <1>1, <1>3, <1>4 DEF Mine
<1>6. ProfileTypes'
  <2>1. working' \in BOOLEAN /\ waiting' \in BOOLEAN
    BY <1>1, <1>2, <1>3, <1>4 DEF ProfileInv, ProfileTypes
  <2>2. /\ acts' \in Nat /\ page'.no \in Nat /\ page'.no <= acts' /\ (OnProfile' => page'.of \in Profiled)
        /\ runs' \in [Profiled -> RunState] /\ seen' \in Nat
    BY <1>1, <1>2, <1>3, <1>4 DEF ProfileInv, ProfileTypes
  <2>3. flights' \subseteq ProfileRequest /\ \A g \in flights' : g.arg <= page'.no
    BY <1>1, <1>2, <1>3, <1>4 DEF ProfileInv, ProfileTypes
  <2> QED BY <2>1, <2>2, <2>3 DEF ProfileTypes
<1>7. InOrder'
  <2>1. (OnProfile => seen <= runs[page.of].changes)'
    BY <1>1, <1>2, <1>3 DEF RunState
  <2>2. ASSUME NEW f \in flights', Tells(f)'
        PROVE  f.result.changes <= runs'[f.of].changes /\ ~Mine(f)'
    BY <1>2, <1>4, <1>5, <2>2 DEF Tells, ProfileInv, InOrder
  <2> QED BY <1>2, <2>1, <2>2 DEF InOrder
<1>8. OneAtATime'
  <2>1. \A f \in flights' : ~ActionAsked(f)'
    BY <1>4, <1>5 DEF ActionAsked
  <2> QED BY <1>2, <1>4, <2>1 DEF OneAtATime
<1>9. StatusComes'
  BY <1>3, <1>4, <1>5 DEF StatusComes
<1> QED BY <1>6, <1>7, <1>8, <1>9 DEF ProfileInv

LEMMA LeaveProfileKeeps == ProfileInv /\ LeaveProfile => ProfileInv'
<1> SUFFICES ASSUME ProfileInv, LeaveProfile PROVE ProfileInv'
  OBVIOUS
<1>1. /\ page' = [at |-> "list", of |-> None, no |-> acts + 1] /\ acts' = acts + 1 /\ waiting' = FALSE
      /\ UNCHANGED <<flights, runs, view, seen, working>>
  BY DEF LeaveProfile, Route, Act
<1>2. ~OnProfile' /\ page'.no = acts + 1
  BY <1>1 DEF OnProfile
<1>3. \A f \in flights : f.arg \in Nat
  BY DEF ProfileInv, ProfileTypes, ProfileRequest
<1>4. ProfileTypes'
  <2>1. working' \in BOOLEAN /\ waiting' \in BOOLEAN
    BY <1>1, <1>2, <1>3 DEF ProfileInv, ProfileTypes
  <2>2. /\ acts' \in Nat /\ page'.no \in Nat /\ page'.no <= acts' /\ (OnProfile' => page'.of \in Profiled)
        /\ runs' \in [Profiled -> RunState] /\ seen' \in Nat
    BY <1>1, <1>2, <1>3 DEF ProfileInv, ProfileTypes
  <2>3. flights' \subseteq ProfileRequest /\ \A g \in flights' : g.arg <= page'.no
    BY <1>1, <1>2, <1>3 DEF ProfileInv, ProfileTypes
  <2> QED BY <2>1, <2>2, <2>3 DEF ProfileTypes
<1> QED BY <1>1, <1>2, <1>4 DEF ProfileInv, InOrder, OneAtATime, StatusComes, Tells

(* The page asks for a run to be started or stopped.                         *)
LEMMA ActingKeeps ==
  ASSUME ProfileInv, OnProfile, ~working, NEW kind \in {"startRun", "stopRun"}, Acting(kind)
  PROVE  ProfileInv'
<1>1. /\ acts \in Nat /\ page.no \in Nat /\ page.no <= acts /\ page.of \in Profiled /\ flights \subseteq ProfileRequest
  BY DEF ProfileInv, ProfileTypes
<1>2. PICK r : /\ r \in ProfileRequest /\ r.of = page.of /\ r.arg = page.no /\ r.kind = kind /\ r.state = "sent"
               /\ r = Request(kind, page.of, page.no)
  <2>1. None \in RunState \cup {None}
    OBVIOUS
  <2> QED BY <1>1, <2>1 DEF Request, ProfileRequest
<1>3. /\ flights' = (flights \ {f \in flights : f.kind = "profile"}) \cup {r} /\ working' = TRUE /\ waiting' = FALSE
      /\ acts' = acts + 1 /\ UNCHANGED <<page, runs, view, seen>>
  BY <1>2 DEF Acting, Act, Superseded
<1>4. Mine(r)' /\ ActionAsked(r)' /\ (\A f \in flights : ~ActionAsked(f)') /\ OnProfile'
  BY <1>2, <1>3 DEF ProfileInv, OneAtATime, ActionAsked, Mine, OnProfile
<1>5. ProfileTypes'
  <2>1. working' \in BOOLEAN /\ waiting' \in BOOLEAN
    BY <1>1, <1>2, <1>3 DEF ProfileInv, ProfileTypes, OnProfile
  <2>2. /\ acts' \in Nat /\ page'.no \in Nat /\ page'.no <= acts' /\ (OnProfile' => page'.of \in Profiled)
        /\ runs' \in [Profiled -> RunState] /\ seen' \in Nat
    BY <1>1, <1>2, <1>3 DEF ProfileInv, ProfileTypes, OnProfile
  <2>3. flights' \subseteq ProfileRequest /\ \A g \in flights' : g.arg <= page'.no
    BY <1>1, <1>2, <1>3 DEF ProfileInv, ProfileTypes, OnProfile
  <2> QED BY <2>1, <2>2, <2>3 DEF ProfileTypes
<1>6. InOrder'
  <2>1. \A f \in flights' : Tells(f)' => f \in flights /\ Tells(f)
    BY <1>2, <1>3 DEF Tells
  <2> QED BY <1>3, <2>1 DEF ProfileInv, InOrder, OnProfile, Mine
<1>7. OneAtATime'
  BY <1>2, <1>3, <1>4 DEF OneAtATime
<1>8. StatusComes'
  BY <1>3, <1>4 DEF StatusComes
<1> QED BY <1>5, <1>6, <1>7, <1>8 DEF ProfileInv

LEMMA RunAnsweredKeeps ==
  ASSUME ProfileInv, NEW f \in flights, RunAnswered(f)
  PROVE  ProfileInv'
<1>1. /\ acts \in Nat /\ page.no \in Nat /\ page.no <= acts /\ flights \subseteq ProfileRequest /\ f \in ProfileRequest
      /\ runs \in [Profiled -> RunState] /\ seen \in Nat /\ f.of \in Profiled
      /\ \A g \in flights : g.arg <= page.no
  BY DEF ProfileInv, ProfileTypes, ProfileRequest
<1>2. /\ page' = page /\ runs' = runs /\ waiting' = waiting /\ f.kind \in {"startRun", "stopRun"}
      /\ acts' \in Nat /\ acts <= acts'
  BY <1>1 DEF RunAnswered
<1>3. \A g : (Mine(g)' <=> Mine(g)) /\ (ActionAsked(g)' <=> ActionAsked(g)) /\ (Tells(g)' <=> Tells(g))
  BY <1>2 DEF Mine, ActionAsked, Tells
<1>4. OnProfile' <=> OnProfile
  BY <1>2 DEF OnProfile
<1>5. CASE OnProfile /\ Mine(f)
  <2>1. /\ flights' = StatusAsked(flights \ {f}) /\ working' = FALSE
        /\ view' = IF f.result = None THEN view ELSE Shown(f.of, f.result)
        /\ IF f.result = None THEN UNCHANGED seen ELSE Told(f.result.changes)
    BY <1>5 DEF RunAnswered
  <2>2. page.of \in Profiled /\ page.of = f.of
    BY <1>5 DEF ProfileInv, ProfileTypes, Mine
  <2>3. PICK r :
        /\ r \in ProfileRequest /\ r \in flights' /\ flights' \subseteq ProfileRequest
        /\ r.of = page'.of /\ r.arg = page'.no /\ r.kind = "profile" /\ r.state = "sent"
        /\ \A g \in flights' : g = r \/ (g \in flights \ {f} /\ g.kind # "profile")
        /\ \A g \in flights \ {f} : g.kind # "profile" => g \in flights'
    <3>1. flights \ {f} \subseteq ProfileRequest
      BY <1>1
    <3> QED BY <1>1, <1>2, <2>1, <2>2, <3>1, StatusIsAsked
  <2>4. \A g \in flights' : ~ActionAsked(g)
    BY <1>2, <1>5, <2>3 DEF ProfileInv, OneAtATime, ActionAsked
  <2>5. seen' \in Nat /\ seen <= seen' /\ seen' <= runs[page.of].changes
        /\ (view' # None => view'.of = page.of /\ view'.run.changes = seen')
    <3>1. CASE f.result = None
      BY <1>1, <1>5, <2>1, <3>1 DEF ProfileInv, InOrder
    <3>2. CASE f.result # None
      <4>1. f.result \in RunState /\ f.result.changes \in Nat
        BY <1>1, <3>2 DEF ProfileRequest, RunState
      <4>2. CASE f.state = "ok"
        <5>1. f.result.changes <= runs[f.of].changes /\ seen <= f.result.changes
          BY <1>5, <3>2, <4>2 DEF ProfileInv, InOrder, Tells
        <5>2. seen' = f.result.changes
          BY <1>1, <2>1, <3>2, <4>1, <5>1 DEF Told
        <5>3. view'.of = f.of /\ view'.run = f.result
          BY <2>1, <3>2 DEF Shown
        <5> QED BY <1>1, <2>2, <4>1, <5>1, <5>2, <5>3
      <4>3. f.state = "ok"
        BY <1>1, <3>2 DEF ProfileRequest
      <4> QED BY <4>2, <4>3
    <3> QED BY <3>1, <3>2
  <2>6. ProfileTypes'
    <3>1. working' \in BOOLEAN /\ waiting' \in BOOLEAN
      BY <1>1, <1>2, <1>4, <2>2, <2>3, <2>1, <2>5 DEF ProfileInv, ProfileTypes
    <3>2. /\ acts' \in Nat /\ page'.no \in Nat /\ page'.no <= acts' /\ (OnProfile' => page'.of \in Profiled)
          /\ runs' \in [Profiled -> RunState] /\ seen' \in Nat
      BY <1>1, <1>2, <1>4, <2>2, <2>3, <2>1, <2>5 DEF ProfileInv, ProfileTypes
    <3>3. flights' \subseteq ProfileRequest /\ \A g \in flights' : g.arg <= page'.no
      BY <1>1, <1>2, <1>4, <2>2, <2>3, <2>1, <2>5 DEF ProfileInv, ProfileTypes
    <3> QED BY <3>1, <3>2, <3>3 DEF ProfileTypes
  <2>7. InOrder'
    <3>1. ASSUME NEW g \in flights', Tells(g) PROVE g \in flights /\ ~Mine(g)
      <4>1. g \in flights /\ g.kind \in {"startRun", "stopRun"}
        BY <1>1, <2>3, <3>1 DEF Tells, ProfileRequest
      <4> QED BY <2>4, <4>1 DEF ActionAsked
    <3> QED BY <1>2, <1>3, <1>4, <2>5, <3>1 DEF ProfileInv, InOrder
  <2>8. OneAtATime'
    BY <1>2, <1>3, <1>4, <2>1, <2>3, <2>4 DEF OneAtATime
  <2>9. StatusComes'
    <3>1. Mine(r)'
      BY <1>2, <2>3 DEF Mine
    <3> QED BY <1>4, <1>5, <2>3, <3>1 DEF StatusComes
  <2> QED BY <2>6, <2>7, <2>8, <2>9 DEF ProfileInv
<1>6. CASE ~(OnProfile /\ Mine(f))
  <2>1. flights' = flights \ {f} /\ UNCHANGED <<view, seen, working>>
    BY <1>6 DEF RunAnswered, Without
  <2>2. ProfileTypes'
    BY <1>1, <1>2, <1>4, <2>1 DEF ProfileInv, ProfileTypes
  <2>3. InOrder'
    BY <1>2, <1>3, <1>4, <2>1 DEF ProfileInv, InOrder
  <2>4. OneAtATime' /\ StatusComes'
    BY <1>2, <1>3, <1>4, <1>6, <2>1 DEF ProfileInv, OneAtATime, StatusComes, ActionAsked
  <2> QED BY <2>2, <2>3, <2>4 DEF ProfileInv
<1> QED BY <1>5, <1>6

(* A status is told, or could not be.                                        *)
LEMMA StatusKeeps ==
  ASSUME ProfileInv, NEW f \in flights, ProfileAnswered(f) \/ StatusFails(f)
  PROVE  ProfileInv'
<1>1. /\ acts \in Nat /\ page.no \in Nat /\ page.no <= acts /\ flights \subseteq ProfileRequest /\ f \in ProfileRequest
      /\ runs \in [Profiled -> RunState] /\ seen \in Nat /\ f.of \in Profiled
      /\ \A g \in flights : g.arg <= page.no
  BY DEF ProfileInv, ProfileTypes, ProfileRequest
<1>2. /\ UNCHANGED <<page, runs, working>> /\ flights' = flights \ {f} /\ f.kind = "profile"
      /\ acts' \in Nat /\ acts <= acts'
  BY <1>1 DEF ProfileAnswered, StatusFails, Act, Without, Answers
<1>3. \A g : (Mine(g)' <=> Mine(g)) /\ (ActionAsked(g)' <=> ActionAsked(g)) /\ (Tells(g)' <=> Tells(g))
  BY <1>2 DEF Mine, ActionAsked, Tells
<1>4. OnProfile' <=> OnProfile
  BY <1>2 DEF OnProfile
<1>5. \/ OnProfile /\ Mine(f) /\ ~working /\ waiting' = TRUE
      \/ ~(OnProfile /\ Mine(f) /\ ~working) /\ waiting' = waiting
  BY DEF ProfileAnswered, StatusFails
<1>6. /\ seen' \in Nat /\ (OnProfile => seen' <= runs[page.of].changes)
      /\ (OnProfile /\ view' # None => view'.of = page.of /\ view'.run.changes = seen')
      /\ seen' # seen => OnProfile /\ Mine(f)
  <2>1. CASE UNCHANGED <<view, seen>>
    BY <1>1, <2>1 DEF ProfileInv, InOrder
  <2>2. CASE OnProfile /\ Mine(f) /\ Tells(f) /\ view' = Shown(f.of, f.result) /\ Told(f.result.changes)
    <3>1. f.result \in RunState /\ f.result.changes \in Nat
      BY <1>1, <1>2, <2>2 DEF ProfileRequest, RunState, Tells
    <3>2. f.result.changes <= runs[f.of].changes /\ seen <= f.result.changes /\ f.of = page.of
      BY <2>2 DEF ProfileInv, InOrder, Mine
    <3>3. seen' = f.result.changes
      BY <1>1, <2>2, <3>1, <3>2 DEF Told
    <3>4. view'.of = f.of /\ view'.run = f.result
      BY <2>2 DEF Shown
    <3> QED BY <2>2, <3>1, <3>2, <3>3, <3>4
  <2> QED BY <1>2, <2>1, <2>2 DEF ProfileAnswered, StatusFails, Answers, Tells
<1>7. ProfileTypes'
  <2>1. working' \in BOOLEAN /\ waiting' \in BOOLEAN
    BY <1>1, <1>2, <1>4, <1>5, <1>6 DEF ProfileInv, ProfileTypes
  <2>2. /\ acts' \in Nat /\ page'.no \in Nat /\ page'.no <= acts' /\ (OnProfile' => page'.of \in Profiled)
        /\ runs' \in [Profiled -> RunState] /\ seen' \in Nat
    BY <1>1, <1>2, <1>4, <1>5, <1>6 DEF ProfileInv, ProfileTypes
  <2>3. flights' \subseteq ProfileRequest /\ \A g \in flights' : g.arg <= page'.no
    BY <1>1, <1>2, <1>4, <1>5, <1>6 DEF ProfileInv, ProfileTypes
  <2> QED BY <2>1, <2>2, <2>3 DEF ProfileTypes
<1>8. InOrder'
  <2>1. ASSUME NEW g \in flights', Tells(g), OnProfile, Mine(g) PROVE seen' = seen
    <3>1. g.kind \in {"startRun", "stopRun"}
      BY <1>1, <1>2, <2>1 DEF ProfileInv, OneAtATime, ProfileRequest
    <3>2. working
      BY <1>2, <2>1, <3>1 DEF ProfileInv, OneAtATime, ActionAsked
    <3> QED BY <2>1, <3>2 DEF ProfileAnswered, StatusFails
  <2> QED BY <1>2, <1>3, <1>4, <1>6, <2>1 DEF ProfileInv, InOrder
<1>9. OneAtATime'
  BY <1>2, <1>3, <1>4 DEF ProfileInv, OneAtATime, ActionAsked
<1>10. StatusComes'
  <2>1. CASE OnProfile /\ working
    <3>1. PICK g \in flights : ActionAsked(g)
      BY <2>1 DEF ProfileInv, OneAtATime
    <3>2. g \in flights' /\ Mine(g)'
      BY <1>2, <1>3, <3>1 DEF ActionAsked
    <3> QED BY <1>4, <2>1, <3>2 DEF StatusComes
  <2>2. CASE ~(OnProfile /\ working)
    BY <1>2, <1>3, <1>4, <1>5, <2>2 DEF ProfileInv, StatusComes
  <2> QED BY <2>1, <2>2
<1> QED BY <1>7, <1>8, <1>9, <1>10 DEF ProfileInv

LEMMA AskAgainKeeps == ProfileInv /\ AskAgain => ProfileInv'
<1> SUFFICES ASSUME ProfileInv, AskAgain PROVE ProfileInv'
  OBVIOUS
<1>1. /\ acts \in Nat /\ page.no \in Nat /\ page.no <= acts /\ flights \subseteq ProfileRequest
      /\ OnProfile /\ page.of \in Profiled /\ \A g \in flights : g.arg <= page.no
  BY DEF ProfileInv, ProfileTypes, StatusComes, AskAgain
<1>2. /\ UNCHANGED <<page, acts, runs, view, seen, working>> /\ flights' = StatusAsked(flights) /\ waiting' = FALSE
  BY DEF AskAgain
<1>3. PICK r :
      /\ r \in ProfileRequest /\ r \in flights' /\ flights' \subseteq ProfileRequest
      /\ r.of = page'.of /\ r.arg = page'.no /\ r.kind = "profile" /\ r.state = "sent"
      /\ \A g \in flights' : g = r \/ (g \in flights /\ g.kind # "profile")
      /\ \A g \in flights : g.kind # "profile" => g \in flights'
  BY <1>1, <1>2, StatusIsAsked
<1>4. \A g : (Mine(g)' <=> Mine(g)) /\ (ActionAsked(g)' <=> ActionAsked(g)) /\ (Tells(g)' <=> Tells(g))
  BY <1>2 DEF Mine, ActionAsked, Tells
<1>5. OnProfile'
  BY <1>1, <1>2 DEF OnProfile
<1>6. ProfileTypes'
  <2>1. working' \in BOOLEAN /\ waiting' \in BOOLEAN
    BY <1>1, <1>2, <1>3 DEF ProfileInv, ProfileTypes, OnProfile
  <2>2. /\ acts' \in Nat /\ page'.no \in Nat /\ page'.no <= acts' /\ (OnProfile' => page'.of \in Profiled)
        /\ runs' \in [Profiled -> RunState] /\ seen' \in Nat
    BY <1>1, <1>2, <1>3 DEF ProfileInv, ProfileTypes, OnProfile
  <2>3. flights' \subseteq ProfileRequest /\ \A g \in flights' : g.arg <= page'.no
    BY <1>1, <1>2, <1>3 DEF ProfileInv, ProfileTypes, OnProfile
  <2> QED BY <2>1, <2>2, <2>3 DEF ProfileTypes
<1>7. InOrder'
  <2>1. \A g \in flights' : Tells(g) => g \in flights
    BY <1>3 DEF Tells
  <2> QED BY <1>1, <1>2, <1>4, <2>1 DEF ProfileInv, InOrder
<1>8. OneAtATime'
  <2>1. \A g \in flights' : ActionAsked(g) => g \in flights
    BY <1>3 DEF ActionAsked
  <2>2. \A g \in flights : ActionAsked(g) => g \in flights'
    BY <1>3 DEF ActionAsked
  <2>3. \A g1, g2 \in flights' : g1.kind = "profile" /\ g2.kind = "profile" => g1 = g2
    BY <1>3
  <2>4. /\ \A g1, g2 \in flights' : ActionAsked(g1) /\ ActionAsked(g2) => g1 = g2
        /\ working <=> \E g \in flights' : ActionAsked(g)
    BY <1>1, <2>1, <2>2 DEF ProfileInv, OneAtATime
  <2> QED BY <1>2, <1>4, <2>3, <2>4 DEF OneAtATime
<1>9. StatusComes'
  BY <1>2, <1>3, <1>5 DEF StatusComes, Mine
<1> QED BY <1>6, <1>7, <1>8, <1>9 DEF ProfileInv

LEMMA ProfileStarts == ProfileInit => ProfileInv
<1> SUFFICES ASSUME ProfileInit PROVE ProfileInv
  OBVIOUS
<1>1. flights = {} /\ acts = 0 /\ page.no = 0 /\ ~OnProfile /\ ~working /\ ~waiting
  BY DEF ProfileInit, OnProfile
<1>2. runs \in [Profiled -> RunState] /\ seen \in Nat
  BY DEF ProfileInit, RunState
<1>3. working \in BOOLEAN /\ waiting \in BOOLEAN
  BY DEF ProfileInit
<1>4. flights \subseteq ProfileRequest
  BY <1>1
<1>5. ProfileTypes
  BY <1>1, <1>2, <1>3, <1>4 DEF ProfileTypes
<1> QED BY <1>1, <1>5 DEF ProfileInv, InOrder, OneAtATime, StatusComes

LEMMA ProfileStep == ProfileInv /\ (ProfileNext \/ UNCHANGED <<browserVars, profileVars>>) => ProfileInv'
<1> SUFFICES ASSUME ProfileInv, ProfileNext \/ UNCHANGED <<browserVars, profileVars>> PROVE ProfileInv'
  OBVIOUS
<1>1. CASE \/ \E m \in Profiled : OthersStart(m) \/ RunEnds(m)
           \/ \E f \in flights : ServeProfile(f) \/ ServeRun(f)
  BY <1>1, ProfileServerKeeps
<1>2. CASE \E m \in Profiled : OpenProfile(m)
  BY <1>2, OpenProfileKeeps
<1>3. CASE LeaveProfile
  BY <1>3, LeaveProfileKeeps
<1>4. CASE RunProfiler
  BY <1>4, ActingKeeps DEF RunProfiler
<1>5. CASE StopProfiler
  BY <1>5, ActingKeeps DEF StopProfiler
<1>6. CASE \E f \in flights : RunAnswered(f)
  BY <1>6, RunAnsweredKeeps
<1>7. CASE \E f \in flights : ProfileAnswered(f) \/ StatusFails(f)
  BY <1>7, StatusKeeps
<1>8. CASE AskAgain
  BY <1>8, AskAgainKeeps
<1>9. CASE UNCHANGED <<browserVars, profileVars>>
  BY <1>9 DEF browserVars, profileVars, ProfileInv, ProfileTypes, InOrder, OneAtATime, StatusComes, OnProfile,
              ActionAsked, Mine, Tells
<1> QED BY <1>1, <1>2, <1>3, <1>4, <1>5, <1>6, <1>7, <1>8, <1>9 DEF ProfileNext

LEMMA StatusRuns == ProfileInv => (OnProfile => waiting \/ \E f \in flights : f.heard /\ Mine(f))
BY DEF ProfileInv, ProfileTypes, ProfileRequest, StatusComes

-----------------------------------------------------------------------------
(* The Development page: what will set its interval, if that is not set.     *)

PendingOne == \E w \in Spaces : items[w] = "pending"
Unframed == selected \in Spaces /\ items[selected] = "ready" /\ frame = None

(* A flow at whose end the interval is set anew.                             *)
Renews(f) == \/ f.kind = "embed"
             \/ f.kind = "refresh" /\ f.arg # "none"
             \/ f.kind = "select" /\ f.arg.next # "none"
Frames(f) == f.kind = "select" /\ f.of = selected

IntervalComes ==
  /\ PendingOne => interval \/ \E f \in flights : Renews(f)
  /\ Unframed => interval \/ \E f \in flights : Renews(f) \/ Frames(f)

(* The list and the selection are of workspaces that exist.                  *)
SelectionExists ==
  /\ \A w \in Spaces : items[w] # None => status[w] # "absent"
  /\ selected # None => selected \in Spaces /\ status[selected] # "absent"

FrameIsSelected == yanked \/ frame \in {None, selected}

WorkspaceTypes == /\ items \in [Spaces -> {None, "pending", "ready", "missing"}]
                  /\ status \in [Spaces -> {"absent", "pending", "ready", "missing"}]
WorkspaceInv == WorkspaceTypes /\ IntervalComes /\ SelectionExists /\ FrameIsSelected

LEMMA PolledOnes ==
  (Polled(items, selected, frame) # {}) => PendingOne \/ Unframed
BY SpacesAssumption DEF Polled, Listed, PendingOne, Unframed

LEMMA PollingUpdated ==
  ASSUME UpdatePolling, items' \in [Spaces -> {None, "pending", "ready", "missing"}]
  PROVE  IntervalComes'
<1>1. interval' = (Polled(items', selected', frame') # {})
  BY DEF UpdatePolling
<1>2. PendingOne' => Polled(items', selected', frame') # {}
  BY SpacesAssumption DEF PendingOne, Polled, Listed
<1>3. Unframed' => Polled(items', selected', frame') # {}
  BY SpacesAssumption DEF Unframed, Polled, Listed
<1> QED BY <1>1, <1>2, <1>3 DEF IntervalComes

(* The flow goes on, with a request that renews the interval or at once.     *)
LEMMA FlowContinues ==
  ASSUME NEW next, NEW rest, Continues(next, rest),
         flights' # rest => \E f \in flights' : Renews(f),
         items' \in [Spaces -> {None, "pending", "ready", "missing"}]
  PROVE  IntervalComes'
<1>1. CASE flights' = rest
  BY <1>1, PollingUpdated DEF Continues
<1>2. CASE flights' # rest
  <2>1. PICK f \in flights' : Renews(f)
    BY <1>2
  <2>2. Renews(f)'
    BY <2>1 DEF Renews
  <2> QED BY <2>1, <2>2 DEF IntervalComes
<1> QED BY <1>1, <1>2

(* What is selected when the selection is made sure of.                      *)
LEMMA Ensured ==
  ASSUME NEW it \in [Spaces -> {None, "pending", "ready", "missing"}], NEW sel, NEW fresh \in BOOLEAN,
         NEW next, next # "none", NEW rest, Ensuring(it, sel, fresh, next, rest)
  PROVE  /\ flights' # rest => \E f \in flights' : Renews(f)
         /\ selected' = None \/ (selected' \in Spaces /\ it[selected'] # None)
         /\ \/ frame' = None
            \/ fresh /\ UNCHANGED frame /\ (selected' = sel \/ sel \notin Spaces \/ it[sel] = None)
<1>1. CASE Listed(it) = {} /\ selected' = None /\ frame' = None /\ flights' = rest
  BY <1>1
<1>2. ASSUME NEW w \in (IF sel \in Listed(it) THEN {sel} ELSE Listed(it)),
             fresh /\ it[w] = "ready", selected' = w /\ UNCHANGED frame,
             flights' = rest \cup {Flow("refresh", w, next)}
      PROVE  /\ flights' # rest => \E f \in flights' : Renews(f)
             /\ selected' = None \/ (selected' \in Spaces /\ it[selected'] # None)
             /\ \/ frame' = None
                \/ fresh /\ UNCHANGED frame /\ (selected' = sel \/ sel \notin Spaces \/ it[sel] = None)
  <2>1. w \in Spaces /\ it[w] # None
    BY <1>2 DEF Listed
  <2>2. Renews(Flow("refresh", w, next))
    BY DEF Renews, Flow, Request
  <2>3. w = sel \/ sel \notin Spaces \/ it[sel] = None
    BY DEF Listed
  <2> QED BY <1>2, <2>1, <2>2, <2>3
<1>3. ASSUME NEW w \in (IF sel \in Listed(it) THEN {sel} ELSE Listed(it)), Selecting(w, it[w], next, rest)
      PROVE  /\ flights' # rest => \E f \in flights' : Renews(f)
             /\ selected' = None \/ (selected' \in Spaces /\ it[selected'] # None)
             /\ frame' = None
  <2>1. w \in Spaces /\ it[w] # None
    BY <1>3 DEF Listed
  <2>2. Renews(Flow("select", w, [seen |-> it[w], next |-> next]))
    BY DEF Renews, Flow, Request
  <2> QED BY <1>3, <2>1, <2>2 DEF Selecting
<1> QED BY <1>1, <1>2, <1>3 DEF Ensuring

LEMMA NewPageKeeps ==
  ASSUME NewPage, WorkspaceTypes, UNCHANGED status
  PROVE  WorkspaceInv'
<1>1. /\ items' = [w \in Spaces |-> None] /\ selected' = None /\ frame' = None
      /\ interval' = FALSE /\ yanked' = FALSE
  BY DEF NewPage
<1> QED BY <1>1, SpacesAssumption DEF WorkspaceInv, WorkspaceTypes, IntervalComes, SelectionExists, FrameIsSelected,
                                     PendingOne, Unframed

LEMMA SpacesLoadedKeeps ==
  ASSUME WorkspaceInv, NEW f \in flights, SpacesLoaded(f)
  PROVE  WorkspaceInv'
<1> DEFINE rest == flights \ {f}
<1>1. /\ items' = [w \in Spaces |-> IF status[w] = "absent" THEN None ELSE status[w]]
      /\ Ensuring(items', selected, TRUE, "load", rest) /\ Continues("load", rest)
      /\ UNCHANGED <<status, yanked>>
  BY DEF SpacesLoaded
<1> HIDE DEF rest
<1>2. WorkspaceTypes'
  BY <1>1 DEF WorkspaceInv, WorkspaceTypes
<1>3. PICK it \in [Spaces -> {None, "pending", "ready", "missing"}] : it = items'
  BY <1>2 DEF WorkspaceTypes
<1>4. /\ flights' # rest => \E g \in flights' : Renews(g)
      /\ selected' = None \/ (selected' \in Spaces /\ it[selected'] # None)
      /\ frame' = None \/ (UNCHANGED frame /\ (selected' = selected \/ selected \notin Spaces \/ it[selected] = None))
  BY <1>1, <1>3, Ensured
<1>5. IntervalComes'
  BY <1>1, <1>2, <1>4, FlowContinues DEF WorkspaceTypes
<1>6. \A w \in Spaces : it[w] # None <=> status[w] # "absent"
  BY <1>1, <1>3, SpacesAssumption DEF WorkspaceInv, WorkspaceTypes
<1>7. SelectionExists'
  BY <1>1, <1>3, <1>4, <1>6 DEF SelectionExists
<1>8. FrameIsSelected'
  BY <1>1, <1>4, <1>6 DEF WorkspaceInv, SelectionExists, FrameIsSelected
<1> QED BY <1>2, <1>5, <1>7, <1>8 DEF WorkspaceInv

LEMMA SpaceCreatedKeeps ==
  ASSUME WorkspaceInv, NEW f \in flights, f.of \in Spaces, SpaceCreated(f)
  PROVE  WorkspaceInv'
<1>1. /\ status' = [status EXCEPT ![f.of] = "pending"] /\ items' = [items EXCEPT ![f.of] = "pending"]
      /\ selected' = f.of /\ frame' = None /\ UpdatePolling /\ yanked' = yanked
  BY DEF SpaceCreated, Selecting
<1>2. WorkspaceTypes'
  BY <1>1 DEF WorkspaceInv, WorkspaceTypes
<1>3. IntervalComes'
  BY <1>1, <1>2, PollingUpdated DEF WorkspaceTypes
<1> QED BY <1>1, <1>2, <1>3 DEF WorkspaceInv, WorkspaceTypes, SelectionExists, FrameIsSelected

LEMMA SpaceDeletedKeeps ==
  ASSUME WorkspaceInv, NEW f \in flights, f.of \in Spaces, SpaceDeleted(f)
  PROVE  WorkspaceInv'
<1> DEFINE rest == flights \ {f}
<1>1. /\ status' = [status EXCEPT ![f.of] = "absent"] /\ items' = [items EXCEPT ![f.of] = None] /\ yanked' = yanked
      /\ IF selected = f.of
         THEN Ensuring(items', None, FALSE, "delete", rest) /\ Continues("delete", rest)
         ELSE flights' = rest /\ UNCHANGED <<selected, frame, polling>> /\ UpdatePolling
  BY DEF SpaceDeleted
<1> HIDE DEF rest
<1>2. WorkspaceTypes'
  BY <1>1 DEF WorkspaceInv, WorkspaceTypes
<1>3. \A w \in Spaces : items'[w] # None => status'[w] # "absent"
  BY <1>1, <1>2 DEF WorkspaceInv, WorkspaceTypes, SelectionExists
<1>4. CASE selected = f.of
  <2>1. PICK it \in [Spaces -> {None, "pending", "ready", "missing"}] : it = items'
    BY <1>2 DEF WorkspaceTypes
  <2>2. /\ flights' # rest => \E g \in flights' : Renews(g)
        /\ selected' = None \/ (selected' \in Spaces /\ it[selected'] # None)
        /\ frame' = None
    BY <1>1, <1>4, <2>1, Ensured
  <2>3. IntervalComes'
    BY <1>1, <1>2, <1>4, <2>2, FlowContinues DEF WorkspaceTypes
  <2> QED BY <1>2, <1>3, <2>1, <2>2, <2>3 DEF WorkspaceInv, SelectionExists, FrameIsSelected
<1>5. CASE selected # f.of
  <2>1. IntervalComes'
    BY <1>1, <1>2, <1>5, PollingUpdated DEF WorkspaceTypes
  <2> QED BY <1>1, <1>2, <1>3, <1>5, <2>1 DEF WorkspaceInv, WorkspaceTypes, SelectionExists, FrameIsSelected
<1> QED BY <1>4, <1>5

LEMMA PollAnswersKeeps ==
  ASSUME WorkspaceInv, NEW f \in flights, PollAnswers(f)
  PROVE  WorkspaceInv'
<1> DEFINE rest == flights \ {f}
<1>1. /\ items' = [w \in Spaces |-> IF w \in f.arg THEN status[w] ELSE items[w]]
      /\ Ensuring(items', selected, FALSE, "poll", rest) /\ Continues("poll", rest)
      /\ UNCHANGED <<status, yanked>> /\ \A w \in f.arg : status[w] # "absent"
  BY DEF PollAnswers
<1> HIDE DEF rest
<1>2. WorkspaceTypes'
  BY <1>1 DEF WorkspaceInv, WorkspaceTypes
<1>3. PICK it \in [Spaces -> {None, "pending", "ready", "missing"}] : it = items'
  BY <1>2 DEF WorkspaceTypes
<1>4. /\ flights' # rest => \E g \in flights' : Renews(g)
      /\ selected' = None \/ (selected' \in Spaces /\ it[selected'] # None)
      /\ frame' = None
  BY <1>1, <1>3, Ensured
<1>5. IntervalComes'
  BY <1>1, <1>2, <1>4, FlowContinues DEF WorkspaceTypes
<1>6. \A w \in Spaces : it[w] # None => status[w] # "absent"
  BY <1>1, <1>3 DEF WorkspaceInv, SelectionExists
<1> QED BY <1>1, <1>2, <1>3, <1>4, <1>5, <1>6 DEF WorkspaceInv, SelectionExists, FrameIsSelected

LEMMA RefreshingKeeps ==
  ASSUME WorkspaceInv, NEW f \in flights, f.of \in Spaces, Refreshing(f)
  PROVE  WorkspaceInv'
<1> DEFINE rest == flights \ {f}
           embed == Flow("embed", f.of, [seen |-> status[f.of], next |-> f.arg])
<1>1. /\ items' = [items EXCEPT ![f.of] = status[f.of]] /\ status[f.of] # "absent"
      /\ UNCHANGED <<selected, frame, status, yanked>>
      /\ flights' = IF selected = f.of THEN rest \cup {embed} ELSE rest
      /\ Continues(f.arg, rest)
  BY DEF Refreshing
<1>2. Renews(embed)
  BY DEF Renews, Flow, Request
<1> HIDE DEF rest, embed
<1>3. WorkspaceTypes'
  BY <1>1 DEF WorkspaceInv, WorkspaceTypes
<1>4. IntervalComes'
  BY <1>1, <1>2, <1>3, FlowContinues DEF WorkspaceTypes
<1> QED BY <1>1, <1>3, <1>4 DEF WorkspaceInv, WorkspaceTypes, SelectionExists, FrameIsSelected

(* Without a new selection, row or frame, and with the flows there still.    *)
LEMMA FlowsStay ==
  ASSUME WorkspaceInv, UNCHANGED <<items, selected, frame, status, yanked>>,
         \/ UpdatePolling
         \/ UNCHANGED interval /\ \A g \in flights : Renews(g) \/ Frames(g) => g \in flights'
  PROVE  WorkspaceInv'
<1>1. CASE UpdatePolling
  BY <1>1, PollingUpdated DEF WorkspaceInv, WorkspaceTypes, SelectionExists, FrameIsSelected
<1>2. CASE UNCHANGED interval /\ \A g \in flights : Renews(g) \/ Frames(g) => g \in flights'
  <2>1. IntervalComes'
    BY <1>2 DEF WorkspaceInv, IntervalComes, PendingOne, Unframed, Renews, Frames
  <2> QED BY <2>1 DEF WorkspaceInv, WorkspaceTypes, SelectionExists, FrameIsSelected
<1> QED BY <1>1, <1>2

LEMMA SelectedKeeps ==
  ASSUME WorkspaceInv, NEW f \in flights, f.of \in Spaces, Selected(f)
  PROVE  WorkspaceInv'
<1>1. /\ f.kind = "select" /\ frame' = (IF selected = f.of THEN f.of ELSE frame)
      /\ yanked' = (yanked /\ selected # f.of) /\ flights' = flights \ {f} /\ UNCHANGED <<status, items, selected>>
      /\ IF f.arg.next = "none" THEN UNCHANGED interval ELSE UpdatePolling
  BY DEF Selected, Without
<1>2. WorkspaceTypes' /\ SelectionExists' /\ FrameIsSelected'
  BY <1>1 DEF WorkspaceInv, WorkspaceTypes, SelectionExists, FrameIsSelected
<1>3. CASE f.arg.next # "none"
  BY <1>1, <1>2, <1>3, PollingUpdated DEF WorkspaceInv, WorkspaceTypes
<1>4. CASE f.arg.next = "none"
  <2>1. \A g : Renews(g)' <=> Renews(g)
    BY DEF Renews
  <2>2. ~Renews(f) /\ \A g : Frames(g)' <=> Frames(g)
    BY <1>1, <1>4 DEF Renews, Frames
  <2>3. PendingOne' => interval' \/ \E g \in flights' : Renews(g)'
    BY <1>1, <1>4, <2>1, <2>2 DEF WorkspaceInv, IntervalComes, PendingOne
  <2>4. Unframed' => selected # f.of /\ Unframed
    BY <1>1, SpacesAssumption DEF Unframed
  <2>5. Unframed' => interval' \/ \E g \in flights' : Renews(g)' \/ Frames(g)'
    BY <1>1, <1>4, <2>1, <2>2, <2>4 DEF WorkspaceInv, IntervalComes, Frames
  <2> QED BY <1>2, <2>3, <2>5 DEF WorkspaceInv, IntervalComes
<1> QED BY <1>3, <1>4

LEMMA SelectKeeps ==
  ASSUME WorkspaceInv, NEW w \in Spaces, Select(w)
  PROVE  WorkspaceInv'
<1>1. /\ items[w] # None /\ selected' = w /\ frame' = None /\ UNCHANGED <<status, items, interval, yanked>>
      /\ flights' = IF items[w] = "ready"
                    THEN flights \cup {Flow("select", w, [seen |-> items[w], next |-> "none"])} ELSE flights
  BY DEF Select, Selecting
<1>2. WorkspaceTypes' /\ SelectionExists' /\ FrameIsSelected'
  BY <1>1 DEF WorkspaceInv, WorkspaceTypes, SelectionExists, FrameIsSelected
<1>3. PendingOne' => interval' \/ \E g \in flights' : Renews(g)'
  BY <1>1 DEF WorkspaceInv, IntervalComes, PendingOne, Renews
<1>4. Unframed' => \E g \in flights' : Frames(g)'
  <2> DEFINE g == Flow("select", w, [seen |-> items[w], next |-> "none"])
  <2>1. g.kind = "select" /\ g.of = w
    BY DEF Flow, Request
  <2>2. Unframed' => g \in flights'
    BY <1>1 DEF Unframed
  <2> HIDE DEF g
  <2>3. PICK h : h = g
    OBVIOUS
  <2>4. Frames(h)'
    BY <1>1, <2>1, <2>3 DEF Frames
  <2> QED BY <2>2, <2>3, <2>4
<1> QED BY <1>2, <1>3, <1>4 DEF WorkspaceInv, IntervalComes

LEMMA EmbeddedKeeps ==
  ASSUME WorkspaceInv, NEW f \in flights, Embedded(f)
  PROVE  WorkspaceInv'
<1>1. /\ frame' = (IF f.arg.seen = "ready" THEN f.of ELSE None) /\ yanked' = (frame' # None /\ selected # f.of)
      /\ UNCHANGED <<status, items, selected>> /\ UpdatePolling
  BY DEF Embedded
<1>2. WorkspaceTypes' /\ SelectionExists' /\ FrameIsSelected'
  BY <1>1 DEF WorkspaceInv, WorkspaceTypes, SelectionExists, FrameIsSelected
<1> QED BY <1>1, <1>2, PollingUpdated DEF WorkspaceInv, WorkspaceTypes

LEMMA WorkspaceStarts == WorkspaceInit => WorkspaceInv
BY SpacesAssumption DEF WorkspaceInit, WorkspaceInv, WorkspaceTypes, IntervalComes, SelectionExists, FrameIsSelected,
                        PendingOne, Unframed

LEMMA WorkspaceUserKeeps ==
  ASSUME WorkspaceInv, WorkspaceUser
  PROVE  WorkspaceInv'
<1>1. CASE OpenDevelopment \/ LeaveDevelopment
  BY <1>1, NewPageKeeps DEF OpenDevelopment, LeaveDevelopment, WorkspaceInv
<1>2. CASE Tick
  <2>1. /\ UNCHANGED <<status, items, selected, frame, yanked>>
        /\ \/ Polled(items, selected, frame) = {} /\ interval' = FALSE
           \/ UNCHANGED interval /\ flights \subseteq flights'
    BY <1>2 DEF Tick, Merged
  <2>2. UpdatePolling \/ (UNCHANGED interval /\ flights \subseteq flights')
    BY <2>1 DEF UpdatePolling
  <2> QED BY <2>1, <2>2, FlowsStay
<1>3. ASSUME NEW w \in Spaces, CreateSpace(w) \/ Refresh(w) \/ DeleteSpace(w) PROVE WorkspaceInv'
  BY <1>3, FlowsStay DEF CreateSpace, Refresh, DeleteSpace, Merged, workspaceVars
<1>4. ASSUME NEW w \in Spaces, StatusChanges(w) PROVE WorkspaceInv'
  <2>1. /\ UNCHANGED <<flights, items, selected, frame, interval, yanked>> /\ status[w] # "absent"
        /\ \E s \in {"pending", "ready", "missing"} : status' = [status EXCEPT ![w] = s]
    BY <1>4 DEF StatusChanges
  <2>2. WorkspaceTypes' /\ SelectionExists'
    BY <2>1 DEF WorkspaceInv, WorkspaceTypes, SelectionExists
  <2>3. IntervalComes' /\ FrameIsSelected'
    BY <2>1 DEF WorkspaceInv, IntervalComes, FrameIsSelected, PendingOne, Unframed, Renews, Frames
  <2> QED BY <2>2, <2>3 DEF WorkspaceInv
<1> QED BY <1>1, <1>2, <1>3, <1>4, SelectKeeps DEF WorkspaceUser

LEMMA WorkspaceAnswersKeep ==
  ASSUME WorkspaceInv, NEW f \in flights, f.kind # "poll" /\ f.kind # "spaces" => f.of \in Spaces, WorkspaceAnswers(f)
  PROVE  WorkspaceInv'
<1>1. CASE SpacesLoaded(f)
  BY <1>1, SpacesLoadedKeeps
<1>2. CASE SpaceCreated(f)
  BY <1>2, SpaceCreatedKeeps DEF SpaceCreated
<1>3. CASE SpaceDeleted(f)
  BY <1>3, SpaceDeletedKeeps DEF SpaceDeleted
<1>4. CASE PollAnswers(f)
  BY <1>4, PollAnswersKeeps
<1>5. CASE PollFails(f)
  BY <1>5, FlowsStay DEF PollFails
<1>6. CASE Refreshing(f)
  BY <1>6, RefreshingKeeps DEF Refreshing
<1>7. CASE RefreshFails(f)
  <2>1. /\ UNCHANGED <<status, items, selected, frame, yanked>> /\ f.kind = "refresh" /\ flights' = flights \ {f}
        /\ IF f.arg = "none" THEN UNCHANGED interval ELSE UpdatePolling
    BY <1>7 DEF RefreshFails, Without
  <2>2. f.arg = "none" => ~Renews(f) /\ ~Frames(f)
    BY <2>1 DEF Renews, Frames
  <2> QED BY <2>1, <2>2, FlowsStay
<1>8. CASE Embedded(f)
  BY <1>8, EmbeddedKeeps
<1>9. CASE Selected(f)
  BY <1>9, SelectedKeeps DEF Selected
<1>10. CASE SpaceRequestFails(f)
  <2>1. /\ UNCHANGED <<status, items, selected, frame, interval, yanked>> /\ flights' = flights \ {f}
        /\ f.kind \in {"createSpace", "deleteSpace", "spaces"}
    BY <1>10 DEF SpaceRequestFails, Without, workspaceVars
  <2>2. ~Renews(f) /\ ~Frames(f)
    BY <2>1 DEF Renews, Frames
  <2> QED BY <2>1, <2>2, FlowsStay
<1> QED BY <1>1, <1>2, <1>3, <1>4, <1>5, <1>6, <1>7, <1>8, <1>9, <1>10 DEF WorkspaceAnswers

(* Every flow is of a workspace, but for those that ask for several.         *)
FlowsOfSpaces == \A f \in flights : f.of \in Spaces \/ f.kind \in {"poll", "spaces"}

LEMMA FlowOf == \A kind, w, arg : Flow(kind, w, arg).of = w /\ Flow(kind, w, arg).kind = kind
BY DEF Flow, Request

LEMMA SelectingFlows ==
  ASSUME NEW w \in Spaces, NEW state, NEW next, NEW rest, Selecting(w, state, next, rest)
  PROVE  \A f \in flights' : f \in rest \/ f.of \in Spaces
BY FlowOf DEF Selecting

LEMMA EnsuringFlows ==
  ASSUME NEW it, NEW sel, NEW fresh, NEW next, NEW rest, Ensuring(it, sel, fresh, next, rest)
  PROVE  \A f \in flights' : f \in rest \/ f.of \in Spaces
<1>1. ASSUME NEW w \in (IF sel \in Listed(it) THEN {sel} ELSE Listed(it))
      PROVE  w \in Spaces
  BY DEF Listed
<1> QED BY <1>1, SelectingFlows, FlowOf DEF Ensuring

LEMMA FlowsKept ==
  ASSUME FlowsOfSpaces, WorkspaceNext
  PROVE  FlowsOfSpaces'
<1>1. CASE OpenDevelopment \/ LeaveDevelopment
  <2>1. flights' \subseteq {Flow("spaces", None, None)}
    BY <1>1 DEF OpenDevelopment, LeaveDevelopment
  <2> QED BY <2>1, FlowOf DEF FlowsOfSpaces
<1>2. CASE Tick
  <2>1. flights' \subseteq flights \cup {Flow("poll", None, Polled(items, selected, frame))}
    BY <1>2 DEF Tick, Merged
  <2> QED BY <2>1, FlowOf DEF FlowsOfSpaces
<1>3. ASSUME NEW w \in Spaces, CreateSpace(w) \/ Refresh(w) \/ DeleteSpace(w) PROVE FlowsOfSpaces'
  <2>1. \E kind, arg : flights' = flights \cup {Flow(kind, w, arg)}
    BY <1>3 DEF CreateSpace, Refresh, DeleteSpace, Merged
  <2> QED BY <2>1, FlowOf DEF FlowsOfSpaces
<1>4. ASSUME NEW w \in Spaces, StatusChanges(w) PROVE FlowsOfSpaces'
  BY <1>4 DEF StatusChanges, FlowsOfSpaces
<1>5. ASSUME NEW w \in Spaces, Select(w) PROVE FlowsOfSpaces'
  BY <1>5, SelectingFlows DEF Select, FlowsOfSpaces
<1>6. ASSUME NEW f \in flights, SpacesLoaded(f) \/ PollAnswers(f) PROVE FlowsOfSpaces'
  <2>1. \E it, sel, fresh, next : Ensuring(it, sel, fresh, next, flights \ {f})
    BY <1>6 DEF SpacesLoaded, PollAnswers
  <2> QED BY <2>1, EnsuringFlows DEF FlowsOfSpaces
<1>7. ASSUME NEW f \in flights, SpaceCreated(f) PROVE FlowsOfSpaces'
  <2> DEFINE rest == (flights \ {f}) \cup (IF polling THEN {} ELSE {Flow("poll", None, Polled(items', f.of, None))})
  <2>1. f.of \in Spaces /\ Selecting(f.of, "pending", "none", rest)
    BY <1>7 DEF SpaceCreated, FlowsOfSpaces
  <2>2. \A g \in flights' : g \in rest \/ g.of \in Spaces
    BY <2>1, SelectingFlows
  <2>3. \A g \in rest : g \in flights \/ g.kind = "poll"
    BY FlowOf
  <2> HIDE DEF rest
  <2> QED BY <2>2, <2>3 DEF FlowsOfSpaces
<1>8. ASSUME NEW f \in flights, SpaceDeleted(f) PROVE FlowsOfSpaces'
  <2>1. \/ \E it, sel, fresh, next : Ensuring(it, sel, fresh, next, flights \ {f})
        \/ flights' = flights \ {f}
    BY <1>8 DEF SpaceDeleted
  <2> QED BY <2>1, EnsuringFlows DEF FlowsOfSpaces
<1>9. ASSUME NEW f \in flights, Refreshing(f) PROVE FlowsOfSpaces'
  <2>1. \E arg : flights' \subseteq (flights \ {f}) \cup {Flow("embed", f.of, arg)}
    BY <1>9 DEF Refreshing
  <2>2. f.of \in Spaces
    BY <1>9 DEF FlowsOfSpaces, Refreshing
  <2> QED BY <2>1, <2>2, FlowOf DEF FlowsOfSpaces
<1>10. ASSUME NEW f \in flights, PollFails(f) \/ RefreshFails(f) \/ Embedded(f) \/ Selected(f) \/ SpaceRequestFails(f)
       PROVE  FlowsOfSpaces'
  BY <1>10 DEF PollFails, RefreshFails, Embedded, Selected, SpaceRequestFails, Without, FlowsOfSpaces
<1> QED BY <1>1, <1>2, <1>3, <1>4, <1>5, <1>6, <1>7, <1>8, <1>9, <1>10
        DEF WorkspaceNext, WorkspaceUser, WorkspaceAnswers

DevelopmentInv == WorkspaceInv /\ FlowsOfSpaces

LEMMA DevelopmentStarts == WorkspaceInit => DevelopmentInv
<1> SUFFICES ASSUME WorkspaceInit PROVE DevelopmentInv
  OBVIOUS
<1>1. flights = {Flow("spaces", None, None)}
  BY DEF WorkspaceInit
<1> QED BY <1>1, WorkspaceStarts, FlowOf DEF DevelopmentInv, FlowsOfSpaces

LEMMA DevelopmentStep == DevelopmentInv /\ (WorkspaceNext \/ UNCHANGED <<browserVars, workspaceVars>>) => DevelopmentInv'
<1> SUFFICES ASSUME DevelopmentInv, WorkspaceNext \/ UNCHANGED <<browserVars, workspaceVars>> PROVE DevelopmentInv'
  OBVIOUS
<1>1. CASE WorkspaceNext
  <2>1. FlowsOfSpaces'
    BY <1>1, FlowsKept DEF DevelopmentInv
  <2>2. WorkspaceInv'
    <3>1. CASE WorkspaceUser
      BY <3>1, WorkspaceUserKeeps DEF DevelopmentInv
    <3>2. ASSUME NEW f \in flights, WorkspaceAnswers(f) PROVE WorkspaceInv'
      <4>1. f.kind # "poll" /\ f.kind # "spaces" => f.of \in Spaces
        BY DEF DevelopmentInv, FlowsOfSpaces
      <4> QED BY <3>2, <4>1, WorkspaceAnswersKeep DEF DevelopmentInv
    <3> QED BY <1>1, <3>1, <3>2 DEF WorkspaceNext
  <2> QED BY <2>1, <2>2 DEF DevelopmentInv
<1>2. CASE UNCHANGED <<browserVars, workspaceVars>>
  BY <1>2, FlowsStay DEF DevelopmentInv, FlowsOfSpaces, browserVars, workspaceVars
<1> QED BY <1>1, <1>2

LEMMA IntervalRuns == DevelopmentInv => (flights = {} /\ Polled(items, selected, frame) # {} => interval)
BY PolledOnes DEF DevelopmentInv, WorkspaceInv, IntervalComes

-----------------------------------------------------------------------------
(* The table of models and the Logs tab: what waits has a request.           *)

Card == [open : BOOLEAN, json : BOOLEAN, loading : BOOLEAN, acting : SUBSET {"load", "unload"}]
LogsRow == [tab : BOOLEAN, pending : BOOLEAN, loading : BOOLEAN]
ModelKinds == {"modelConfig", "modelAction", "logs", "refresh"}
Asked(f) == f = [kind |-> f.kind, of |-> f.of, arg |-> f.arg, state |-> f.state, result |-> f.result, heard |-> f.heard]

ModelTypes ==
  /\ cards \in [RepositoryModels -> Card] /\ logs \in LogsRow
  /\ \A f \in flights : /\ Asked(f) /\ f.kind \in ModelKinds
                        /\ f.kind \in {"modelConfig", "modelAction"} => f.of \in RepositoryModels
                        /\ f.kind = "modelAction" => f.heard

LogsComes ==
  /\ logs.loading => logs.pending
  /\ OnPanels /\ logs.pending => \E f \in flights : f.kind = "logs" /\ f.heard
  /\ \A f \in flights : f.kind = "logs" => OnPanels /\ logs.pending /\ f.arg = logs.loading

CardComes(m) ==
  /\ cards[m].loading => \E f \in flights : f.kind = "modelConfig" /\ f.heard /\ f.of = m
  /\ \A a \in cards[m].acting :
       \E f \in flights : f.kind = "modelAction" /\ f.of = m /\ f.arg = [action |-> a, no |-> page.no]

OneLog == \A f, g \in flights : f.kind = "logs" /\ g.kind = "logs" => f = g

ModelPanelInv == ModelTypes /\ LogsComes /\ OneLog /\ (OnPanels => \A m \in RepositoryModels : CardComes(m))

LEMMA ModelRequested ==
  ASSUME NEW kind, NEW of, NEW arg
  PROVE  /\ Asked(Request(kind, of, arg)) /\ Request(kind, of, arg).kind = kind
         /\ Request(kind, of, arg).of = of /\ Request(kind, of, arg).arg = arg /\ Request(kind, of, arg).heard
BY DEF Request, Asked

(* An answer, or its loss where nobody listens.                              *)
LEMMA ModelServed ==
  ASSUME ModelPanelInv, NEW f \in flights, NEW answer, flights' = Answered(f, answer),
         UNCHANGED <<page, cards, logs>>, f.kind = "logs" => f.heard
  PROVE  ModelPanelInv'
<1>1. Asked(f)
  BY DEF ModelPanelInv, ModelTypes
<1>0. PICK h : h = [f EXCEPT !.state = "ok", !.result = answer]
  OBVIOUS
<1>2. Asked(h) /\ h.kind = f.kind /\ h.of = f.of /\ h.arg = f.arg /\ h.heard = f.heard
  <2>1. h = [kind |-> f.kind, of |-> f.of, arg |-> f.arg, state |-> "ok", result |-> answer, heard |-> f.heard]
    BY <1>0, <1>1 DEF Asked
  <2> QED BY <2>1 DEF Asked
<1>3. flights' = (flights \ {f}) \cup (IF f.heard THEN {h} ELSE {})
  BY <1>0 DEF Answered
<1>4. ModelTypes'
  BY <1>2, <1>3 DEF ModelPanelInv, ModelTypes
<1>5. OnPanels' <=> OnPanels
  BY DEF OnPanels
<1>6. LogsComes' /\ OneLog'
  BY <1>2, <1>3, <1>5 DEF ModelPanelInv, LogsComes, OneLog
<1>7. ASSUME NEW m \in RepositoryModels, OnPanels PROVE CardComes(m)'
  <2>1. \A g \in flights : g.kind \in {"modelConfig", "modelAction"} /\ g.heard =>
          \E k \in flights' : k.kind = g.kind /\ k.of = g.of /\ k.arg = g.arg /\ k.heard
    BY <1>2, <1>3
  <2>2. CardComes(m) /\ \A g \in flights : g.kind = "modelAction" => g.heard
    BY <1>7 DEF ModelPanelInv, ModelTypes
  <2>3. cards'[m].loading => \E k \in flights' : k.kind = "modelConfig" /\ k.heard /\ k.of = m
    BY <2>1, <2>2 DEF CardComes
  <2>4. \A a \in cards'[m].acting :
          \E k \in flights' : k.kind = "modelAction" /\ k.of = m /\ k.arg = [action |-> a, no |-> page.no]
    BY <2>1, <2>2 DEF CardComes
  <2> QED BY <2>3, <2>4 DEF CardComes
<1> QED BY <1>4, <1>5, <1>6, <1>7 DEF ModelPanelInv

LEMMA OpenModelsKeeps == ModelPanelInv /\ OpenModels => ModelPanelInv'
<1> SUFFICES ASSUME ModelPanelInv, OpenModels PROVE ModelPanelInv'
  OBVIOUS
<1>1. /\ cards' = [m \in RepositoryModels |-> NewCard] /\ logs' = NewLogs /\ UNCHANGED flights /\ ~OnPanels
  BY DEF OpenModels
<1>2. NewCard \in Card /\ ~NewCard.loading /\ NewCard.acting = {} /\ NewLogs \in LogsRow /\ ~NewLogs.pending /\ ~NewLogs.loading
  BY DEF NewCard, NewLogs, Card, LogsRow
<1>3. ModelTypes'
  BY <1>1, <1>2 DEF ModelPanelInv, ModelTypes
<1>4. LogsComes' /\ OneLog'
  BY <1>1, <1>2 DEF ModelPanelInv, LogsComes, OneLog
<1>5. \A m \in RepositoryModels : CardComes(m)'
  BY <1>1, <1>2 DEF CardComes
<1> QED BY <1>3, <1>4, <1>5 DEF ModelPanelInv

LEMMA LeaveModelsKeeps == ModelPanelInv /\ LeavePanels => ModelPanelInv'
<1> SUFFICES ASSUME ModelPanelInv, LeavePanels PROVE ModelPanelInv'
  OBVIOUS
<1> DEFINE K == {"modelConfig", "logs", "access", "policy", "saveAccess", "profiles"}
<1>1. flights' = Unheard(K) /\ UNCHANGED <<cards, logs>> /\ ~OnPanels'
  BY DEF LeavePanels, Route, OnPanels, detailVars, modelPanelVars
<1>2. {g \in Of(K) : g.kind \in Writes /\ g.state = "sent"} = {}
  BY DEF ModelPanelInv, ModelTypes, ModelKinds, Writes, Of
<1>3. \A f \in flights' : f \in flights /\ f.kind # "logs"
  BY <1>1, <1>2 DEF Unheard, Of
<1> QED BY <1>1, <1>3 DEF ModelPanelInv, ModelTypes, LogsComes, OneLog

LEMMA ToggleModelConfigKeeps ==
  ASSUME ModelPanelInv, NEW m \in RepositoryModels, ToggleModelConfig(m)
  PROVE  ModelPanelInv'
<1> DEFINE asks == ~cards[m].open /\ ~cards[m].json /\ ~cards[m].loading
           r == Request("modelConfig", m, None)
<1>0. cards \in [RepositoryModels -> Card] /\ OnPanels
  BY DEF ModelPanelInv, ModelTypes, ToggleModelConfig
<1>1. /\ cards' = [cards EXCEPT ![m].open = ~@, ![m].loading = @ \/ asks] /\ UNCHANGED <<page, logs>>
      /\ flights' = IF asks THEN flights \cup {r} ELSE flights
  BY DEF ToggleModelConfig, Merged
<1>2. Asked(r) /\ r.kind = "modelConfig" /\ r.of = m /\ r.heard
  BY ModelRequested
<1>3. asks \in BOOLEAN /\ cards[m] \in Card
  BY <1>0
<1> HIDE DEF asks, r
<1>4. /\ cards' \in [RepositoryModels -> Card] /\ cards'[m].acting = cards[m].acting
      /\ cards'[m].loading <=> (cards[m].loading \/ asks)
      /\ \A n \in RepositoryModels \ {m} : cards'[n] = cards[n]
  BY <1>0, <1>1, <1>3 DEF Card
<1>5. ModelTypes'
  BY <1>1, <1>2, <1>4 DEF ModelPanelInv, ModelTypes, ModelKinds
<1>6. LogsComes' /\ OneLog'
  BY <1>1, <1>2 DEF ModelPanelInv, LogsComes, OneLog, OnPanels
<1>7. ASSUME NEW n \in RepositoryModels PROVE CardComes(n)'
  BY <1>0, <1>1, <1>2, <1>4 DEF ModelPanelInv, CardComes
<1> QED BY <1>5, <1>6, <1>7 DEF ModelPanelInv

LEMMA RunModelActionKeeps ==
  ASSUME ModelPanelInv, NEW m \in RepositoryModels, NEW action \in {"load", "unload"}, RunModelAction(m, action)
  PROVE  ModelPanelInv'
<1>0. cards \in [RepositoryModels -> Card] /\ OnPanels
  BY DEF ModelPanelInv, ModelTypes, RunModelAction
<1>1. PICK r : /\ Asked(r) /\ r.kind = "modelAction" /\ r.of = m /\ r.heard /\ r.arg = [action |-> action, no |-> page.no]
               /\ r = Request("modelAction", m, [action |-> action, no |-> page.no])
  BY ModelRequested
<1>2. /\ cards' = [cards EXCEPT ![m].acting = @ \cup {action}] /\ UNCHANGED <<page, logs>>
      /\ flights' = flights \cup {r}
  BY <1>1 DEF RunModelAction, Merged
<1>3. cards[m] \in Card
  BY <1>0
<1>4. /\ cards' \in [RepositoryModels -> Card] /\ cards'[m].acting = cards[m].acting \cup {action}
      /\ cards'[m].loading = cards[m].loading
      /\ \A n \in RepositoryModels \ {m} : cards'[n] = cards[n]
  BY <1>0, <1>2, <1>3 DEF Card
<1>5. ModelTypes'
  BY <1>1, <1>2, <1>4 DEF ModelPanelInv, ModelTypes, ModelKinds
<1>6. LogsComes' /\ OneLog'
  BY <1>1, <1>2 DEF ModelPanelInv, LogsComes, OneLog, OnPanels
<1>7. ASSUME NEW n \in RepositoryModels PROVE CardComes(n)'
  BY <1>0, <1>1, <1>2, <1>4 DEF ModelPanelInv, CardComes
<1> QED BY <1>5, <1>6, <1>7 DEF ModelPanelInv

(* An answer settles what it was awaited for; a refresh may follow.          *)
Follows(f) == \/ flights' = flights \ {f}
              \/ flights' = (flights \ {f}) \cup {Request("refresh", None, None)}

LEMMA CardSettles ==
  ASSUME ModelPanelInv, NEW f \in flights, f.kind \in {"modelConfig", "modelAction"}, Follows(f), UNCHANGED <<page, logs>>,
         cards' \in [RepositoryModels -> Card],
         \A n \in RepositoryModels : /\ cards'[n].loading => cards[n].loading
                                     /\ cards'[n].acting \subseteq cards[n].acting,
         f.kind = "modelConfig" /\ f.heard => ~cards'[f.of].loading,
         f.kind = "modelAction" => \A a : f.arg = [action |-> a, no |-> page.no] => a \notin cards'[f.of].acting
  PROVE  ModelPanelInv'
<1>1. PICK r : Asked(r) /\ r.kind = "refresh" /\ r = Request("refresh", None, None)
  BY ModelRequested
<1>2. flights \ {f} \subseteq flights' /\ flights' \subseteq (flights \ {f}) \cup {r}
  BY <1>1 DEF Follows
<1>3. ModelTypes'
  BY <1>1, <1>2 DEF ModelPanelInv, ModelTypes, ModelKinds
<1>4. OnPanels' <=> OnPanels
  BY DEF OnPanels
<1>5. LogsComes' /\ OneLog'
  BY <1>1, <1>2, <1>4 DEF ModelPanelInv, LogsComes, OneLog
<1>6. ASSUME NEW n \in RepositoryModels, OnPanels PROVE CardComes(n)'
  <2>1. CardComes(n) /\ (cards'[n].loading => cards[n].loading) /\ cards'[n].acting \subseteq cards[n].acting
    BY <1>6 DEF ModelPanelInv
  <2>2. cards'[n].loading => \E g \in flights' : g.kind = "modelConfig" /\ g.heard /\ g.of = n
    BY <1>2, <2>1 DEF CardComes
  <2>3. \A a \in cards'[n].acting :
          \E g \in flights' : g.kind = "modelAction" /\ g.of = n /\ g.arg = [action |-> a, no |-> page.no]
    BY <1>2, <2>1 DEF CardComes
  <2> QED BY <2>2, <2>3 DEF CardComes
<1> QED BY <1>3, <1>4, <1>5, <1>6 DEF ModelPanelInv

LEMMA ConfigSettles ==
  ASSUME ModelPanelInv, NEW f \in flights, f.kind = "modelConfig", NEW json \in BOOLEAN, ConfigSettled(f, json)
  PROVE  /\ cards' \in [RepositoryModels -> Card] /\ ~cards'[f.of].loading
         /\ \A n \in RepositoryModels : /\ cards'[n].loading => cards[n].loading
                                        /\ cards'[n].acting \subseteq cards[n].acting
<1>1. cards \in [RepositoryModels -> Card] /\ f.of \in RepositoryModels /\ cards[f.of] \in Card
  BY DEF ModelPanelInv, ModelTypes
<1> DEFINE j == cards[f.of].json \/ json
<1>2. j \in BOOLEAN
  BY <1>1 DEF Card
<1>3. cards' = [cards EXCEPT ![f.of].json = j, ![f.of].loading = FALSE]
  BY DEF ConfigSettled
<1> HIDE DEF j
<1> QED BY <1>1, <1>2, <1>3 DEF Card

LEMMA ActionSettles ==
  ASSUME ModelPanelInv, NEW f \in flights, f.kind = "modelAction", ActionSettled(f)
  PROVE  /\ cards' \in [RepositoryModels -> Card]
         /\ \A a : f.arg = [action |-> a, no |-> page.no] => a \notin cards'[f.of].acting
         /\ \A n \in RepositoryModels : /\ cards'[n].loading => cards[n].loading
                                        /\ cards'[n].acting \subseteq cards[n].acting
<1>1. cards \in [RepositoryModels -> Card] /\ f.of \in RepositoryModels /\ cards[f.of] \in Card
  BY DEF ModelPanelInv, ModelTypes
<1> DEFINE A == cards[f.of].acting \ {f.arg.action}
<1>2. A \in SUBSET {"load", "unload"} /\ f.arg.action \notin A /\ A \subseteq cards[f.of].acting
  BY <1>1 DEF Card
<1>3. IF f.arg.no = page.no THEN cards' = [cards EXCEPT ![f.of].acting = A] ELSE cards' = cards
  BY DEF ActionSettled
<1>4. \A a : f.arg = [action |-> a, no |-> page.no] => f.arg.no = page.no /\ f.arg.action = a
  OBVIOUS
<1>5. CASE f.arg.no # page.no
  BY <1>1, <1>3, <1>4, <1>5
<1> HIDE DEF A
<1>6. CASE f.arg.no = page.no
  BY <1>1, <1>2, <1>3, <1>4, <1>6 DEF Card
<1> QED BY <1>5, <1>6

LEMMA ModelAnswersKeep ==
  ASSUME ModelPanelInv, NEW f \in flights, ModelConfigShown(f) \/ ModelActionDone(f) \/ ModelRequestFails(f)
  PROVE  ModelPanelInv'
<1>0. cards \in [RepositoryModels -> Card]
  BY DEF ModelPanelInv, ModelTypes
<1>1. Follows(f) /\ UNCHANGED <<page, logs>> /\ f.kind \in {"modelConfig", "modelAction"}
  BY DEF ModelConfigShown, ModelActionDone, ModelRequestFails, Without, Answers, Sent, Follows
<1>2. CASE f.kind = "modelConfig" /\ \E json \in BOOLEAN : ConfigSettled(f, json)
  BY <1>1, <1>2, ConfigSettles, CardSettles
<1>3. CASE f.kind = "modelAction" /\ ActionSettled(f)
  BY <1>1, <1>3, ActionSettles, CardSettles
<1>4. CASE f.kind = "modelConfig" /\ ~f.heard /\ UNCHANGED cards
  BY <1>0, <1>1, <1>4, CardSettles
<1> QED BY <1>1, <1>2, <1>3, <1>4 DEF ModelConfigShown, ModelActionDone, ModelRequestFails, Answers, Sent

LEMMA LogsKeep ==
  ASSUME ModelPanelInv,
         \/ \E show \in BOOLEAN : LoadDeploymentLogs(show)
         \/ ChangeTab
         \/ \E f \in flights : LogsShown(f) \/ LogsFail(f)
  PROVE  ModelPanelInv'
<1>0. logs \in LogsRow
  BY DEF ModelPanelInv, ModelTypes
<1>1. ASSUME NEW show \in BOOLEAN, LoadDeploymentLogs(show) PROVE ModelPanelInv'
  <2>2. PICK r : Asked(r) /\ r.kind = "logs" /\ r.heard /\ r.arg = show /\ r = Request("logs", None, show)
    BY ModelRequested
  <2>3. /\ logs' = [logs EXCEPT !.pending = TRUE, !.loading = show] /\ UNCHANGED <<page, cards>>
        /\ flights' = flights \cup {r} /\ OnPanels /\ ~logs.pending
    BY <1>1, <2>2 DEF LoadDeploymentLogs, Merged
  <2>4. logs' \in LogsRow /\ logs'.pending /\ logs'.loading = show
    BY <1>0, <2>3 DEF LogsRow
  <2>5. \A f \in flights : f.kind # "logs"
    BY <2>3 DEF ModelPanelInv, LogsComes
  <2>6. ModelTypes'
    BY <2>2, <2>3, <2>4 DEF ModelPanelInv, ModelTypes, ModelKinds
  <2>7. LogsComes' /\ OneLog'
    BY <2>2, <2>3, <2>4, <2>5 DEF LogsComes, OneLog, OnPanels
  <2>8. \A m \in RepositoryModels : CardComes(m)'
    BY <2>3 DEF ModelPanelInv, CardComes
  <2> QED BY <2>6, <2>7, <2>8 DEF ModelPanelInv
<1>2. CASE ChangeTab
  <2> DEFINE t == ~logs.tab
  <2>1. logs' = [logs EXCEPT !.tab = t] /\ UNCHANGED <<page, flights, cards>> /\ t \in BOOLEAN
    BY <1>2 DEF ChangeTab, browserVars
  <2> HIDE DEF t
  <2>2. logs' \in LogsRow /\ logs'.pending = logs.pending /\ logs'.loading = logs.loading
    BY <1>0, <2>1 DEF LogsRow
  <2> QED BY <2>1, <2>2 DEF ModelPanelInv, ModelTypes, LogsComes, OneLog, OnPanels, CardComes
<1>3. ASSUME NEW f \in flights, LogsShown(f) \/ LogsFail(f) PROVE ModelPanelInv'
  <2> DEFINE l == logs.loading /\ ~f.arg
  <2>1. /\ f.kind = "logs" /\ logs' = [logs EXCEPT !.pending = FALSE, !.loading = l] /\ flights' = flights \ {f}
        /\ UNCHANGED <<page, cards>>
    BY <1>3 DEF LogsShown, LogsFail, LogsSettled, Answers, Sent, Without
  <2>2. l = FALSE
    BY <1>0, <2>1 DEF ModelPanelInv, LogsComes, LogsRow
  <2> HIDE DEF l
  <2>3. logs' \in LogsRow /\ ~logs'.pending /\ ~logs'.loading
    BY <1>0, <2>1, <2>2 DEF LogsRow
  <2>4. \A g \in flights' : g.kind # "logs"
    BY <2>1 DEF ModelPanelInv, OneLog
  <2>5. ModelTypes' /\ LogsComes' /\ OneLog'
    BY <2>1, <2>3, <2>4 DEF ModelPanelInv, ModelTypes, LogsComes, OneLog
  <2>6. OnPanels' => \A m \in RepositoryModels : CardComes(m)'
    BY <2>1 DEF ModelPanelInv, CardComes, OnPanels
  <2> QED BY <2>5, <2>6 DEF ModelPanelInv
<1> QED BY <1>1, <1>2, <1>3

LEMMA ModelPanelStarts == ModelPanelInit => ModelPanelInv
<1> SUFFICES ASSUME ModelPanelInit PROVE ModelPanelInv
  OBVIOUS
<1>1. NewCard \in Card /\ NewLogs \in LogsRow /\ ~NewLogs.pending /\ ~NewLogs.loading
  BY DEF NewCard, NewLogs, Card, LogsRow
<1>2. /\ cards = [m \in RepositoryModels |-> NewCard] /\ logs = NewLogs /\ flights = {} /\ ~OnPanels
  BY DEF ModelPanelInit, OnPanels
<1> QED BY <1>1, <1>2 DEF ModelPanelInv, ModelTypes, LogsComes, OneLog

LEMMA ModelPanelStep ==
  ModelPanelInv /\ (ModelPanelNext \/ UNCHANGED <<browserVars, detailVars>>) => ModelPanelInv'
<1> SUFFICES ASSUME ModelPanelInv, ModelPanelNext \/ UNCHANGED <<browserVars, detailVars>> PROVE ModelPanelInv'
  OBVIOUS
<1>1. ASSUME NEW f \in flights, ServeModelConfig(f) \/ ServeModelAction(f) \/ ServeLogs(f) PROVE ModelPanelInv'
  <2>1. (flights' = Answered(f, TRUE) \/ flights' = Answered(f, None)) /\ UNCHANGED <<page, cards, logs>>
    BY <1>1 DEF ServeModelConfig, ServeModelAction, ServeLogs, detailVars, modelPanelVars
  <2>2. f.kind = "logs" => f.heard
    BY DEF ModelPanelInv, LogsComes, OneLog
  <2> QED BY <2>1, <2>2, ModelServed
<1>3. ASSUME NEW f \in flights, ModelsRefreshed(f) PROVE ModelPanelInv'
  <2>1. f.kind = "refresh" /\ flights' = flights \ {f} /\ UNCHANGED <<page, cards, logs>>
    BY <1>3 DEF ModelsRefreshed, Sent, Without, detailVars, modelPanelVars
  <2>2. ModelTypes'
    BY <2>1 DEF ModelPanelInv, ModelTypes
  <2>3. LogsComes' /\ OneLog'
    BY <2>1 DEF ModelPanelInv, LogsComes, OneLog, OnPanels
  <2>4. OnPanels' => \A m \in RepositoryModels : CardComes(m)'
    BY <2>1 DEF ModelPanelInv, CardComes, OnPanels
  <2> QED BY <2>2, <2>3, <2>4 DEF ModelPanelInv
<1>2. CASE UNCHANGED <<browserVars, detailVars>>
  BY <1>2 DEF browserVars, detailVars, modelPanelVars, ModelPanelInv, ModelTypes, LogsComes, OneLog, OnPanels, CardComes
<1> QED BY <1>1, <1>2, <1>3, OpenModelsKeeps, LeaveModelsKeeps, ToggleModelConfigKeeps, RunModelActionKeeps,
           ModelAnswersKeep, LogsKeep DEF ModelPanelNext

LEMMA PanelsWait ==
  ModelPanelInv /\ OnPanels =>
    /\ logs.loading => logs.pending
    /\ logs.pending => Awaited({"logs"}) # {}
    /\ \A m \in RepositoryModels :
         /\ cards[m].loading => \E f \in Awaited({"modelConfig"}) : f.of = m
         /\ \A a \in cards[m].acting : \E f \in Of({"modelAction"}) : f.of = m /\ f.arg = [action |-> a, no |-> page.no]
BY DEF ModelPanelInv, LogsComes, CardComes, Awaited, Of


(* Whatever waits for a timer or an answer has one: a token in use its       *)
(* logout, a workspace that is not there yet its poll, the Profile page its  *)
(* next status, a row of the models and the logs their requests; for any     *)
(* number of them, through every order of answers, failures and pages left.  *)
THEOREM TimersAlwaysRun == Spec => []TimersRun
<1> DEFINE Inv == /\ area = "session" => SessionInv
                  /\ area = "development" => DevelopmentInv
                  /\ area = "profile" => ProfileInv
                  /\ area = "models" => ModelPanelInv
<1>1. Init => Inv
  BY AreaInits, SessionStarts, DevelopmentStarts, ProfileStarts, ModelPanelStarts DEF AreaInit
<1>2. Inv /\ [Next]_vars => Inv'
  BY AreaSteps, SessionStep, DevelopmentStep, ProfileStep, ModelPanelStep DEF AreaStep
<1>3. Inv => TimersRun
  BY IntervalRuns, PanelsWait, StatusRuns DEF SessionInv, TimersRun
<1> QED
  BY <1>1, <1>2, <1>3, PTL DEF Spec
=============================================================================
