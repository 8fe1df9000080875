--------------------------- MODULE PlatformProofs ---------------------------
(* Proofs about the platform.  First what moves: a step moves one handler   *)
(* at most, from a place of its component to another one, with locals that  *)
(* fit, and changes the tables and objects of its component only.  Then,    *)
(* component by component, that its own steps keep its invariant, and that  *)
(* those of the others cannot break it.                                     *)
EXTENDS Platform, TLAPS

USE ProcsAssumption, NoneAssumption, CredsAssumption, WorkloadsAssumption, FlowsAssumption

-----------------------------------------------------------------------------
(* Handlers                                                                 *)

(* The locals of a handler that does nothing.                               *)
LEMMA Nothing == NoLocal \in Local /\ Fits("idle", NoLocal)
<1>1. <<>> \in [{} -> {"", "pending", "failed"}]
  OBVIOUS
<1>2. <<>> \in Marks
  BY <1>1 DEF Marks
<1> QED
  BY <1>2 DEF NoLocal, Local, Fits, Settings, OnProfile, OnCredential, OnWorkload, SpaceLabels, FlowLabels

Others(x) == \A y \in Procs \ {x} : pc'[y] = pc[y] /\ loc'[y] = loc[y]

(* A handler that goes to a place with locals that fit.                     *)
LEMMA Going ==
  ASSUME Handlers, NEW x \in Procs, NEW label \in Labels, NEW l \in Local,
         Goto(x, label, l), label = "idle" \/ Fits(label, l)
  PROVE  /\ Handlers' /\ Others(x)
         /\ pc'[x] = label /\ loc'[x] = IF label = "idle" THEN NoLocal ELSE l
<1> DEFINE new == IF label = "idle" THEN NoLocal ELSE l
<1>1. new \in Local /\ Fits(label, new)
  BY Nothing
<1>2. /\ pc' = [pc EXCEPT ![x] = label] /\ loc' = [loc EXCEPT ![x] = new]
      /\ pc \in [Procs -> Labels] /\ loc \in [Procs -> Local]
  BY DEF Goto, Handlers
<1> HIDE DEF new
<1>3. /\ pc' \in [Procs -> Labels] /\ loc' \in [Procs -> Local] /\ Others(x)
      /\ pc'[x] = label /\ loc'[x] = new
  BY <1>1, <1>2 DEF Others
<1>4. \A y \in Procs : Fits(pc'[y], loc'[y])
  BY <1>1, <1>3 DEF Others, Handlers
<1> QED
  BY <1>3, <1>4 DEF Handlers, new

Goes(x, places) ==
  \E label \in places, l \in Local : (label = "idle" \/ Fits(label, l)) /\ Goto(x, label, l)

LEMMA Gone ==
  ASSUME Handlers, NEW x \in Procs, NEW places \in SUBSET Labels, Goes(x, places)
  PROVE  Handlers' /\ Others(x) /\ pc'[x] \in places
BY Going DEF Goes

(* One that ends.                                                           *)
LEMMA Ending ==
  ASSUME Handlers, NEW x \in Procs, End(x)
  PROVE  Handlers' /\ Others(x) /\ pc'[x] = "idle" /\ loc'[x] = NoLocal /\ \A L : "idle" \in L => Goes(x, L)
BY Nothing, Going DEF End, Labels, Goes

LEMMA Beginning ==
  ASSUME BackendTypes, NEW x \in Procs, NEW op, Begin(x, op)
  PROVE  pc[x] = "idle" /\ sent' \in Nat /\ UNCHANGED <<faults, fresh>>
BY DEF Begin, At, BackendTypes

-----------------------------------------------------------------------------
(* S3 profiles and credentials                                              *)

S3Place(label) == label \in S3Labels \cup {"idle"}
S3Moves(x) ==
  /\ Handlers' /\ Others(x) /\ S3Place(pc[x]) /\ S3Place(pc'[x])
  /\ BackendTypes' /\ S3Types' /\ faults' >= faults
  /\ UNCHANGED <<mlflow, fresh>>

LEMMA MarksFacts ==
  \A m \in Marks : DOMAIN m \in SUBSET Creds /\ m \in [DOMAIN m -> {"", "pending", "failed"}]
BY DEF Marks

LEMMA MarkedRow ==
  /\ creds \in [Creds -> CredRow] => \A r \in Creds : creds[r] \in CredRow
  /\ \A row \in CredRow, e \in {"", "pending", "failed"} : [row EXCEPT !.err = e] \in CredRow
BY DEF CredRow

LEMMA WritingErrors ==
  ASSUME creds \in [Creds -> CredRow], NEW l, \A r \in DOMAIN l.err : l.err[r] \in {"", "pending", "failed"},
         WriteErrors(l)
  PROVE  creds' \in [Creds -> CredRow]
BY MarkedRow DEF WriteErrors

LEMMA Reading ==
  ASSUME S3Types, NEW p
  PROVE  /\ [r \in Linked(p) |-> creds[r].err] \in Marks
         /\ \A r \in Creds : Mark(r, creds[r].err) \in Marks /\ Mark(r, "pending") \in Marks /\ Mark(r, "") \in Marks
<1>1. Linked(p) \in SUBSET Creds /\ \A r \in Creds : creds[r].err \in {"", "pending", "failed"}
  BY DEF Linked, S3Types, CredRow
<1>2. [r \in Linked(p) |-> creds[r].err] \in [Linked(p) -> {"", "pending", "failed"}]
  BY <1>1
<1>3. ASSUME NEW r \in Creds, NEW err \in {"", "pending", "failed"} PROVE Mark(r, err) \in Marks
  <2>1. Mark(r, err) \in [{r} -> {"", "pending", "failed"}] /\ {r} \in SUBSET Creds
    BY DEF Mark
  <2> QED
    BY <2>1 DEF Marks
<1> QED
  BY <1>1, <1>2, <1>3 DEF Marks

LEMMA S3BeginMoves ==
  ASSUME TypeOK, NEW x \in Procs, S3Begin(x) PROVE S3Moves(x)
<1> DEFINE here == S3Labels \cup {"idle"}
<1>0. here \subseteq Labels
  BY DEF Labels
<1>1. ASSUME CreateProfile(x) PROVE S3Moves(x)
  BY <1>1, Beginning DEF S3Moves, S3Place, TypeOK, BackendTypes, CreateProfile, Stay, s3Vars, S3Types, Handlers, Others, ProfileRow
<1>2. ASSUME UpdateProfile(x) \/ DeleteProfile(x) PROVE Goes(x, here)
  <2>1. PICK p \in Profiles, label \in {"update_flush", "profile_delete"} : Goto(x, label, [NoLocal EXCEPT !.p = p])
    BY <1>2 DEF UpdateProfile, DeleteProfile
  <2>2. [NoLocal EXCEPT !.p = p] \in Local /\ Fits(label, [NoLocal EXCEPT !.p = p])
    BY Nothing DEF NoLocal, Local, Fits, OnProfile, OnCredential, OnWorkload, SpaceLabels, FlowLabels
  <2> QED
    BY <2>1, <2>2 DEF Goes, S3Labels
<1>3. ASSUME CreateCredential(x) PROVE Goes(x, here)
  <2>1. PICK r \in Creds, p \in Profiles \cup {None} :
          Goto(x, "credential_secret", [NoLocal EXCEPT !.c = r, !.p = p, !.v = IF p = None THEN 0 ELSE profiles[p].v])
    BY <1>3 DEF CreateCredential
  <2> DEFINE v == IF p = None THEN 0 ELSE profiles[p].v
  <2>2. v \in Nat
    BY DEF TypeOK, BackendTypes, ProfileRow
  <2> HIDE DEF v
  <2>3. [NoLocal EXCEPT !.c = r, !.p = p, !.v = v] \in Local
        /\ Fits("credential_secret", [NoLocal EXCEPT !.c = r, !.p = p, !.v = v])
    BY <2>2, Nothing DEF NoLocal, Local, Fits, OnProfile, OnCredential, OnWorkload, SpaceLabels, FlowLabels
  <2> QED
    BY <2>1, <2>3 DEF v, Goes, S3Labels
<1>4. ASSUME DeleteCredential(x) PROVE Goes(x, here)
  <2>1. PICK r \in Creds, label \in {"delete_secret", "delete_repository"} : Goto(x, label, [NoLocal EXCEPT !.c = r])
    BY <1>4 DEF DeleteCredential
  <2>2. [NoLocal EXCEPT !.c = r] \in Local /\ Fits(label, [NoLocal EXCEPT !.c = r])
    BY Nothing DEF NoLocal, Local, Fits, OnProfile, OnCredential, OnWorkload, SpaceLabels, FlowLabels
  <2> QED
    BY <2>1, <2>2 DEF Goes, S3Labels
<1>5. ASSUME RetrySync(x) PROVE Goes(x, here)
  <2>1. PICK r \in Creds, p \in Profiles, known \in Marks :
          Goto(x, "sync_lock", [NoLocal EXCEPT !.c = r, !.p = p, !.known = known])
    BY <1>5, Reading DEF RetrySync, TypeOK, S3Types, CredRow
  <2>2. [NoLocal EXCEPT !.c = r, !.p = p, !.known = known] \in Local
        /\ Fits("sync_lock", [NoLocal EXCEPT !.c = r, !.p = p, !.known = known])
    BY Nothing DEF NoLocal, Local, Fits, OnProfile, OnCredential, OnWorkload, SpaceLabels, FlowLabels
  <2> QED
    BY <2>1, <2>2 DEF Goes, S3Labels
<1> HIDE DEF here
<1>6. ASSUME Goes(x, here), UNCHANGED <<profiles, mlflow, s3Vars>>, NEW op, Begin(x, op)
      PROVE  S3Moves(x)
  <2>1. Handlers' /\ Others(x) /\ pc'[x] \in here
    BY <1>0, <1>6, Gone DEF TypeOK
  <2> QED
    BY <1>6, <2>1, Beginning DEF S3Moves, S3Place, here, TypeOK, BackendTypes, s3Vars, S3Types
<1> QED
  <2>1. CreateProfile(x) \/ (UNCHANGED <<profiles, mlflow, s3Vars>> /\ \E op : Begin(x, op))
    BY DEF S3Begin, UpdateProfile, DeleteProfile, CreateCredential, DeleteCredential, RetrySync
  <2> QED
    BY <1>1, <1>2, <1>3, <1>4, <1>5, <1>6, <2>1 DEF S3Begin

LEMMA S3StepMoves ==
  ASSUME TypeOK, NEW x \in Procs, S3Step(x) PROVE S3Moves(x)
<1> DEFINE here == S3Labels \cup {"idle"}
           l == loc[x]
<1>0. /\ here \subseteq Labels /\ "idle" \in here
      /\ l \in Local /\ Fits(pc[x], l)
  BY DEF Labels, TypeOK, Handlers
<1>i. ASSUME End(x) PROVE Goes(x, here)
  BY <1>i, Ending DEF TypeOK
<1>a. \A f : f = faults \/ f = faults + 1 => f \in Nat /\ f >= faults
  BY DEF TypeOK, BackendTypes
<1>1. ASSUME UpdateFlush(x)
      PROVE  /\ Goes(x, here) /\ pc[x] \in here
             /\ UNCHANGED <<profiles, mlflow, fresh, ops, sent, faults>> /\ S3Types'
  <2>1. l.p \in Profiles /\ pc[x] = "update_flush"
    BY <1>0, <1>1 DEF UpdateFlush, At, Fits, OnProfile
  <2>2. PICK known \in Marks : End(x) \/ Goto(x, "update_commit", [l EXCEPT !.known = known])
    BY <1>1, Reading DEF UpdateFlush, TypeOK
  <2>3. [l EXCEPT !.known = known] \in Local /\ Fits("update_commit", [l EXCEPT !.known = known])
    BY <1>0, <2>1 DEF Local, Fits, OnProfile, OnCredential, OnWorkload, SpaceLabels, FlowLabels
  <2>4. S3Types'
    BY <1>1, <2>1 DEF UpdateFlush, TypeOK, S3Types, Objects
  <2> QED
    BY <1>1, <1>i, <2>1, <2>2, <2>3, <2>4 DEF UpdateFlush, Goes, S3Labels, Quiet, Tables
<1>2. ASSUME UpdateCommit(x)
      PROVE  /\ Goes(x, here) /\ pc[x] \in here /\ BackendTypes'
             /\ UNCHANGED <<mlflow, fresh, ops, sent, faults>> /\ S3Types'
  <2>1. l.p \in Profiles /\ pc[x] = "update_commit"
    BY <1>0, <1>2 DEF UpdateCommit, At, Fits, OnProfile
  <2> DEFINE m == [l EXCEPT !.err = [r \in DOMAIN l.known |-> "pending"]]
             n == [l EXCEPT !.err = [r \in DOMAIN l.known |-> "pending"], !.known = <<>>, !.err = <<>>]
  <2>2. \/ End(x) /\ UNCHANGED <<profiles, creds>>
        \/ /\ Goto(x, "sync_lock", [m EXCEPT !.known = <<>>, !.err = <<>>])
           /\ profiles' = [profiles EXCEPT ![l.p].v = @ + 1] /\ WriteErrors(m)
    BY <1>2 DEF UpdateCommit
  <2>3. [m EXCEPT !.known = <<>>, !.err = <<>>] \in Local /\ Fits("sync_lock", [m EXCEPT !.known = <<>>, !.err = <<>>])
    <3>1. <<>> \in Marks
      BY Nothing DEF NoLocal, Local
    <3> QED
      BY <1>0, <2>1, <3>1 DEF Local, Fits, OnProfile, OnCredential, OnWorkload, SpaceLabels, FlowLabels
  <2>4. creds' \in [Creds -> CredRow]
    <3>1. m.err = [r \in DOMAIN l.known |-> "pending"]
      BY <1>0 DEF Local
    <3>2. \A r \in DOMAIN m.err : m.err[r] \in {"", "pending", "failed"}
      BY <3>1
    <3> QED
      BY <2>2, <3>2, WritingErrors DEF TypeOK, S3Types
  <2>5. profiles' \in [Profiles -> ProfileRow]
    BY <2>2 DEF TypeOK, BackendTypes, ProfileRow
  <2>6. S3Types'
    BY <1>2, <2>1, <2>4 DEF UpdateCommit, Unlock, NoLock, Objects, TypeOK, S3Types
  <2>7. Goes(x, here)
    BY <1>i, <2>2, <2>3 DEF Goes, S3Labels
  <2> QED
    BY <1>2, <2>1, <2>5, <2>6, <2>7 DEF UpdateCommit, Quiet, S3Labels, TypeOK, BackendTypes
<1>3. ASSUME ProfileDelete(x)
      PROVE  /\ Goes(x, here) /\ pc[x] \in here /\ BackendTypes'
             /\ UNCHANGED <<mlflow, fresh, ops, sent, faults>> /\ S3Types'
  <2>1. l.p \in Profiles /\ pc[x] = "profile_delete"
    BY <1>0, <1>3 DEF ProfileDelete, At, Fits, OnProfile
  <2> QED
    BY <1>3, <1>i, <2>1 DEF ProfileDelete, Quiet, S3Labels, TypeOK, BackendTypes, s3Vars, S3Types, ProfileRow
(* The calls for a credential's objects keep the locals.                    *)
<1>4. ASSUME ApplySecret(x) \/ UndoSecret(x) \/ DeleteRepository(x) \/ DeleteSecret(x)
      PROVE  /\ Goes(x, here) /\ pc[x] \in here
             /\ UNCHANGED <<profiles, mlflow, fresh, ops, sent, creds, lock>> /\ S3Types'
             /\ faults' \in Nat /\ faults' >= faults
  <2>1. l.c \in Creds /\ pc[x] \in {"credential_secret", "credential_undo", "delete_repository", "delete_secret"}
    BY <1>0, <1>4 DEF ApplySecret, UndoSecret, DeleteRepository, DeleteSecret, At, Fits, OnCredential
  <2>2. PICK label \in {"credential_insert", "delete_secret", "delete_row", "idle"} : Goto(x, label, l)
    BY <1>4 DEF ApplySecret, UndoSecret, DeleteRepository, DeleteSecret, Call
  <2>3. label = "idle" \/ Fits(label, l)
    BY <1>0, <2>1 DEF Fits, OnProfile, OnCredential, OnWorkload, SpaceLabels, FlowLabels
  <2>4. l.v \in Nat
    BY <1>0 DEF Local
  <2>5. secret' \in [Creds -> Token] /\ cmap' \in [Creds -> Token]
    BY <1>4, <2>1, <2>4 DEF ApplySecret, UndoSecret, DeleteRepository, DeleteSecret, Call, TypeOK, S3Types, Token
  <2>6. UNCHANGED <<profiles, mlflow, fresh, ops, sent, creds, lock>> /\ (faults' = faults \/ faults' = faults + 1)
    BY <1>4 DEF ApplySecret, UndoSecret, DeleteRepository, DeleteSecret, Call, Tables
  <2> QED
    BY <1>0, <2>1, <2>2, <2>3, <2>5, <2>6 DEF Goes, S3Labels, TypeOK, BackendTypes, S3Types
<1>5. ASSUME InsertCredential(x)
      PROVE  /\ Goes(x, here) /\ pc[x] \in here
             /\ UNCHANGED <<profiles, mlflow, fresh, ops, sent>> /\ S3Types'
             /\ faults' \in Nat /\ faults' >= faults
  <2>1. l.c \in Creds /\ pc[x] = "credential_insert"
    BY <1>0, <1>5 DEF InsertCredential, At, Fits, OnCredential
  <2>2. l.p \in Profiles \cup {None}
    BY <1>0 DEF Local
  <2>3. PICK e \in {"", "pending"} :
          \/ End(x) \/ Goto(x, "idle", [l EXCEPT !.known = Mark(l.c, e)])
          \/ Goto(x, "credential_undo", l)
          \/ l.p # None /\ Goto(x, "sync_lock", [l EXCEPT !.known = Mark(l.c, e)])
    BY <1>5 DEF InsertCredential
  <2>4. Fits("credential_undo", l)
    BY <1>0, <2>1 DEF Fits, OnProfile, OnCredential, OnWorkload, SpaceLabels, FlowLabels
  <2>5. /\ [l EXCEPT !.known = Mark(l.c, e)] \in Local
        /\ l.p # None => Fits("sync_lock", [l EXCEPT !.known = Mark(l.c, e)])
    <3>1. Mark(l.c, e) \in Marks
      BY <2>1, Reading DEF TypeOK
    <3> QED
      BY <1>0, <2>1, <2>2, <3>1 DEF Local, Fits, OnProfile, OnCredential, OnWorkload, SpaceLabels, FlowLabels
  <2>6. Goes(x, here)
    BY <1>0, <1>i, <2>3, <2>4, <2>5 DEF Goes, S3Labels
  <2>7. S3Types'
    <3> DEFINE new == [state |-> "live", profile |-> l.p, err |-> IF l.p = None THEN "" ELSE "pending"]
    <3>1. new \in CredRow
      BY <2>2 DEF CredRow
    <3>2. creds' \in {creds, [creds EXCEPT ![l.c] = new]} /\ UNCHANGED <<secret, cmap, lock>>
      BY <1>5 DEF InsertCredential
    <3> HIDE DEF new
    <3>3. creds \in [Creds -> CredRow] => [creds EXCEPT ![l.c] = new] \in [Creds -> CredRow]
      BY <2>1, <3>1
    <3> QED
      BY <3>2, <3>3 DEF TypeOK, S3Types
  <2>8. UNCHANGED <<profiles, mlflow, fresh, ops, sent>> /\ (faults' = faults \/ faults' = faults + 1)
    BY <1>5 DEF InsertCredential, Tables
  <2>9. faults' \in Nat /\ faults' >= faults
    BY <1>a, <2>8
  <2>10. pc[x] \in here
    BY <2>1 DEF S3Labels
  <2> QED
    BY <2>6, <2>7, <2>8, <2>9, <2>10
<1>6. ASSUME DeleteRow(x)
      PROVE  /\ Goes(x, here) /\ pc[x] \in here
             /\ UNCHANGED <<profiles, mlflow, fresh, ops, sent, faults>> /\ S3Types'
  <2>1. pc[x] = "delete_row" /\ End(x)
    BY <1>6 DEF DeleteRow, At
  <2>2. S3Types'
    <3>1. \A row \in CredRow : [row EXCEPT !.state = "gone"] \in CredRow
      BY DEF CredRow
    <3> QED
      BY <1>6, <3>1 DEF DeleteRow, TypeOK, S3Types
  <2> QED
    BY <1>6, <1>i, <2>1, <2>2 DEF DeleteRow, Quiet, Tables, S3Labels
<1>7. ASSUME SyncLock(x)
      PROVE  /\ Goes(x, here) /\ pc[x] \in here
             /\ UNCHANGED <<profiles, mlflow, fresh, ops, sent, faults>> /\ S3Types'
  <2>1. l.p \in Profiles /\ pc[x] = "sync_lock"
    BY <1>0, <1>7 DEF SyncLock, At, Fits, OnProfile
  <2>2. End(x) \/ Goto(x, "sync_secret", Synchronizing(l, l.p))
    BY <1>7 DEF SyncLock
  <2>3. Loaded(l, l.p) \in Marks /\ DOMAIN Loaded(l, l.p) = Linked(l.p)
    <3>1. Linked(l.p) \in SUBSET Creds /\ \A r \in Creds : creds[r].err \in {"", "pending", "failed"}
      BY DEF Linked, TypeOK, S3Types, CredRow
    <3>2. \A r \in DOMAIN l.known : l.known[r] \in {"", "pending", "failed"}
      <4>1. l.known \in Marks
        BY <1>0 DEF Local
      <4> QED
        BY <4>1, MarksFacts
    <3>3. Loaded(l, l.p) \in [Linked(l.p) -> {"", "pending", "failed"}]
      BY <3>1, <3>2 DEF Loaded
    <3> QED
      BY <3>1, <3>3 DEF Marks
  <2>4. profiles[l.p].v \in Nat /\ Linked(l.p) \subseteq Creds
    BY <2>1 DEF TypeOK, BackendTypes, ProfileRow, Linked
  <2>5. Synchronizing(l, l.p) \in Local /\ Fits("sync_secret", Synchronizing(l, l.p))
    BY <1>0, <2>1, <2>3, <2>4 DEF Synchronizing, Local, Fits, OnProfile, OnCredential, OnWorkload, SpaceLabels, FlowLabels
  <2>6. S3Types'
    BY <1>7, <2>1 DEF SyncLock, TypeOK, S3Types, Objects
  <2> QED
    BY <1>7, <1>i, <2>1, <2>2, <2>5, <2>6 DEF SyncLock, Quiet, Tables, S3Labels, Goes
<1>8. ASSUME NEW r \in l.todo, pc[x] \in {"sync_secret", "sync_repository"}
      PROVE  /\ r \in DOMAIN l.err /\ r \in Creds
             /\ SyncFails(x, r) \in Local /\ Fits("sync_secret", SyncFails(x, r))
             /\ [l EXCEPT !.todo = @ \ {r}, !.err[r] = "", !.c = None] \in Local
             /\ Fits("sync_secret", [l EXCEPT !.todo = @ \ {r}, !.err[r] = "", !.c = None])
             /\ [l EXCEPT !.c = r] \in Local /\ Fits("sync_repository", [l EXCEPT !.c = r])
  <2>1. l.todo \subseteq DOMAIN l.err /\ DOMAIN l.err \in SUBSET Creds /\ l.p \in Profiles
        /\ DOMAIN l.known = DOMAIN l.err
    <3>1. l.err \in Marks
      BY <1>0 DEF Local
    <3> QED
      BY <1>0, <1>8, <3>1, MarksFacts DEF Fits, OnProfile
  <2>2. \A e \in {"", "failed"} : [l.err EXCEPT ![r] = e] \in Marks /\ DOMAIN [l.err EXCEPT ![r] = e] = DOMAIN l.err
    <3>1. l.err \in [DOMAIN l.err -> {"", "pending", "failed"}]
      <4>1. l.err \in Marks
        BY <1>0 DEF Local
      <4> QED
        BY <4>1, MarksFacts
    <3>2. \A e \in {"", "failed"} : [l.err EXCEPT ![r] = e] \in [DOMAIN l.err -> {"", "pending", "failed"}]
      BY <3>1
    <3> QED
      BY <2>1, <3>2 DEF Marks
  <2>3. ASSUME NEW e \in {"", "failed"}
        PROVE  /\ [l EXCEPT !.todo = @ \ {r}, !.err[r] = e, !.c = None] \in Local
               /\ Fits("sync_secret", [l EXCEPT !.todo = @ \ {r}, !.err[r] = e, !.c = None])
    <3> DEFINE err == [l.err EXCEPT ![r] = e]
    <3>1. [l EXCEPT !.todo = @ \ {r}, !.err[r] = e, !.c = None] = [l EXCEPT !.todo = @ \ {r}, !.err = err, !.c = None]
      BY <1>0 DEF Local
    <3>2. err \in Marks /\ DOMAIN err = DOMAIN l.err
      BY <2>2
    <3> HIDE DEF err
    <3>3. [l EXCEPT !.todo = @ \ {r}, !.err = err, !.c = None] \in Local
      BY <1>0, <3>2 DEF Local
    <3>4. Fits("sync_secret", [l EXCEPT !.todo = @ \ {r}, !.err = err, !.c = None])
      BY <1>0, <1>8, <2>1, <3>2 DEF Local, Fits, OnProfile, OnCredential, OnWorkload, SpaceLabels, FlowLabels
    <3> QED
      BY <3>1, <3>3, <3>4
  <2>4. [l EXCEPT !.c = r] \in Local /\ Fits("sync_repository", [l EXCEPT !.c = r])
    BY <1>0, <1>8, <2>1 DEF Local, Fits, OnProfile, OnCredential, OnWorkload, SpaceLabels, FlowLabels
  <2> QED
    BY <2>1, <2>3, <2>4 DEF SyncFails
<1>9. ASSUME ReplaceSecret(x)
      PROVE  /\ Goes(x, here) /\ pc[x] \in here
             /\ UNCHANGED <<profiles, mlflow, fresh, ops, sent>> /\ S3Types'
             /\ faults' \in Nat /\ faults' >= faults
  <2>1. PICK r \in l.todo : \/ Goto(x, "sync_secret", SyncFails(x, r)) /\ UNCHANGED secret
                            \/ Goto(x, "sync_secret", SyncFails(x, r)) /\ secret' = [secret EXCEPT ![r] = l.v]
                            \/ Goto(x, "sync_repository", [l EXCEPT !.c = r]) /\ secret' = [secret EXCEPT ![r] = l.v]
    BY <1>9 DEF ReplaceSecret, Refused
  <2>2. pc[x] = "sync_secret"
    BY <1>9 DEF ReplaceSecret, At
  <2>3. Goes(x, here)
    BY <1>8, <2>1, <2>2 DEF Goes, S3Labels
  <2>4. UNCHANGED <<profiles, mlflow, fresh, ops, sent, creds, cmap, lock>> /\ (faults' = faults \/ faults' = faults + 1)
    BY <1>9 DEF ReplaceSecret, Refused, Quiet, Tables
  <2>5. l.v \in Nat
    BY <1>0 DEF Local
  <2>6. S3Types'
    BY <2>1, <2>4, <2>5 DEF TypeOK, S3Types, Token
  <2> QED
    BY <2>2, <2>3, <2>4, <2>6 DEF S3Labels, TypeOK, BackendTypes
<1>10. ASSUME SyncRepository(x), l.c \in l.todo
      PROVE  /\ Goes(x, here) /\ pc[x] \in here
             /\ UNCHANGED <<profiles, mlflow, fresh, ops, sent>> /\ S3Types'
             /\ faults' \in Nat /\ faults' >= faults
  <2>1. \/ Goto(x, "sync_secret", SyncFails(x, l.c))
        \/ Goto(x, "sync_secret", [l EXCEPT !.todo = @ \ {l.c}, !.err[l.c] = "", !.c = None])
    BY <1>10 DEF SyncRepository
  <2>2. pc[x] = "sync_repository"
    BY <1>10 DEF SyncRepository, At
  <2>3. Goes(x, here)
    BY <1>8, <1>10, <2>1, <2>2 DEF Goes, S3Labels
  <2>4. UNCHANGED <<profiles, mlflow, fresh, ops, sent, creds, secret, lock>> /\ (faults' = faults \/ faults' = faults + 1)
        /\ (UNCHANGED cmap \/ cmap' = [cmap EXCEPT ![l.c] = l.v])
    BY <1>10 DEF SyncRepository, Quiet, Tables
  <2>5. l.v \in Nat
    BY <1>0 DEF Local
  <2>6. S3Types'
    BY <2>4, <2>5 DEF TypeOK, S3Types, Token
  <2> QED
    BY <2>2, <2>3, <2>4, <2>6 DEF S3Labels, TypeOK, BackendTypes
<1>11. ASSUME SyncCommit(x)
      PROVE  /\ Goes(x, here) /\ pc[x] \in here
             /\ UNCHANGED <<profiles, mlflow, fresh, ops, sent, faults>> /\ S3Types'
  <2>1. pc[x] = "sync_secret" /\ End(x) /\ (creds' = creds \/ WriteErrors(l))
    BY <1>11 DEF SyncCommit, At
  <2>2. l.p \in Profiles
    BY <1>0, <2>1 DEF Fits, OnProfile
  <2>3. ASSUME WriteErrors(l) PROVE creds' \in [Creds -> CredRow]
    <3>1. l.err \in Marks
      BY <1>0 DEF Local
    <3> QED
      BY <2>3, <3>1, MarksFacts, WritingErrors DEF TypeOK, S3Types
  <2>4. S3Types'
    BY <1>11, <2>1, <2>2, <2>3 DEF SyncCommit, Unlock, NoLock, Objects, TypeOK, S3Types
  <2> QED
    BY <1>11, <1>i, <2>1, <2>4 DEF SyncCommit, Quiet, Tables, S3Labels
<1>12. ASSUME Goes(x, here), pc[x] \in here, UNCHANGED <<mlflow, fresh, ops>>, S3Types', BackendTypes', faults' >= faults
       PROVE  S3Moves(x)
  BY <1>0, <1>12, Gone DEF S3Moves, S3Place, TypeOK
<1>13. ASSUME UNCHANGED <<profiles, mlflow, fresh, sent>>, faults' \in Nat
       PROVE  BackendTypes'
  BY <1>13 DEF TypeOK, BackendTypes
<1>14. faults >= faults /\ faults \in Nat
  BY DEF TypeOK, BackendTypes
<1>15. SyncRepository(x) => l.c \in l.todo
  BY <1>0 DEF SyncRepository, At, Fits
<1> HIDE DEF here, l
<1> QED
  BY <1>1, <1>2, <1>3, <1>4, <1>5, <1>6, <1>7, <1>9, <1>10, <1>11, <1>12, <1>13, <1>14, <1>15 DEF S3Step

-----------------------------------------------------------------------------
(* MLflow                                                                   *)

(* To a place, at work on no workspace.                                     *)
To(x, label) ==
  \E l \in Local : l.w = None /\ (label = "idle" \/ Fits(label, l)) /\ Goto(x, label, l)

LEMMA Arrived ==
  ASSUME Handlers, NEW x \in Procs, NEW label \in Labels, To(x, label)
  PROVE  Handlers' /\ Others(x) /\ pc'[x] = label /\ loc'[x].w = None
<1>1. PICK l \in Local : l.w = None /\ (label = "idle" \/ Fits(label, l)) /\ Goto(x, label, l)
  BY DEF To
<1>2. Handlers' /\ Others(x) /\ pc'[x] = label /\ loc'[x] = IF label = "idle" THEN NoLocal ELSE l
  BY <1>1, Going
<1> QED
  BY <1>1, <1>2 DEF NoLocal

LEMMA Stopped ==
  ASSUME NEW x \in Procs, End(x) PROVE To(x, "idle")
BY Nothing DEF To, End, NoLocal

(* What a step does to the lock of its process.                             *)
LockMoves(x) ==
  \/ installing' = installing /\ (Holds(x)' => Holds(x))
  \/ BackendOf[x] \notin installing /\ installing' = installing \cup {BackendOf[x]}
  \/ Holds(x) /\ ~Holds(x)' /\ installing' = installing \ {BackendOf[x]}

MlflowPlace(label) == label \in MlflowLabels \cup {"idle"}
MlflowMoves(x) ==
  /\ Handlers' /\ Others(x) /\ MlflowPlace(pc[x]) /\ MlflowPlace(pc'[x]) /\ loc'[x].w = None
  /\ BackendTypes' /\ MlflowTypes' /\ LockMoves(x) /\ faults' >= faults /\ fresh' >= fresh
  /\ UNCHANGED profiles

Kept == {"install_save", "install_failed", "install_forget", "upgrade_read", "apply_token",
         "apply_storage", "apply_gateway", "apply_deployment", "apply_wait", "apply_done",
         "upgrade_save", "upgrade_failed"}

LEMMA HoldsThere ==
  ASSUME NEW x
  PROVE  /\ MlflowPlace(pc[x]) => (Holds(x) <=> pc[x] \in Kept)
         /\ MlflowPlace(pc'[x]) => (Holds(x)' <=> pc'[x] \in Kept)
BY DEF Holds, MlflowPlace, MlflowLabels, Kept

LEMMA MlflowBeginMoves ==
  ASSUME TypeOK, NEW x \in Procs, MlflowBegin(x) PROVE MlflowMoves(x)
<1>1. ASSUME InstallMlflow(x)
      PROVE  To(x, "install_save") /\ UNCHANGED mlflow
  <2>1. PICK p \in Profiles : Goto(x, "install_save", [NoLocal EXCEPT !.p = p, !.storage = <<p, profiles[p].v>>])
    BY <1>1 DEF InstallMlflow
  <2>2. <<p, profiles[p].v>> \in Settings
    BY DEF TypeOK, BackendTypes, ProfileRow, Settings
  <2>3. \A s \in Settings : /\ [NoLocal EXCEPT !.p = p, !.storage = s] \in Local
                            /\ [NoLocal EXCEPT !.p = p, !.storage = s].w = None
                            /\ Fits("install_save", [NoLocal EXCEPT !.p = p, !.storage = s])
    BY Nothing DEF NoLocal, Local, Fits, OnProfile, OnCredential, OnWorkload, SpaceLabels, FlowLabels
  <2> QED
    BY <1>1, <2>1, <2>2, <2>3 DEF To, InstallMlflow
<1>2. ASSUME UninstallMlflow(x)
      PROVE  To(x, "delete_deployment") /\ mlflow' \in MlflowRow \cup {None} /\ UNCHANGED installing
  <2>1. Goto(x, "delete_deployment", NoLocal)
    BY <1>2 DEF UninstallMlflow
  <2>2. NoLocal.w = None /\ Fits("delete_deployment", NoLocal)
    BY Nothing DEF NoLocal, Local, Fits, OnProfile, OnCredential, OnWorkload, SpaceLabels, FlowLabels
  <2> QED
    BY <1>2, <2>1, <2>2, Nothing DEF To, UninstallMlflow, SetStatus, MlflowRow, TypeOK, BackendTypes
<1>3. ASSUME UpgradeRequest(x)
      PROVE  To(x, "upgrade") /\ UNCHANGED <<mlflow, installing>>
  <2>1. Goto(x, "upgrade", [NoLocal EXCEPT !.up = TRUE])
    BY <1>3 DEF UpgradeRequest
  <2>2. /\ [NoLocal EXCEPT !.up = TRUE] \in Local /\ [NoLocal EXCEPT !.up = TRUE].w = None
        /\ Fits("upgrade", [NoLocal EXCEPT !.up = TRUE])
    BY Nothing DEF NoLocal, Local, Fits, OnProfile, OnCredential, OnWorkload, SpaceLabels, FlowLabels
  <2> QED
    BY <1>3, <2>1, <2>2 DEF To, UpgradeRequest
<1>4. /\ \E op : Begin(x, op)
      /\ UNCHANGED <<storage, gateway, deployment, pod, profiles>>
  BY DEF MlflowBegin, InstallMlflow, UninstallMlflow, UpgradeRequest, Cluster
<1>5. /\ pc[x] = "idle" /\ sent' \in Nat /\ UNCHANGED <<faults, fresh>>
      /\ faults' \in Nat /\ fresh' \in Nat /\ faults' >= faults /\ fresh' >= fresh
  BY <1>4, Beginning DEF TypeOK, BackendTypes
<1>6. ASSUME NEW label \in {"install_save", "delete_deployment", "upgrade"}, To(x, label)
      PROVE  Handlers' /\ Others(x) /\ pc'[x] = label /\ loc'[x].w = None
  BY <1>6, Arrived DEF TypeOK, Labels, MlflowLabels
<1>7. mlflow' \in MlflowRow \cup {None}
  BY <1>1, <1>2, <1>3 DEF MlflowBegin, TypeOK, BackendTypes
<1>8. LockMoves(x) /\ MlflowTypes'
  <2>1. CASE InstallMlflow(x)
    BY <2>1, <1>4 DEF InstallMlflow, MyLock, LockMoves, TypeOK, MlflowTypes
  <2>2. CASE ~InstallMlflow(x)
    <3>1. pc'[x] \in {"delete_deployment", "upgrade"} /\ UNCHANGED installing
      BY <1>2, <1>3, <1>6, <2>2 DEF MlflowBegin
    <3> QED
      BY <3>1, <1>4 DEF LockMoves, Holds, TypeOK, MlflowTypes
  <2> QED
    BY <2>1, <2>2
<1>9. Handlers' /\ Others(x) /\ pc'[x] \in MlflowLabels /\ loc'[x].w = None
  BY <1>1, <1>2, <1>3, <1>6 DEF MlflowBegin, MlflowLabels
<1> QED
  BY <1>4, <1>5, <1>7, <1>8, <1>9 DEF MlflowMoves, MlflowPlace, TypeOK, BackendTypes

(* Nobody at work on MLflow has a workspace, unless an upgrade has failed.  *)
LEMMA Onward ==
  ASSUME TypeOK, NEW x \in Procs, pc[x] \in MlflowLabels \ {"upgrade_failed"},
         NEW label \in MlflowLabels \ {"install_save"}, NEW t \in Nat, NEW s \in Settings
  PROVE  /\ Goto(x, label, loc[x]) => To(x, label)
         /\ Goto(x, label, [loc[x] EXCEPT !.tok = t]) => To(x, label)
         /\ Goto(x, label, [loc[x] EXCEPT !.storage = s]) => To(x, label)
<1> DEFINE l == loc[x]
<1>1. /\ l \in Local /\ l.w = None /\ l.wf = None
      /\ l.c = None
  BY DEF TypeOK, Handlers, Fits, OnWorkload, OnCredential, SpaceLabels, FlowLabels, MlflowLabels
<1>2. \A m \in Local : m.w = None /\ m.wf = None /\ m.c = None => Fits(label, m)
  BY DEF Fits, OnProfile, OnCredential, OnWorkload, SpaceLabels, FlowLabels, MlflowLabels
<1>3. [l EXCEPT !.tok = t] \in Local /\ [l EXCEPT !.storage = s] \in Local
  BY <1>1 DEF Local
<1>4. /\ [l EXCEPT !.tok = t].w = None /\ [l EXCEPT !.tok = t].wf = None /\ [l EXCEPT !.tok = t].c = None
      /\ [l EXCEPT !.storage = s].w = None /\ [l EXCEPT !.storage = s].wf = None /\ [l EXCEPT !.storage = s].c = None
  BY <1>1 DEF Local
<1> QED
  BY <1>1, <1>2, <1>3, <1>4 DEF To

(* Where a step on MLflow goes, and what it does to the lock.               *)
MlflowGoes(x) ==
  /\ pc[x] \in MlflowLabels
  /\ \E label \in MlflowLabels \cup {"idle"} :
       /\ To(x, label)
       /\ \/ installing' = installing /\ (label \in Kept => pc[x] \in Kept)
          \/ BackendOf[x] \notin installing /\ installing' = installing \cup {BackendOf[x]}
          \/ pc[x] \in Kept /\ label = "idle" /\ installing' = installing \ {BackendOf[x]}

LEMMA MlflowStepGoes ==
  ASSUME TypeOK, NEW x \in Procs, MlflowStep(x) PROVE MlflowGoes(x)
<1> DEFINE l == loc[x]
<1>0. l.tok \in Nat /\ l.storage \in Settings /\ fresh \in Nat
      /\ (gateway # None => gateway \in Nat) /\ storage \in Settings
  BY DEF TypeOK, Handlers, Local, BackendTypes, MlflowTypes, Token
<1>1. \A label \in MlflowLabels \ {"install_save"} : pc[x] \in MlflowLabels \ {"upgrade_failed"} =>
        /\ Goto(x, label, l) => To(x, label)
        /\ \A t \in Nat : Goto(x, label, [l EXCEPT !.tok = t]) => To(x, label)
        /\ \A s \in Settings : Goto(x, label, [l EXCEPT !.storage = s]) => To(x, label)
  BY <1>0, Onward
<1>2. End(x) => To(x, "idle")
  BY Stopped
<1>3. Goto(x, "idle", l) => To(x, "idle")
  BY <1>2 DEF Goto, End
<1> HIDE DEF l
<1>4. CASE InstallSave(x) \/ InstallDone(x) \/ InstallFailed(x) \/ InstallForget(x)
  BY <1>1, <1>2, <1>4 DEF InstallSave, InstallDone, InstallFailed, InstallForget, At, Release, MyLock, l,
     MlflowGoes, MlflowLabels, Kept
<1>5. CASE ApplyToken(x)
  BY <1>0, <1>1, <1>5 DEF ApplyToken, At, l, MlflowGoes, MlflowLabels, Kept
<1>6. CASE ApplyStorage(x) \/ ApplyGateway(x) \/ ApplyDeployment(x) \/ ApplyWait(x)
  BY <1>1, <1>6 DEF ApplyStorage, ApplyGateway, ApplyDeployment, ApplyWait, ApplyError, Call, At, l,
     MlflowGoes, MlflowLabels, Kept
<1>7. CASE DeleteDeployment(x) \/ DeleteGateway(x) \/ DeleteStorage(x) \/ UninstallRow(x)
  BY <1>1, <1>2, <1>3, <1>7 DEF DeleteDeployment, DeleteGateway, DeleteStorage, UninstallRow, Call, At, l,
     MlflowGoes, MlflowLabels, Kept
<1>8. CASE ReadDeployment(x) \/ ReadGateway(x)
  <2>1. /\ pc[x] \in {"read_deployment", "read_gateway"} /\ installing' = installing
        /\ End(x) \/ Goto(x, "upgrade", l) \/ Goto(x, "read_gateway", l)
    BY <1>8 DEF ReadDeployment, ReadGateway, At, l
  <2> QED
    BY <1>1, <1>2, <2>1 DEF MlflowGoes, MlflowLabels, Kept
<1>9. CASE Upgrade(x) \/ UpgradeRead(x)
  BY <1>0, <1>1, <1>2, <1>9 DEF Upgrade, UpgradeRead, MyLock, At, l, MlflowGoes, MlflowLabels, Kept
<1>10. CASE UpgradeDone(x) \/ UpgradeFailed(x)
  BY <1>2, <1>10 DEF UpgradeDone, UpgradeFailed, Release, MyLock, At, MlflowGoes, MlflowLabels, Kept
<1> QED
  BY <1>4, <1>5, <1>6, <1>7, <1>8, <1>9, <1>10 DEF MlflowStep

LEMMA MlflowStepTypes ==
  ASSUME TypeOK, NEW x \in Procs, MlflowStep(x)
  PROVE  /\ mlflow' \in MlflowRow \cup {None} /\ UNCHANGED <<profiles, sent, ops>>
         /\ storage' \in Settings /\ gateway' \in Token
         /\ deployment' # None => deployment' \in [gw : Token]
         /\ pod' = pod /\ fresh' \in {fresh, fresh + 1} /\ faults' \in {faults, faults + 1}
<1>0. /\ loc[x].tok \in Nat /\ loc[x].storage \in Settings /\ storage \in Settings /\ gateway \in Token
      /\ deployment # None => deployment \in [gw : Token]
      /\ mlflow \in MlflowRow \cup {None} /\ (pc[x] = "install_save" => loc[x].p \in Profiles)
  BY DEF TypeOK, Handlers, Local, BackendTypes, MlflowTypes, Fits, OnProfile
<1>1. \A status \in {"ready", "failed", "deleting", "upgrading", "creating"} :
        /\ mlflow # None => [mlflow EXCEPT !.status = status] \in MlflowRow
        /\ loc[x].p \in Profiles => [profile |-> loc[x].p, status |-> status] \in MlflowRow
  BY <1>0 DEF MlflowRow
<1>2. CASE InstallSave(x) \/ InstallDone(x) \/ InstallFailed(x) \/ InstallForget(x)
  BY <1>0, <1>1, <1>2 DEF InstallSave, InstallDone, InstallFailed, InstallForget, At, SetStatus, Quiet, Cluster
<1>3. CASE ApplyToken(x)
  BY <1>0, <1>3 DEF ApplyToken, Quiet, Cluster, Draw
<1>4. CASE ApplyStorage(x) \/ ApplyGateway(x)
  BY <1>0, <1>4 DEF ApplyStorage, ApplyGateway, Call, Token
<1>5. CASE ApplyDeployment(x)
  BY <1>0, <1>5 DEF ApplyDeployment, Call, Token
<1>6. CASE ApplyWait(x)
  BY <1>0, <1>6 DEF ApplyWait, Cluster
<1>7. CASE DeleteDeployment(x) \/ DeleteGateway(x) \/ DeleteStorage(x) \/ UninstallRow(x)
  BY <1>0, <1>7 DEF DeleteDeployment, DeleteGateway, DeleteStorage, UninstallRow, Call, Quiet, Cluster, Token, Settings
<1>8. CASE ReadDeployment(x) \/ ReadGateway(x) \/ Upgrade(x) \/ UpgradeRead(x) \/ UpgradeDone(x) \/ UpgradeFailed(x)
  BY <1>0, <1>1, <1>8 DEF ReadDeployment, ReadGateway, Upgrade, UpgradeRead, UpgradeDone, UpgradeFailed,
     SetStatus, Quiet, Cluster
<1> QED
  BY <1>2, <1>3, <1>4, <1>5, <1>6, <1>7, <1>8 DEF MlflowStep

LEMMA MlflowStepMoves ==
  ASSUME TypeOK, NEW x \in Procs, MlflowStep(x) PROVE MlflowMoves(x)
<1>1. PICK label \in MlflowLabels \cup {"idle"} :
       /\ To(x, label)
       /\ \/ installing' = installing /\ (label \in Kept => pc[x] \in Kept)
          \/ BackendOf[x] \notin installing /\ installing' = installing \cup {BackendOf[x]}
          \/ pc[x] \in Kept /\ label = "idle" /\ installing' = installing \ {BackendOf[x]}
  BY MlflowStepGoes DEF MlflowGoes
<1>2. pc[x] \in MlflowLabels /\ label \in Labels
  BY MlflowStepGoes DEF MlflowGoes, Labels
<1>3. Handlers' /\ Others(x) /\ pc'[x] = label /\ loc'[x].w = None
  BY <1>1, <1>2, Arrived DEF TypeOK
<1>4. MlflowPlace(pc[x]) /\ MlflowPlace(pc'[x])
  BY <1>1, <1>2, <1>3 DEF MlflowPlace
<1>5. (Holds(x) <=> pc[x] \in Kept) /\ (Holds(x)' <=> pc'[x] \in Kept) /\ "idle" \notin Kept
  BY <1>4, HoldsThere DEF Kept
<1>6. LockMoves(x)
  BY <1>1, <1>3, <1>5 DEF LockMoves
<1>7. installing' \in SUBSET {BackendOf[y] : y \in Procs}
  BY <1>1 DEF TypeOK, MlflowTypes
<1>8. /\ faults' \in Nat /\ faults' >= faults /\ fresh' \in Nat /\ fresh' >= fresh
  BY MlflowStepTypes DEF TypeOK, BackendTypes
<1>9. BackendTypes'
  BY <1>8, MlflowStepTypes DEF TypeOK, BackendTypes
<1>10. MlflowTypes'
  BY <1>7, MlflowStepTypes DEF TypeOK, MlflowTypes
<1> QED
  BY <1>3, <1>4, <1>6, <1>8, <1>9, <1>10, MlflowStepTypes DEF MlflowMoves

(* The task begins.                                                         *)
LEMMA ReconcileMoves ==
  ASSUME TypeOK, NEW x \in Procs, Reconcile(x) PROVE MlflowMoves(x)
<1>1. PICK label \in {"upgrade", "read_deployment"} : Goto(x, label, [NoLocal EXCEPT !.up = TRUE])
  BY DEF Reconcile
<1>2. /\ [NoLocal EXCEPT !.up = TRUE] \in Local /\ [NoLocal EXCEPT !.up = TRUE].w = None
      /\ Fits(label, [NoLocal EXCEPT !.up = TRUE])
  BY Nothing DEF NoLocal, Local, Fits, OnProfile, OnCredential, OnWorkload, SpaceLabels, FlowLabels
<1>3. To(x, label)
  BY <1>1, <1>2 DEF To
<1>4. Handlers' /\ Others(x) /\ pc'[x] = label /\ loc'[x].w = None
  BY <1>3, Arrived DEF TypeOK, Labels, MlflowLabels
<1>5. MlflowPlace(pc[x]) /\ MlflowPlace(pc'[x]) /\ pc'[x] \notin Kept
  BY <1>4 DEF Reconcile, At, MlflowPlace, MlflowLabels, Kept
<1>6. UNCHANGED <<profiles, mlflow, fresh, sent, faults, mlflowVars>>
  BY DEF Reconcile, Quiet, Cluster, mlflowVars
<1>7. LockMoves(x)
  BY <1>5, <1>6, HoldsThere DEF LockMoves, mlflowVars
<1> QED
  BY <1>4, <1>5, <1>6, <1>7 DEF MlflowMoves, TypeOK, BackendTypes, MlflowTypes, mlflowVars

LEMMA PodMoves ==
  ASSUME TypeOK, PodStarts \/ PodStops
  PROVE  MlflowTypes' /\ UNCHANGED <<profiles, mlflow, fresh, sent, faults, pc, loc, installing>>
<1>1. UNCHANGED <<profiles, mlflow, fresh, sent, faults, pc, loc, installing, storage, gateway, deployment>>
  BY DEF PodStarts, PodStops, Quiet, Stay
<1>2. pod' # None => pod' \in [gw : Token, token : Token, storage : Settings]
  BY DEF PodStarts, PodStops, TypeOK, MlflowTypes, Token
<1> QED
  BY <1>1, <1>2 DEF TypeOK, MlflowTypes

-----------------------------------------------------------------------------
(* Workspaces                                                               *)

SpacePlace(label) == label \in SpaceLabels \cup {"idle", "apply_done", "upgrade_failed", "upgrade_save"}
SpaceMoves(x) ==
  /\ Handlers' /\ Others(x) /\ SpacePlace(pc[x]) /\ SpacePlace(pc'[x])
  /\ Holds(x)' => Holds(x)
  /\ BackendTypes' /\ WorkspaceTypes' /\ faults' >= faults /\ fresh' >= fresh
  /\ UNCHANGED <<profiles, mlflow>>

(* Where a step on a workspace goes: to hold the lock only if it does so.   *)
SpaceGoes(x) ==
  \E label \in SpaceLabels \cup {"idle", "upgrade_failed", "upgrade_save"}, l \in Local :
    /\ label = "idle" \/ Fits(label, l)
    /\ Goto(x, label, l)
    /\ \/ label \in {"upgrade_failed", "upgrade_save"}
       \/ l.up /\ label \in {"enable", "enable_patch", "enable_set"}
       => Holds(x)

LEMMA SpaceGone ==
  ASSUME TypeOK, NEW x \in Procs, SpacePlace(pc[x]), SpaceGoes(x)
  PROVE  Handlers' /\ Others(x) /\ SpacePlace(pc'[x]) /\ (Holds(x)' => Holds(x))
<1>1. PICK label \in SpaceLabels \cup {"idle", "upgrade_failed", "upgrade_save"}, l \in Local :
        /\ label = "idle" \/ Fits(label, l)
        /\ Goto(x, label, l)
        /\ \/ label \in {"upgrade_failed", "upgrade_save"}
           \/ l.up /\ label \in {"enable", "enable_patch", "enable_set"}
           => Holds(x)
  BY DEF SpaceGoes
<1>2. label \in Labels
  BY DEF Labels, SpaceLabels, MlflowLabels
<1>3. Handlers' /\ Others(x) /\ pc'[x] = label /\ loc'[x] = IF label = "idle" THEN NoLocal ELSE l
  BY <1>1, <1>2, Going DEF TypeOK
<1>4. Holds(x)' => \/ label \in {"upgrade_failed", "upgrade_save"}
                   \/ l.up /\ label \in {"enable", "enable_patch", "enable_set"}
  BY <1>3 DEF Holds, SpaceLabels
<1> QED
  BY <1>1, <1>3, <1>4 DEF SpacePlace

LEMMA FitsSpace ==
  \A label \in SpaceLabels \cup {"upgrade_failed", "upgrade_save"}, m \in Local :
    /\ m.c = None /\ m.wf = None /\ m.todo \subseteq Workloads
    /\ label \in OnWorkload => m.w \in Workloads
    /\ label \in {"enable", "upgrade_save"} => m.w = None
    => Fits(label, m)
BY DEF Fits, OnProfile, OnCredential, OnWorkload, SpaceLabels, FlowLabels

LEMMA SpaceLocal ==
  ASSUME TypeOK, NEW x \in Procs, pc[x] \in SpaceLabels \cup {"apply_done"}
  PROVE  /\ loc[x] \in Local /\ loc[x].c = None /\ loc[x].wf = None
         /\ pc[x] \in SpaceLabels => loc[x].todo \subseteq Workloads
         /\ pc[x] \in OnWorkload => loc[x].w \in Workloads
         /\ pc[x] \notin OnWorkload => loc[x].w = None
BY DEF TypeOK, Handlers, Fits, OnCredential, OnWorkload, SpaceLabels, FlowLabels

LEMMA SpaceBeginGoes ==
  ASSUME TypeOK, NEW x \in Procs, WorkspaceBegin(x) PROVE SpaceGoes(x)
<1>1. ASSUME CreateCodeServer(x) \/ DeleteCodeServer(x) PROVE SpaceGoes(x)
  <2>1. PICK w \in Workloads, label \in {"workspace_secret", "drop_set"} : Goto(x, label, [NoLocal EXCEPT !.w = w])
    BY <1>1 DEF CreateCodeServer, DeleteCodeServer, TypeOK, WorkspaceTypes
  <2>2. /\ [NoLocal EXCEPT !.w = w] \in Local
        /\ Fits(label, [NoLocal EXCEPT !.w = w])
    BY Nothing DEF NoLocal, Local, Fits, OnProfile, OnCredential, OnWorkload, SpaceLabels, FlowLabels
  <2> QED
    BY <2>1, <2>2 DEF SpaceGoes, SpaceLabels
<1>2. ASSUME UpgradeWorkspaces(x) PROVE SpaceGoes(x)
  <2> DEFINE l == List(NoLocal, {"argo"})
  <2>1. Goto(x, "enable", l)
    BY <1>2 DEF UpgradeWorkspaces
  <2>2. l \in Local /\ Fits("enable", l) /\ ~l.up
    BY Nothing DEF List, Keys, NoLocal, Local, Fits, OnProfile, OnCredential, OnWorkload, SpaceLabels, FlowLabels,
       TypeOK, WorkspaceTypes
  <2> HIDE DEF l
  <2> QED
    BY <2>1, <2>2 DEF SpaceGoes, SpaceLabels
<1> QED
  BY <1>1, <1>2 DEF WorkspaceBegin

LEMMA SpaceStepGoes ==
  ASSUME TypeOK, NEW x \in Procs, WorkspaceStep(x)
  PROVE  SpaceGoes(x) /\ pc[x] \in SpaceLabels \cup {"apply_done"}
<1> DEFINE l == loc[x]
<1>1. End(x) => SpaceGoes(x)
  BY Nothing DEF SpaceGoes, End
<1>2. Goto(x, "idle", l) => SpaceGoes(x)
  BY <1>1 DEF End, Goto
<1>3. ASSUME NEW label \in SpaceLabels \ {"enable", "enable_patch", "enable_set"}, pc[x] \in OnWorkload,
             Goto(x, label, l)
      PROVE  SpaceGoes(x)
  <2>1. pc[x] \in SpaceLabels
    BY <1>3 DEF OnWorkload
  <2>2. l \in Local /\ Fits(label, l)
    <3>1. l \in Local /\ l.c = None /\ l.wf = None /\ l.todo \subseteq Workloads /\ l.w \in Workloads
      BY <1>3, <2>1, SpaceLocal
    <3> QED
      BY <1>3, <3>1, FitsSpace DEF SpaceLabels
  <2>3. label \notin {"upgrade_failed", "upgrade_save"}
    BY <1>3 DEF SpaceLabels
  <2> QED
    BY <1>3, <2>2, <2>3 DEF SpaceGoes
<1>4. CASE ApplyTokens(x) \/ ApplyStatefulSet(x) \/ ApplyService(x) \/ InsertWorkspace(x)
  BY <1>1, <1>2, <1>3, <1>4 DEF ApplyTokens, ApplyStatefulSet, ApplyService, InsertWorkspace, Applying, Call,
     At, l, SpaceLabels, OnWorkload
<1>5. CASE DropStatefulSet(x) \/ DropTokens(x) \/ DropRow(x)
  BY <1>1, <1>2, <1>3, <1>5 DEF DropStatefulSet, DropTokens, DropRow, Call, At, l, SpaceLabels, OnWorkload
<1>6. CASE EnableTracking(x)
  <2> DEFINE m == List(l, {"tracking"})
  <2>1. pc[x] = "apply_done" /\ Goto(x, "enable", m)
    BY <1>6 DEF EnableTracking, At
  <2>2. l \in Local /\ l.c = None /\ l.wf = None /\ l.w = None /\ rowOf \in SUBSET Workloads
    BY <2>1, SpaceLocal DEF OnWorkload, SpaceLabels, TypeOK, WorkspaceTypes
  <2>3. m \in Local /\ m.c = None /\ m.wf = None /\ m.w = None /\ m.todo \subseteq Workloads
    BY <2>2 DEF List, Keys, Local
  <2>4. Fits("enable", m)
    BY <2>3, FitsSpace DEF SpaceLabels, OnWorkload
  <2>5. Holds(x)
    BY <2>1 DEF Holds
  <2> HIDE DEF m
  <2> QED
    BY <2>1, <2>3, <2>4, <2>5 DEF SpaceGoes, SpaceLabels
<1>7. ASSUME pc[x] \in {"enable", "enable_patch", "enable_set"}, NEW m \in Local,
             m.c = None, m.wf = None, m.todo \subseteq Workloads, m.up = l.up
      PROVE  /\ m.w \in Workloads => /\ Goto(x, "enable_set", m) => SpaceGoes(x)
                                     /\ Goto(x, "enable_patch", m) => SpaceGoes(x)
             /\ m.w = None => /\ Goto(x, "enable", m) => SpaceGoes(x)
                              /\ l.up /\ Goto(x, "upgrade_save", m) => SpaceGoes(x)
             /\ Goto(x, EnableFailed(x), m) => SpaceGoes(x)
  <2>1. l.up => Holds(x)
    BY <1>7 DEF Holds
  <2>2. /\ m.w \in Workloads => Fits("enable_set", m) /\ Fits("enable_patch", m)
        /\ m.w = None => Fits("enable", m) /\ Fits("upgrade_save", m)
        /\ Fits("upgrade_failed", m)
    BY <1>7, FitsSpace DEF SpaceLabels, OnWorkload
  <2>3. EnableFailed(x) = (IF l.up THEN "upgrade_failed" ELSE "idle")
    BY DEF EnableFailed
  <2> HIDE DEF l
  <2> QED
    BY <1>7, <2>1, <2>2, <2>3 DEF SpaceGoes, SpaceLabels
<1>8. CASE EnableDone(x)
  <2>1. pc[x] = "enable" /\ (Goto(x, "idle", l) \/ (l.up /\ Goto(x, "upgrade_save", l)))
    BY <1>8 DEF EnableDone, At
  <2>2. l \in Local /\ l.c = None /\ l.wf = None /\ l.todo \subseteq Workloads /\ l.w = None
    BY <2>1, SpaceLocal DEF SpaceLabels, OnWorkload
  <2> QED
    BY <1>2, <1>7, <2>1, <2>2 DEF SpaceLabels
<1>9. CASE EnableRead(x)
  <2>1. pc[x] = "enable"
    BY <1>9 DEF EnableRead, At
  <2>2. l \in Local /\ l.c = None /\ l.wf = None /\ l.todo \subseteq Workloads /\ l.w = None
    BY <2>1, SpaceLocal DEF SpaceLabels, OnWorkload
  <2>3. PICK w \in l.todo, missing \in SUBSET Keys :
          \/ Goto(x, EnableFailed(x), l)
          \/ Goto(x, "enable_set", [l EXCEPT !.todo = @ \ {w}, !.w = w, !.missing = missing])
          \/ Goto(x, "enable_patch", [l EXCEPT !.todo = @ \ {w}, !.w = w, !.missing = missing])
    <3>1. l.keys \in SUBSET Keys
      BY <2>2 DEF Local
    <3> QED
      BY <1>9, <3>1 DEF EnableRead
  <2> DEFINE m == [l EXCEPT !.todo = @ \ {w}, !.w = w, !.missing = missing]
  <2>4. m \in Local /\ m.c = None /\ m.wf = None /\ m.todo \subseteq Workloads /\ m.w \in Workloads /\ m.up = l.up
    BY <2>2 DEF Local
  <2> HIDE DEF m, l
  <2>5. \/ Goto(x, EnableFailed(x), l) \/ Goto(x, "enable_set", m) \/ Goto(x, "enable_patch", m)
    BY <2>3 DEF m
  <2> QED
    BY <1>7, <2>1, <2>2, <2>4, <2>5 DEF SpaceLabels
<1>10. CASE EnablePatch(x)
  <2>1. pc[x] = "enable_patch" /\ (Goto(x, EnableFailed(x), l) \/ Goto(x, "enable_set", l))
    BY <1>10 DEF EnablePatch, At, Refused, Call
  <2>2. l \in Local /\ l.c = None /\ l.wf = None /\ l.todo \subseteq Workloads /\ l.w \in Workloads
    BY <2>1, SpaceLocal DEF SpaceLabels, OnWorkload
  <2> QED
    BY <1>7, <2>1, <2>2 DEF SpaceLabels
<1>11. CASE EnableStatefulSet(x)
  <2>1. pc[x] = "enable_set" /\ (\/ Goto(x, EnableFailed(x), l)
                                 \/ Goto(x, EnableFailed(x), [l EXCEPT !.w = None])
                                 \/ Goto(x, "enable", [l EXCEPT !.w = None]))
    BY <1>11 DEF EnableStatefulSet, At, Refused, Call
  <2>2. l \in Local /\ l.c = None /\ l.wf = None /\ l.todo \subseteq Workloads
    BY <2>1, SpaceLocal DEF SpaceLabels, OnWorkload
  <2> DEFINE m == [l EXCEPT !.w = None]
  <2> HIDE DEF l
  <2>3. m \in Local /\ m.c = None /\ m.wf = None /\ m.todo \subseteq Workloads /\ m.w = None /\ m.up = l.up
    <3>1. m \in Local
      BY ONLY <2>2 DEF Local
    <3>2. m.c = l.c /\ m.wf = l.wf /\ m.todo = l.todo /\ m.w = None /\ m.up = l.up
      BY ONLY <2>2 DEF Local
    <3> QED
      BY <2>2, <3>1, <3>2
  <2> HIDE DEF m
  <2>4. \/ Goto(x, EnableFailed(x), l) \/ Goto(x, EnableFailed(x), m) \/ Goto(x, "enable", m)
    BY <2>1 DEF m
  <2> QED
    BY <1>7, <2>1, <2>2, <2>3, <2>4 DEF SpaceLabels
<1>12. pc[x] \in SpaceLabels \cup {"apply_done"}
  BY Zenon DEF WorkspaceStep, ApplyTokens, ApplyStatefulSet, ApplyService, InsertWorkspace, DropStatefulSet,
     DropTokens, DropRow, EnableTracking, EnableDone, EnableRead, EnablePatch, EnableStatefulSet, At, SpaceLabels
<1> QED
  BY <1>4, <1>5, <1>6, <1>8, <1>9, <1>10, <1>11, <1>12 DEF WorkspaceStep

(* What a workspace's Secret, StatefulSet and history become.               *)
LEMMA Calming ==
  ASSUME calm \in [Workloads -> BOOLEAN], NEW w \in Workloads
  PROVE  /\ Enters(w) => calm' \in [Workloads -> BOOLEAN]
         /\ \A x \in Procs : loc[x].w = w /\ Undone(x) => calm' \in [Workloads -> BOOLEAN]
<1>1. (calm[w] /\ ~Busy(w)) \in BOOLEAN
  OBVIOUS
<1>2. \A b \in BOOLEAN : [calm EXCEPT ![w] = b] \in [Workloads -> BOOLEAN]
  OBVIOUS
<1>3. Enters(w) => calm' = [calm EXCEPT ![w] = calm[w] /\ ~Busy(w)]
  BY DEF Enters
<1>4. \A x \in Procs : loc[x].w = w /\ Undone(x) => calm' = [calm EXCEPT ![w] = FALSE]
  BY DEF Undone
<1> QED
  BY <1>1, <1>2, <1>3, <1>4

LEMMA SpaceBeginTypes ==
  ASSUME TypeOK, NEW x \in Procs, WorkspaceBegin(x)
  PROVE  WorkspaceTypes' /\ UNCHANGED <<profiles, mlflow>> /\ \E op : Begin(x, op)
<1>1. UNCHANGED <<rowOf, tokens, sts, wpod, profiles, mlflow>> /\ \E op : Begin(x, op)
  BY DEF WorkspaceBegin, CreateCodeServer, DeleteCodeServer, UpgradeWorkspaces, WObjects, WTables
<1>2. (\E w \in Workloads : Enters(w)) \/ calm' = calm
  BY DEF WorkspaceBegin, CreateCodeServer, DeleteCodeServer, UpgradeWorkspaces, TypeOK, WorkspaceTypes
<1>3. calm' \in [Workloads -> BOOLEAN]
  BY <1>2, Calming DEF TypeOK, WorkspaceTypes
<1> QED
  BY <1>1, <1>3 DEF TypeOK, WorkspaceTypes

LEMMA SpaceStepTypes ==
  ASSUME TypeOK, NEW x \in Procs, WorkspaceStep(x)
  PROVE  /\ WorkspaceTypes' /\ UNCHANGED <<profiles, mlflow, sent, ops>>
         /\ fresh' \in {fresh, fresh + 1} /\ faults' \in {faults, faults + 1}
<1> DEFINE w == loc[x].w
<1>0. /\ pc[x] \in OnWorkload => w \in Workloads
      /\ pc[x] \in SpaceLabels => loc[x].todo \subseteq Workloads
      /\ loc[x].missing \in SUBSET Keys /\ loc[x].keys \in SUBSET Keys
  BY SpaceLocal DEF OnWorkload, TypeOK, Handlers, Local
<1>1. /\ UNCHANGED <<profiles, mlflow, sent, ops>> /\ wpod' = wpod
      /\ fresh' \in {fresh, fresh + 1} /\ faults' \in {faults, faults + 1}
  BY Zenon DEF WorkspaceStep, ApplyTokens, ApplyStatefulSet, ApplyService, InsertWorkspace, DropStatefulSet, DropTokens,
     DropRow, EnableTracking, EnableDone, EnableRead, EnablePatch, EnableStatefulSet, Applying, Call, Refused, Quiet,
     WTables, WObjects, Draw
<1>2. fresh \in Nat /\ rowOf \in SUBSET Workloads /\ tokens \in [Workloads -> [Keys -> Token] \cup {None}]
      /\ sts \in [Workloads -> [uid : Nat, env : SUBSET Keys] \cup {None}] /\ calm \in [Workloads -> BOOLEAN]
  BY DEF TypeOK, BackendTypes, WorkspaceTypes
<1>3. ASSUME Undone(x), w \in Workloads PROVE calm' \in [Workloads -> BOOLEAN]
  BY <1>2, <1>3, Calming
<1>4. calm' \in [Workloads -> BOOLEAN]
  <2>1. CASE ApplyTokens(x) \/ ApplyStatefulSet(x) \/ ApplyService(x) \/ InsertWorkspace(x)
    <3>1. (calm' = calm \/ Undone(x)) /\ pc[x] \in OnWorkload
      BY <2>1 DEF ApplyTokens, ApplyStatefulSet, ApplyService, InsertWorkspace, Applying, At, OnWorkload, SpaceLabels
    <3> QED
      BY <1>0, <1>2, <1>3, <3>1
  <2>2. CASE EnableRead(x)
    <3>1. PICK v \in loc[x].todo : Enters(v)
      BY <2>2 DEF EnableRead
    <3>2. v \in Workloads
      BY <1>0, <2>2, <3>1 DEF EnableRead, At, SpaceLabels
    <3> QED
      BY <1>2, <3>1, <3>2, Calming
  <2>3. CASE \/ DropStatefulSet(x) \/ DropTokens(x) \/ DropRow(x)
             \/ EnableTracking(x) \/ EnableDone(x) \/ EnablePatch(x) \/ EnableStatefulSet(x)
    BY <1>2, <2>3 DEF DropStatefulSet, DropTokens, DropRow, EnableTracking, EnableDone, EnablePatch, EnableStatefulSet
  <2> QED
    BY <2>1, <2>2, <2>3 DEF WorkspaceStep
<1>5. tokens' \in [Workloads -> [Keys -> Token] \cup {None}]
  <2>1. ASSUME NEW t \in [Keys -> Token] \cup {None}, w \in Workloads
        PROVE  [tokens EXCEPT ![w] = t] \in [Workloads -> [Keys -> Token] \cup {None}]
    BY <1>2, <2>1
  <2>2. CASE ApplyTokens(x)
    <3>1. [k \in Keys |-> fresh] \in [Keys -> Token]
      BY <1>2 DEF Token
    <3>2. pc[x] \in OnWorkload /\ (tokens' = tokens \/ tokens' = [tokens EXCEPT ![w] = [k \in Keys |-> fresh]])
      BY <2>2 DEF ApplyTokens, Applying, Call, At, OnWorkload, SpaceLabels
    <3> QED
      BY <1>0, <1>2, <2>1, <3>1, <3>2
  <2>3. CASE DropTokens(x)
    <3>1. pc[x] \in OnWorkload /\ (tokens' = tokens \/ tokens' = [tokens EXCEPT ![w] = None])
      BY <2>3 DEF DropTokens, Call, At, OnWorkload, SpaceLabels
    <3> QED
      BY <1>0, <1>2, <2>1, <3>1
  <2>4. CASE EnablePatch(x)
    <3> DEFINE t == [k \in Keys |-> IF k \in loc[x].missing THEN fresh ELSE tokens[w][k]]
    <3>1. pc[x] \in OnWorkload /\ (tokens' = tokens \/ (tokens[w] # None /\ tokens' = [tokens EXCEPT ![w] = t]))
      BY <2>4 DEF EnablePatch, Call, Refused, At, OnWorkload, SpaceLabels
    <3>2. tokens[w] # None /\ w \in Workloads => t \in [Keys -> Token]
      <4>1. fresh \in Token
        BY <1>2 DEF Token
      <4>2. PICK v : v = tokens[w]
        OBVIOUS
      <4>3. v # None /\ w \in Workloads => v \in [Keys -> Token]
        BY <1>2, <4>2
      <4>4. v \in [Keys -> Token] => [k \in Keys |-> IF k \in loc[x].missing THEN fresh ELSE v[k]] \in [Keys -> Token]
        BY ONLY <4>1, SMTT(30)
      <4> QED
        BY <4>2, <4>3, <4>4
    <3> HIDE DEF t
    <3> QED
      BY <1>0, <1>2, <2>1, <3>1, <3>2
  <2>5. CASE \/ ApplyStatefulSet(x) \/ ApplyService(x) \/ InsertWorkspace(x) \/ DropStatefulSet(x) \/ DropRow(x)
             \/ EnableTracking(x) \/ EnableDone(x) \/ EnableRead(x) \/ EnableStatefulSet(x)
    BY <1>2, <2>5 DEF ApplyStatefulSet, ApplyService, InsertWorkspace, DropStatefulSet, DropRow, EnableTracking,
       EnableDone, EnableRead, EnableStatefulSet, WObjects
  <2> QED
    BY <2>2, <2>3, <2>4, <2>5 DEF WorkspaceStep
<1>6. sts' \in [Workloads -> [uid : Nat, env : SUBSET Keys] \cup {None}]
  <2>1. ASSUME NEW s \in [uid : Nat, env : SUBSET Keys] \cup {None}, w \in Workloads
        PROVE  [sts EXCEPT ![w] = s] \in [Workloads -> [uid : Nat, env : SUBSET Keys] \cup {None}]
    BY <1>2, <2>1
  <2>2. CASE ApplyStatefulSet(x)
    <3> DEFINE s == [uid |-> IF sts[w] = None THEN fresh ELSE sts[w].uid, env |-> Keys]
    <3>1. pc[x] \in OnWorkload /\ (sts' = sts \/ sts' = [sts EXCEPT ![w] = s])
      BY <2>2 DEF ApplyStatefulSet, Applying, Call, At, OnWorkload, SpaceLabels
    <3>2. w \in Workloads => s \in [uid : Nat, env : SUBSET Keys]
      BY <1>2
    <3> HIDE DEF s
    <3> QED
      BY <1>0, <1>2, <2>1, <3>1, <3>2
  <2>3. CASE DropStatefulSet(x)
    <3>1. pc[x] \in OnWorkload /\ (sts' = sts \/ sts' = [sts EXCEPT ![w] = None])
      BY <2>3 DEF DropStatefulSet, Call, At, OnWorkload, SpaceLabels
    <3> QED
      BY <1>0, <1>2, <2>1, <3>1
  <2>4. CASE EnableStatefulSet(x)
    <3> DEFINE s == [sts[w] EXCEPT !.env = @ \cup loc[x].keys]
    <3>1. pc[x] \in OnWorkload /\ (sts' = sts \/ (sts[w] # None /\ sts' = [sts EXCEPT ![w].env = @ \cup loc[x].keys]))
      BY <2>4 DEF EnableStatefulSet, Call, Refused, At, OnWorkload, SpaceLabels
    <3>2. w \in Workloads => [sts EXCEPT ![w].env = @ \cup loc[x].keys] = [sts EXCEPT ![w] = s]
      BY <1>2
    <3>3. sts[w] # None /\ w \in Workloads => s \in [uid : Nat, env : SUBSET Keys]
      <4>1. SUFFICES ASSUME sts[w] \in [uid : Nat, env : SUBSET Keys] PROVE s \in [uid : Nat, env : SUBSET Keys]
        BY <1>2
      <4>2. PICK t : t = sts[w]
        OBVIOUS
      <4>3. PICK keys : keys = loc[x].keys
        OBVIOUS
      <4>4. [t EXCEPT !.env = @ \cup keys] \in [uid : Nat, env : SUBSET Keys]
        BY <1>0, <4>1, <4>2, <4>3
      <4> QED
        BY <4>2, <4>3, <4>4
    <3> HIDE DEF s
    <3> QED
      BY <1>0, <1>2, <2>1, <3>1, <3>2, <3>3
  <2>5. CASE \/ ApplyTokens(x) \/ ApplyService(x) \/ InsertWorkspace(x) \/ DropTokens(x) \/ DropRow(x)
             \/ EnableTracking(x) \/ EnableDone(x) \/ EnableRead(x) \/ EnablePatch(x)
    <3>1. sts' = sts
      BY <2>5, Zenon DEF ApplyTokens, ApplyService, Applying, Call, InsertWorkspace, DropTokens, DropRow,
         EnableTracking, EnableDone, EnableRead, EnablePatch, WObjects
    <3> QED
      BY <1>2, <3>1
  <2> QED
    BY <2>2, <2>3, <2>4, <2>5 DEF WorkspaceStep
<1>7. rowOf' \in SUBSET Workloads
  <2>1. rowOf' = rowOf \/ rowOf' = rowOf \ {w} \/ (pc[x] \in OnWorkload /\ rowOf' = rowOf \cup {w})
    BY Zenon DEF WorkspaceStep, ApplyTokens, ApplyStatefulSet, ApplyService, InsertWorkspace, DropStatefulSet, DropTokens,
       DropRow, EnableTracking, EnableDone, EnableRead, EnablePatch, EnableStatefulSet, Applying, At, OnWorkload, SpaceLabels
  <2> QED
    BY <1>0, <1>2, <2>1
<1> QED
  BY <1>1, <1>4, <1>5, <1>6, <1>7 DEF TypeOK, WorkspaceTypes

LEMMA SpaceHandlerMoves ==
  ASSUME TypeOK, NEW x \in Procs, WorkspaceBegin(x) \/ WorkspaceStep(x) PROVE SpaceMoves(x)
<1>1. CASE WorkspaceBegin(x)
  <2>1. pc[x] = "idle" /\ sent' \in Nat /\ UNCHANGED <<faults, fresh>>
    BY <1>1, SpaceBeginTypes, Beginning DEF TypeOK
  <2>2. SpacePlace(pc[x])
    BY <2>1 DEF SpacePlace
  <2> QED
    BY <1>1, <2>1, <2>2, SpaceBeginGoes, SpaceBeginTypes, SpaceGone DEF SpaceMoves, TypeOK, BackendTypes
<1>2. CASE WorkspaceStep(x)
  <2>1. SpacePlace(pc[x]) /\ SpaceGoes(x)
    BY <1>2, SpaceStepGoes DEF SpacePlace
  <2>2. faults' \in Nat /\ faults' >= faults /\ fresh' \in Nat /\ fresh' >= fresh
    BY <1>2, SpaceStepTypes DEF TypeOK, BackendTypes
  <2> QED
    BY <1>2, <2>1, <2>2, SpaceStepTypes, SpaceGone DEF SpaceMoves, TypeOK, BackendTypes
<1> QED
  BY <1>1, <1>2

LEMMA SpacePodMoves ==
  ASSUME TypeOK, NEW w \in Workloads, WorkspaceStarts(w) \/ WorkspaceStops(w) \/ WorkspaceRestarts(w)
  PROVE  /\ WorkspaceTypes' /\ UNCHANGED <<profiles, mlflow, fresh, sent, pc, loc>>
         /\ faults' \in Nat /\ faults' >= faults
<1>1. /\ UNCHANGED <<profiles, mlflow, fresh, sent, pc, loc, rowOf, tokens, sts, calm>>
      /\ faults' = faults \/ faults' = faults + 1
  BY DEF WorkspaceStarts, WorkspaceStops, WorkspaceRestarts, Quiet, Stay, WTables
<1>2. /\ sts \in [Workloads -> [uid : Nat, env : SUBSET Keys] \cup {None}]
      /\ wpod = [v \in Workloads |-> wpod[v]]
      /\ \A v \in Workloads : wpod[v] # None =>
           wpod[v].uid \in Nat /\ wpod[v].env \in SUBSET Keys /\ DOMAIN wpod[v].token = wpod[v].env
  BY DEF TypeOK, WorkspaceTypes
<1>3. PICK p : /\ wpod' = [wpod EXCEPT ![w] = p]
               /\ p # None => p.uid \in Nat /\ p.env \in SUBSET Keys /\ DOMAIN p.token = p.env
  <2>1. CASE WorkspaceStarts(w)
    <3> DEFINE p == [uid |-> sts[w].uid, env |-> sts[w].env, token |-> [k \in sts[w].env |-> tokens[w][k]]]
    <3>1. wpod' = [wpod EXCEPT ![w] = p] /\ sts[w] # None
      BY <2>1 DEF WorkspaceStarts
    <3>2. p.uid \in Nat /\ p.env \in SUBSET Keys /\ DOMAIN p.token = p.env
      BY <1>2, <3>1
    <3> QED
      BY <3>1, <3>2
  <2>2. CASE WorkspaceStops(w) \/ WorkspaceRestarts(w)
    BY <2>2 DEF WorkspaceStops, WorkspaceRestarts
  <2> QED
    BY <2>1, <2>2
<1>4. /\ wpod' = [v \in Workloads |-> wpod'[v]] /\ wpod'[w] = p
      /\ \A v \in Workloads \ {w} : wpod'[v] = wpod[v]
  BY <1>2, <1>3
<1>5. \A v \in Workloads : wpod'[v] # None =>
        wpod'[v].uid \in Nat /\ wpod'[v].env \in SUBSET Keys /\ DOMAIN wpod'[v].token = wpod'[v].env
  BY <1>2, <1>3, <1>4
<1>6. WorkspaceTypes'
  BY <1>1, <1>4, <1>5 DEF TypeOK, WorkspaceTypes
<1>7. faults' \in Nat /\ faults' >= faults
  BY <1>1 DEF TypeOK, BackendTypes
<1> QED
  BY <1>1, <1>6, <1>7

-----------------------------------------------------------------------------
(* Workflows                                                                *)

FlowPlace(label) == label \in FlowLabels \cup {"idle"}
FlowMoves(x) ==
  /\ Handlers' /\ Others(x) /\ FlowPlace(pc[x]) /\ FlowPlace(pc'[x])
  /\ BackendTypes' /\ WorkflowTypes' /\ faults' >= faults
  /\ UNCHANGED <<profiles, mlflow, fresh>>

Flow == [workflow : {"none", "live", "gone"}, secret : {"none", "free", "owned"},
         told : {"nothing", "accepted", "refused"}]

(* What may be said of a submission, when so many calls have failed.        *)
Honest(f, failures) ==
  /\ f.told = "accepted" => (f.workflow = "live" <=> f.secret = "owned")
  /\ f.told = "refused" /\ f.secret # "none" => failures > 0

(* A step on a submission, by the one who is at work on it.                 *)
FlowGoes(x) ==
  \E new \in Flow :
    /\ flows' = [flows EXCEPT ![loc[x].wf] = new] /\ Honest(new, faults')
    /\ \/ End(x)
       \/ \E label \in FlowLabels \ {"prepare"} :
            /\ Goto(x, label, loc[x]) /\ new.told = "nothing"
            /\ label = "answer" => (new.workflow = "live" <=> new.secret = "owned")

LEMMA FlowStepGoes ==
  ASSUME TypeOK, FlowInv, NEW x \in Procs, WorkflowStep(x)
  PROVE  /\ FlowGoes(x) /\ pc[x] \in FlowLabels /\ loc[x].wf \in Flows
         /\ UNCHANGED <<profiles, mlflow, fresh, sent, ops>> /\ faults' \in Nat /\ faults' >= faults
<1> DEFINE f == loc[x].wf
<1>1. pc[x] \in FlowLabels
  BY DEF WorkflowStep, PrepareSubmission, Send, AttachOwner, Answer, CleanupSecret, At, FlowLabels
<1>2. /\ UNCHANGED <<profiles, mlflow, fresh, sent, ops>>
      /\ faults' = faults \/ faults' = faults + 1
  BY DEF WorkflowStep, PrepareSubmission, Send, AttachOwner, Answer, CleanupSecret, Call, Refused, Quiet, FTables
<1>3. f \in Flows /\ f # None /\ flows \in [Flows -> Flow] /\ flows[f] \in Flow
  BY <1>1 DEF TypeOK, Handlers, Fits, WorkflowTypes, Flow
<1>4. faults \in Nat /\ faults' \in Nat /\ faults' >= faults /\ (faults' = faults + 1 => faults' > 0)
  BY <1>2 DEF TypeOK, BackendTypes
<1>5. /\ flows[f].told = "nothing" /\ (pc[x] = "prepare" => flows[f] = NoFlow)
      /\ pc[x] = "answer" => (flows[f].workflow = "live" <=> flows[f].secret = "owned")
  BY <1>3 DEF FlowInv
<1>6. ASSUME NEW new \in Flow, flows' = [flows EXCEPT ![f] = new], new.told = "nothing"
      PROVE  /\ End(x) => FlowGoes(x)
             /\ Goto(x, "idle", loc[x]) => FlowGoes(x)
             /\ \A label \in FlowLabels \ {"prepare", "answer"} : Goto(x, label, loc[x]) => FlowGoes(x)
             /\ (new.workflow = "live" <=> new.secret = "owned") /\ Goto(x, "answer", loc[x]) => FlowGoes(x)
  <2>1. Honest(new, faults')
    BY <1>6 DEF Honest
  <2>2. Goto(x, "idle", loc[x]) => End(x)
    BY DEF Goto, End
  <2> QED
    BY <1>6, <2>1, <2>2 DEF FlowGoes, FlowLabels
<1>7. flows = [flows EXCEPT ![f] = flows[f]]
  BY <1>3
<1>8. CASE PrepareSubmission(x)
  <2> DEFINE new == [flows[f] EXCEPT !.secret = "free"]
  <2>1. new \in Flow /\ new.told = "nothing"
    BY <1>3, <1>5 DEF Flow
  <2>2. /\ UNCHANGED flows \/ flows' = [flows EXCEPT ![f] = new]
        /\ Goto(x, "send", loc[x]) \/ Goto(x, "idle", loc[x])
    BY <1>3, <1>8 DEF PrepareSubmission, Call, Sets
  <2> HIDE DEF new
  <2> QED
    BY <1>1, <1>2, <1>3, <1>4, <1>5, <1>6, <1>7, <2>1, <2>2 DEF FlowLabels
<1>9. CASE Send(x)
  <2> DEFINE new == [flows[f] EXCEPT !.workflow = "live"]
             off == [flows[f] EXCEPT !.workflow = "live", !.told = "refused"]
  <2>1. new \in Flow /\ new.told = "nothing" /\ off \in Flow /\ off.told = "refused"
    BY <1>3, <1>5 DEF Flow
  <2>2. \/ /\ UNCHANGED flows \/ flows' = [flows EXCEPT ![f] = new]
           /\ Goto(x, "attach", loc[x]) \/ Goto(x, "cleanup", loc[x])
        \/ flows' = [flows EXCEPT ![f] = off] /\ End(x) /\ faults' = faults + 1
    <3>1. [flows EXCEPT ![f].workflow = "live", ![f].told = "refused"] = [flows EXCEPT ![f] = off]
      BY <1>3 DEF Flow
    <3> QED
      BY <1>3, <1>9, <3>1 DEF Send, Call, Refused, Sets
  <2>3. faults' = faults + 1 => Honest(off, faults')
    BY <1>4, <2>1 DEF Honest
  <2> HIDE DEF new, off
  <2>4. flows' = [flows EXCEPT ![f] = off] /\ End(x) /\ faults' = faults + 1 => FlowGoes(x)
    BY <2>1, <2>3 DEF FlowGoes
  <2> QED
    BY <1>1, <1>2, <1>3, <1>4, <1>5, <1>6, <1>7, <2>1, <2>2, <2>4 DEF FlowLabels
<1>10. CASE AttachOwner(x)
  <2> DEFINE owner == IF flows[f].workflow = "live" THEN "owned" ELSE "none"
             new == [flows[f] EXCEPT !.secret = owner]
  <2>1. new \in Flow /\ new.told = "nothing" /\ (new.workflow = "live" <=> new.secret = "owned")
    BY <1>3, <1>5 DEF Flow
  <2>2. \/ flows' = [flows EXCEPT ![f] = new] /\ Goto(x, "answer", loc[x])
        \/ (UNCHANGED flows \/ flows' = [flows EXCEPT ![f] = new]) /\ Goto(x, "cleanup", loc[x])
    BY <1>3, <1>10 DEF AttachOwner, Call, Sets
  <2> HIDE DEF new
  <2> QED
    BY <1>1, <1>2, <1>3, <1>4, <1>5, <1>6, <1>7, <2>1, <2>2 DEF FlowLabels
<1>11. CASE Answer(x)
  <2> DEFINE new == [flows[f] EXCEPT !.told = "accepted"]
  <2>1. new \in Flow /\ Honest(new, faults')
    BY <1>3, <1>5, <1>11 DEF Flow, Honest, Answer, At
  <2>2. flows' = [flows EXCEPT ![f] = new] /\ End(x)
    BY <1>3, <1>11 DEF Answer, Sets
  <2> HIDE DEF new
  <2> QED
    BY <1>1, <1>2, <1>3, <1>4, <2>1, <2>2 DEF FlowGoes
<1>12. CASE CleanupSecret(x)
  <2> DEFINE new == [flows[f] EXCEPT !.secret = "none", !.told = "refused"]
             off == [flows[f] EXCEPT !.told = "refused"]
  <2>1. new \in Flow /\ off \in Flow /\ Honest(new, faults') /\ (faults' = faults + 1 => Honest(off, faults'))
    BY <1>3, <1>4 DEF Flow, Honest
  <2>2. \/ flows' = [flows EXCEPT ![f] = new] /\ Goto(x, "idle", loc[x])
        \/ flows' = [flows EXCEPT ![f] = off] /\ Goto(x, "idle", loc[x]) /\ faults' = faults + 1
    <3>1. [flows EXCEPT ![f].secret = "none", ![f].told = "refused"] = [flows EXCEPT ![f] = new]
      BY <1>3 DEF Flow
    <3> QED
      BY <1>3, <1>12, <3>1 DEF CleanupSecret, Call, Sets
  <2>3. Goto(x, "idle", loc[x]) => End(x)
    BY DEF Goto, End
  <2> HIDE DEF new, off
  <2> QED
    BY <1>1, <1>2, <1>3, <1>4, <2>1, <2>2, <2>3 DEF FlowGoes
<1> QED
  BY <1>8, <1>9, <1>10, <1>11, <1>12 DEF WorkflowStep

LEMMA FlowStepMoves ==
  ASSUME TypeOK, FlowInv, NEW x \in Procs, WorkflowStep(x) PROVE FlowMoves(x) /\ FlowInv'
<1> DEFINE f == loc[x].wf
<1>1. /\ pc[x] \in FlowLabels /\ f \in Flows /\ f # None
      /\ UNCHANGED <<profiles, mlflow, fresh, sent, ops>> /\ faults' \in Nat /\ faults' >= faults
  BY FlowStepGoes
<1>2. PICK new \in Flow :
    /\ flows' = [flows EXCEPT ![f] = new] /\ Honest(new, faults')
    /\ \/ End(x)
       \/ \E label \in FlowLabels \ {"prepare"} :
            /\ Goto(x, label, loc[x]) /\ new.told = "nothing"
            /\ label = "answer" => (new.workflow = "live" <=> new.secret = "owned")
  BY FlowStepGoes DEF FlowGoes
<1>3. flows \in [Flows -> Flow] /\ flows' \in [Flows -> Flow]
  BY <1>1, <1>2 DEF TypeOK, WorkflowTypes, Flow
<1>4. \A g \in Flows : flows'[g] = IF g = f THEN new ELSE flows[g]
  BY <1>2, <1>3
<1>5. Handlers' /\ Others(x) /\ FlowPlace(pc'[x])
      /\ \/ loc'[x].wf = None
         \/ /\ loc'[x] = loc[x] /\ new.told = "nothing" /\ pc'[x] # "prepare"
            /\ pc'[x] = "answer" => (new.workflow = "live" <=> new.secret = "owned")
  <2>1. CASE End(x)
    BY <2>1, Ending DEF TypeOK, FlowPlace, NoLocal
  <2>2. ASSUME NEW label \in FlowLabels \ {"prepare"}, Goto(x, label, loc[x])
        PROVE  Handlers' /\ Others(x) /\ pc'[x] = label /\ loc'[x] = loc[x]
    <3>1. label \in Labels /\ label # "idle" /\ loc[x] \in Local
      BY DEF Labels, FlowLabels, TypeOK, Handlers
    <3>2. Fits(label, loc[x])
      <4>1. Fits(pc[x], loc[x])
        BY DEF TypeOK, Handlers
      <4> QED
        BY <1>1, <4>1 DEF Fits, OnProfile, OnCredential, OnWorkload, SpaceLabels, FlowLabels
    <3> QED
      BY <2>2, <3>1, <3>2, Going DEF TypeOK
  <2> QED
    BY <1>2, <2>1, <2>2 DEF FlowPlace
<1>6. \A g \in Flows : Honest(flows'[g], faults')
  <2>1. \A g \in Flows : Honest(flows[g], faults)
    BY DEF FlowInv, SubmissionsHaveTokens, Honest
  <2>2. \A g \in Flows : Honest(flows[g], faults) => Honest(flows[g], faults')
    BY <1>1 DEF Honest, TypeOK, BackendTypes
  <2> QED
    BY <1>2, <1>4, <2>1, <2>2
<1>7. \A y, z \in Procs : loc'[y].wf # None /\ loc'[y].wf = loc'[z].wf => y = z
  BY <1>1, <1>5 DEF FlowInv, Others
<1>8. \A y \in Procs \ {x} : loc'[y].wf # None => loc'[y].wf # f /\ loc'[y].wf \in Flows /\ loc'[y] = loc[y] /\ pc'[y] = pc[y]
  BY <1>1, <1>5 DEF FlowInv, Others, TypeOK, Handlers, Local
<1>9. FlowInv'
  <2>1. SubmissionsHaveTokens'
    BY <1>6 DEF SubmissionsHaveTokens, Honest
  <2>2. ASSUME NEW y \in Procs, loc'[y].wf # None
        PROVE  /\ flows'[loc'[y].wf].told = "nothing"
               /\ pc'[y] = "prepare" => flows'[loc'[y].wf] = NoFlow
               /\ pc'[y] = "answer" => (flows'[loc'[y].wf].workflow = "live" <=> flows'[loc'[y].wf].secret = "owned")
    <3>1. CASE y = x
      BY <1>1, <1>4, <1>5, <2>2, <3>1
    <3>2. CASE y # x
      BY <1>4, <1>8, <2>2, <3>2 DEF FlowInv
    <3> QED
      BY <3>1, <3>2
  <2> QED
    BY <1>7, <2>1, <2>2 DEF FlowInv
<1> QED
  BY <1>1, <1>3, <1>5, <1>9 DEF FlowMoves, FlowPlace, TypeOK, BackendTypes, WorkflowTypes, Flow

LEMMA SubmitMoves ==
  ASSUME TypeOK, FlowInv, NEW x \in Procs, WorkflowBegin(x) PROVE FlowMoves(x) /\ FlowInv'
<1>1. PICK f \in Flows : /\ flows[f] = NoFlow /\ \A y \in Procs : loc[y].wf # f
                         /\ Goto(x, "prepare", [NoLocal EXCEPT !.wf = f])
  BY DEF WorkflowBegin, Submit
<1>2. /\ [NoLocal EXCEPT !.wf = f] \in Local /\ [NoLocal EXCEPT !.wf = f].wf = f
      /\ Fits("prepare", [NoLocal EXCEPT !.wf = f])
  BY Nothing DEF NoLocal, Local, Fits, OnProfile, OnCredential, OnWorkload, SpaceLabels, FlowLabels
<1>3. Handlers' /\ Others(x) /\ pc'[x] = "prepare" /\ loc'[x].wf = f
  <2> DEFINE l == [NoLocal EXCEPT !.wf = f]
  <2>1. "prepare" \in Labels /\ Handlers
    BY DEF Labels, FlowLabels, TypeOK
  <2>2. l \in Local /\ l.wf = f /\ Fits("prepare", l) /\ Goto(x, "prepare", l)
    BY <1>1, <1>2
  <2> HIDE DEF l
  <2> QED
    BY <2>1, <2>2, Going
<1>4. UNCHANGED <<profiles, mlflow, flows>> /\ pc[x] = "idle" /\ sent' \in Nat /\ UNCHANGED <<faults, fresh>>
  BY Beginning DEF WorkflowBegin, Submit, TypeOK
<1>5. FlowInv'
  <2>1. SubmissionsHaveTokens'
    BY <1>4 DEF FlowInv, SubmissionsHaveTokens
  <2>2. \A y, z \in Procs : loc'[y].wf # None /\ loc'[y].wf = loc'[z].wf => y = z
    BY <1>1, <1>3 DEF FlowInv, Others
  <2>3. ASSUME NEW y \in Procs, loc'[y].wf # None
        PROVE  /\ flows'[loc'[y].wf].told = "nothing"
               /\ pc'[y] = "prepare" => flows'[loc'[y].wf] = NoFlow
               /\ pc'[y] = "answer" => (flows'[loc'[y].wf].workflow = "live" <=> flows'[loc'[y].wf].secret = "owned")
    BY <1>1, <1>3, <1>4, <2>3 DEF FlowInv, Others, NoFlow
  <2> QED
    BY <2>1, <2>2, <2>3 DEF FlowInv
<1> QED
  BY <1>3, <1>4, <1>5 DEF FlowMoves, FlowPlace, FlowLabels, TypeOK, BackendTypes, WorkflowTypes

LEMMA FlowGoneMoves ==
  ASSUME TypeOK, FlowInv, NEW f \in Flows, WorkflowGone(f)
  PROVE  /\ WorkflowTypes' /\ FlowInv'
         /\ UNCHANGED <<profiles, mlflow, fresh, sent, faults, pc, loc>>
<1>1. UNCHANGED <<profiles, mlflow, fresh, sent, faults, pc, loc>>
  BY DEF WorkflowGone, Quiet, Stay, FTables
<1> DEFINE new == [flows[f] EXCEPT !.workflow = "gone", !.secret = IF @ = "owned" THEN "none" ELSE @]
<1>2. flows \in [Flows -> Flow] /\ flows[f] \in Flow /\ flows[f].workflow = "live"
  BY DEF TypeOK, WorkflowTypes, Flow, WorkflowGone
<1>3. flows' = [flows EXCEPT ![f] = new]
  BY <1>2 DEF WorkflowGone, Flow
<1>4. /\ new \in Flow /\ new.told = flows[f].told
      /\ new.workflow = "gone" /\ new.secret # "owned"
      /\ flows[f].secret = "none" => new.secret = "none"
  BY <1>2 DEF Flow
<1>5. flows[f] # NoFlow
  BY <1>2 DEF NoFlow
<1> HIDE DEF new
<1>6. \A g \in Flows : flows'[g] = IF g = f THEN new ELSE flows[g]
  BY <1>2, <1>3
<1>7. SubmissionsHaveTokens'
  BY <1>1, <1>2, <1>4, <1>6 DEF FlowInv, SubmissionsHaveTokens, Flow
<1>8. ASSUME NEW y \in Procs, loc[y].wf # None
      PROVE  /\ flows'[loc[y].wf].told = "nothing"
             /\ pc[y] = "prepare" => flows'[loc[y].wf] = NoFlow
             /\ pc[y] = "answer" => (flows'[loc[y].wf].workflow = "live" <=> flows'[loc[y].wf].secret = "owned")
  <2>1. loc[y].wf \in Flows
    BY <1>8 DEF TypeOK, Handlers, Local
  <2> QED
    BY <1>4, <1>5, <1>6, <1>8, <2>1 DEF FlowInv
<1>9. FlowInv'
  BY <1>1, <1>7, <1>8 DEF FlowInv
<1> QED
  BY <1>1, <1>2, <1>3, <1>4, <1>9 DEF WorkflowTypes, Flow

-----------------------------------------------------------------------------
(* Types, locks of processes, and submissions                               *)

(* A handler that moves from place to place of another component is not at  *)
(* work on a submission.                                                    *)
LEMMA Elsewhere ==
  ASSUME Handlers', NEW x \in Procs
  PROVE  /\ pc'[x] \notin FlowLabels => loc'[x].wf = None
         /\ pc'[x] \notin OnWorkload \cup {"upgrade_failed"} => loc'[x].w = None
         /\ pc'[x] \notin OnCredential \cup {"sync_lock"} => loc'[x].c = None
BY DEF Handlers, Fits

LEMMA FlowKept ==
  ASSUME FlowInv, TypeOK, faults' \in Nat, faults' >= faults, flows' = flows,
         \A y \in Procs : loc'[y].wf = None \/ (loc'[y].wf = loc[y].wf /\ pc'[y] = pc[y])
  PROVE  FlowInv'
<1>1. SubmissionsHaveTokens'
  BY DEF FlowInv, SubmissionsHaveTokens, TypeOK, BackendTypes
<1> QED
  BY <1>1 DEF FlowInv

(* Whoever is still where it was holds what it held.                        *)
LEMMA HoldsSame ==
  ASSUME NEW y, pc'[y] = pc[y], loc'[y] = loc[y] PROVE Holds(y)' <=> Holds(y)
BY DEF Holds

LEMMA LockKept ==
  ASSUME OneInstalls, NEW x \in Procs, Others(x), LockMoves(x) PROVE OneInstalls'
<1>1. \A y \in Procs \ {x} : Holds(y)' <=> Holds(y)
  BY HoldsSame DEF Others
<1>2. CASE installing' = installing /\ (Holds(x)' => Holds(x))
  BY <1>1, <1>2 DEF OneInstalls
<1>3. CASE BackendOf[x] \notin installing /\ installing' = installing \cup {BackendOf[x]}
  BY <1>1, <1>3 DEF OneInstalls
<1>4. CASE Holds(x) /\ ~Holds(x)' /\ installing' = installing \ {BackendOf[x]}
  BY <1>1, <1>4 DEF OneInstalls
<1> QED
  BY <1>2, <1>3, <1>4 DEF LockMoves

LEMMA NotHolding ==
  ASSUME NEW x, S3Place(pc'[x]) \/ FlowPlace(pc'[x]) PROVE ~Holds(x)'
BY DEF S3Place, FlowPlace, S3Labels, FlowLabels, Holds

(* A process that dies.                                                     *)
LEMMA CrashMoves ==
  ASSUME TypeOK, OneInstalls, FlowInv, NEW x \in Procs, Crash(x)
  PROVE  /\ Others(x) /\ pc'[x] = "idle" /\ loc'[x] = NoLocal
         /\ TypeOK' /\ OneInstalls' /\ FlowInv'
<1>1. Handlers' /\ Others(x) /\ pc'[x] = "idle" /\ loc'[x] = NoLocal
  BY Ending DEF Crash, TypeOK
<1>2. faults' \in Nat /\ faults' >= faults
  BY DEF Crash, TypeOK, BackendTypes
<1>3. BackendTypes'
  BY <1>2 DEF Crash, TypeOK, BackendTypes
<1>4. S3Types'
  BY DEF Crash, Rollback, NoLock, TypeOK, S3Types
<1>5. MlflowTypes'
  <2>1. installing' \in SUBSET {BackendOf[y] : y \in Procs}
    BY DEF Crash, TypeOK, MlflowTypes
  <2> QED
    BY <2>1 DEF Crash, TypeOK, MlflowTypes
<1>6. WorkspaceTypes'
  <2>1. calm' = calm \/ (Undone(x) /\ loc[x].w \in Workloads)
    <3>1. Creating(x) => pc[x] \in OnWorkload /\ pc[x] \in SpaceLabels
      BY DEF Creating, OnWorkload, SpaceLabels
    <3> QED
      BY <3>1, SpaceLocal DEF Crash, Abandon
  <2>2. calm' \in [Workloads -> BOOLEAN]
    BY <2>1, Calming DEF TypeOK, WorkspaceTypes
  <2> QED
    BY <2>2 DEF Crash, TypeOK, WorkspaceTypes
<1>7. WorkflowTypes'
  BY DEF Crash, TypeOK, WorkflowTypes
<1>8. OneInstalls'
  <2>1. \A y \in Procs \ {x} : Holds(y)' <=> Holds(y)
    BY <1>1, HoldsSame DEF Others
  <2>2. ~Holds(x)'
    BY <1>1, NotHolding DEF FlowPlace
  <2>3. installing' = IF \E y \in Procs \ {x} : BackendOf[y] = BackendOf[x] /\ Holds(y)
                      THEN installing ELSE installing \ {BackendOf[x]}
    BY DEF Crash
  <2> QED
    BY <2>1, <2>2, <2>3 DEF OneInstalls
<1>9. FlowInv'
  BY <1>1, <1>2, FlowKept DEF Crash, Others, NoLocal
<1> QED
  BY <1>1, <1>3, <1>4, <1>5, <1>6, <1>7, <1>8, <1>9 DEF TypeOK

(* What every step keeps, whatever the tables and objects say.              *)
BaseInv == TypeOK /\ OneInstalls /\ FlowInv

LEMMA BaseByS3 ==
  ASSUME BaseInv, NEW x \in Procs, S3(S3Begin(x)) \/ S3(S3Step(x)) PROVE BaseInv' /\ S3Moves(x)
<1>1. S3Moves(x) /\ UNCHANGED <<mlflowVars, workspaceVars, workflowVars>>
  BY S3BeginMoves, S3StepMoves DEF S3, BaseInv
<1>2. TypeOK'
  BY <1>1 DEF S3Moves, BaseInv, TypeOK, MlflowTypes, WorkspaceTypes, WorkflowTypes, mlflowVars, workspaceVars, workflowVars
<1>3. OneInstalls'
  BY <1>1, LockKept, NotHolding DEF S3Moves, BaseInv, LockMoves, mlflowVars
<1>4. FlowInv'
  <2>1. loc'[x].wf = None
    BY <1>1, Elsewhere DEF S3Moves, S3Place, S3Labels, FlowLabels
  <2>2. faults' \in Nat /\ faults' >= faults /\ flows' = flows
    BY <1>1 DEF S3Moves, BackendTypes, workflowVars
  <2> QED
    BY <1>1, <2>1, <2>2, FlowKept DEF S3Moves, Others, BaseInv
<1> QED
  BY <1>1, <1>2, <1>3, <1>4 DEF BaseInv

LEMMA BaseByMlflow ==
  ASSUME BaseInv, NEW x \in Procs,
         Tracking(MlflowBegin(x)) \/ Tracking(MlflowStep(x)) \/ Tracking(Reconcile(x))
  PROVE  BaseInv' /\ MlflowMoves(x)
<1>1. MlflowMoves(x) /\ UNCHANGED <<s3Vars, workspaceVars, workflowVars>>
  BY MlflowBeginMoves, MlflowStepMoves, ReconcileMoves DEF Tracking, BaseInv
<1>2. TypeOK'
  BY <1>1 DEF MlflowMoves, BaseInv, TypeOK, S3Types, WorkspaceTypes, WorkflowTypes, s3Vars, workspaceVars, workflowVars
<1>3. OneInstalls'
  BY <1>1, LockKept DEF MlflowMoves, BaseInv
<1>4. FlowInv'
  <2>1. loc'[x].wf = None
    BY <1>1, Elsewhere DEF MlflowMoves, MlflowPlace, MlflowLabels, FlowLabels
  <2>2. faults' \in Nat /\ faults' >= faults /\ flows' = flows
    BY <1>1 DEF MlflowMoves, BackendTypes, workflowVars
  <2> QED
    BY <1>1, <2>1, <2>2, FlowKept DEF MlflowMoves, Others, BaseInv
<1> QED
  BY <1>1, <1>2, <1>3, <1>4 DEF BaseInv

LEMMA BaseBySpace ==
  ASSUME BaseInv, NEW x \in Procs, Workspace(WorkspaceBegin(x)) \/ Workspace(WorkspaceStep(x))
  PROVE  BaseInv' /\ SpaceMoves(x)
<1>1. SpaceMoves(x) /\ UNCHANGED <<s3Vars, mlflowVars, workflowVars>>
  BY SpaceHandlerMoves DEF Workspace, BaseInv
<1>2. TypeOK'
  BY <1>1 DEF SpaceMoves, BaseInv, TypeOK, S3Types, MlflowTypes, WorkflowTypes, s3Vars, mlflowVars, workflowVars
<1>3. OneInstalls'
  BY <1>1, LockKept DEF SpaceMoves, BaseInv, LockMoves, mlflowVars
<1>4. FlowInv'
  <2>1. loc'[x].wf = None
    BY <1>1, Elsewhere DEF SpaceMoves, SpacePlace, SpaceLabels, FlowLabels
  <2>2. faults' \in Nat /\ faults' >= faults /\ flows' = flows
    BY <1>1 DEF SpaceMoves, BackendTypes, workflowVars
  <2> QED
    BY <1>1, <2>1, <2>2, FlowKept DEF SpaceMoves, Others, BaseInv
<1> QED
  BY <1>1, <1>2, <1>3, <1>4 DEF BaseInv

LEMMA BaseByFlow ==
  ASSUME BaseInv, NEW x \in Procs, Workflow(WorkflowBegin(x)) \/ Workflow(WorkflowStep(x))
  PROVE  BaseInv' /\ FlowMoves(x)
<1>1. FlowMoves(x) /\ FlowInv' /\ UNCHANGED <<s3Vars, mlflowVars, workspaceVars>>
  BY SubmitMoves, FlowStepMoves DEF Workflow, BaseInv
<1>2. TypeOK'
  BY <1>1 DEF FlowMoves, BaseInv, TypeOK, S3Types, MlflowTypes, WorkspaceTypes, s3Vars, mlflowVars, workspaceVars
<1>3. OneInstalls'
  BY <1>1, LockKept, NotHolding DEF FlowMoves, BaseInv, LockMoves, mlflowVars
<1> QED
  BY <1>1, <1>2, <1>3 DEF BaseInv

(* Pods that come and go, and workflows that end.                           *)
LEMMA BaseByCluster ==
  ASSUME BaseInv,
         \/ Tracking(PodStarts \/ PodStops)
         \/ \E w \in Workloads : Workspace(WorkspaceStarts(w) \/ WorkspaceStops(w) \/ WorkspaceRestarts(w))
         \/ \E f \in Flows : Workflow(WorkflowGone(f))
  PROVE  BaseInv' /\ UNCHANGED <<profiles, mlflow, fresh, pc, loc, s3Vars>>
<1> DEFINE Kind == /\ UNCHANGED <<profiles, mlflow, fresh, sent, pc, loc, s3Vars, installing>>
                   /\ faults' \in Nat /\ faults' >= faults
                   /\ MlflowTypes' /\ WorkspaceTypes' /\ WorkflowTypes'
                   /\ FlowInv' \/ UNCHANGED flows
<1>1. Kind
  <2>1. CASE Tracking(PodStarts \/ PodStops)
    BY <2>1, PodMoves DEF Tracking, BaseInv, TypeOK, BackendTypes, s3Vars, workspaceVars, workflowVars,
       WorkspaceTypes, WorkflowTypes
  <2>2. ASSUME NEW w \in Workloads, Workspace(WorkspaceStarts(w) \/ WorkspaceStops(w) \/ WorkspaceRestarts(w))
        PROVE  Kind
    BY <2>2, SpacePodMoves DEF Workspace, BaseInv, TypeOK, s3Vars, mlflowVars, workflowVars, MlflowTypes, WorkflowTypes
  <2>3. CASE \E f \in Flows : Workflow(WorkflowGone(f))
    BY <2>3, FlowGoneMoves DEF Workflow, BaseInv, TypeOK, BackendTypes, s3Vars, mlflowVars, workspaceVars,
       MlflowTypes, WorkspaceTypes
  <2> QED
    <3> HIDE DEF Kind
    <3> QED
      BY <2>1, <2>2, <2>3
<1>2. TypeOK'
  BY <1>1 DEF BaseInv, TypeOK, Handlers, BackendTypes, S3Types, s3Vars
<1>3. OneInstalls'
  BY <1>1 DEF BaseInv, OneInstalls, Holds
<1>4. FlowInv'
  BY <1>1, FlowKept DEF BaseInv
<1> QED
  BY <1>1, <1>2, <1>3, <1>4 DEF BaseInv

-----------------------------------------------------------------------------
(* Tokens of workspaces                                                     *)

LEMMA Went ==
  ASSUME Handlers, NEW x \in Procs, NEW label, NEW l, Goto(x, label, l)
  PROVE  /\ pc'[x] = label /\ (label # "idle" => loc'[x] = l) /\ (label = "idle" => loc'[x] = NoLocal)
         /\ Others(x)
BY DEF Goto, Handlers, Others

Creation == {"workspace_service", "workspace_row"}

(* A workload that a step leaves alone, or whose handler goes away without  *)
(* having created anything.                                                 *)
LEMMA SpaceLeft ==
  ASSUME NEW w, SpaceAt(w), NEW x \in Procs, Others(x), loc'[x].w # w,
         loc[x].w = w => pc[x] \notin Creation,
         sts'[w] = sts[w], wpod'[w] = wpod[w], tokens'[w] = tokens[w], calm'[w] => calm[w],
         w \in rowOf => w \in rowOf', fresh \in Nat, fresh' \in Nat, fresh' >= fresh,
         sts[w] # None => sts[w].uid \in Nat, wpod[w] # None => wpod[w].uid \in Nat
  PROVE  SpaceAt(w)'
<1>1. Young(w)'
  BY DEF SpaceAt, Young
<1>2. ASSUME calm'[w] PROVE Alone(w)' /\ Owned(w)' /\ SameToken(w)' /\ \A y \in Procs : Careful(y, w)'
  <2>1. calm[w] /\ Alone(w) /\ Owned(w) /\ SameToken(w) /\ \A y \in Procs : Careful(y, w)
    BY <1>2 DEF SpaceAt
  <2>2. Alone(w)'
    BY <2>1 DEF Alone, Others
  <2>3. Owned(w)'
    BY <2>1 DEF Owned, Others, Creation
  <2>4. SameToken(w)'
    BY <2>1 DEF SameToken
  <2>5. ASSUME NEW y \in Procs PROVE Careful(y, w)'
    BY <2>1 DEF Careful, Others
  <2> QED
    BY <2>2, <2>3, <2>4, <2>5
<1> QED
  BY <1>1, <1>2 DEF SpaceAt

(* A workload whose only handler makes a step, or at which one arrives.     *)
LEMMA SpaceOnly ==
  ASSUME NEW w, NEW x \in Procs, Others(x), \A y \in Procs \ {x} : loc[y].w # w,
         Young(w)', SameToken(w)', Careful(x, w)',
         w \notin rowOf' /\ sts'[w] # None => loc'[x].w = w /\ pc'[x] \in Creation
  PROVE  SpaceAt(w)'
<1>1. \A y \in Procs : loc'[y].w = w => y = x
  BY DEF Others
<1>2. Alone(w)'
  BY <1>1 DEF Alone
<1>3. Owned(w)'
  BY DEF Owned, Creation
<1>4. \A y \in Procs : Careful(y, w)'
  BY <1>1 DEF Careful
<1> QED
  BY <1>2, <1>3, <1>4 DEF SpaceAt

(* While it is calm, the handler of a workload has no other beside it, and  *)
(* a workload without a handler has a row if it has a StatefulSet.          *)
LEMMA Calmly ==
  ASSUME TypeOK, NEW w \in Workloads, SpaceAt(w), calm[w], NEW x \in Procs
  PROVE  /\ loc[x].w = w => /\ \A y \in Procs \ {x} : loc[y].w # w
                            /\ sts[w] # None /\ pc[x] \notin Creation => w \in rowOf
                            /\ Careful(x, w)
         /\ ~Busy(w) /\ sts[w] # None => w \in rowOf
         /\ SameToken(w)
BY DEF SpaceAt, Alone, Owned, Creation, Busy

LEMMA SpaceFacts ==
  ASSUME TypeOK, NEW w \in Workloads
  PROVE  /\ fresh \in Nat /\ calm \in [Workloads -> BOOLEAN]
         /\ sts[w] # None => sts[w].uid \in Nat /\ sts[w].env \in SUBSET Keys
         /\ wpod[w] # None => wpod[w].uid \in Nat /\ wpod[w].env \in SUBSET Keys
         /\ tokens[w] # None => tokens[w] \in [Keys -> Token]
BY DEF TypeOK, BackendTypes, WorkspaceTypes

(* What a step of a handler does to the workload w.                         *)
LEMMA SpaceStepAt ==
  ASSUME BaseInv, SpaceInv, NEW x \in Procs, WorkspaceBegin(x) \/ WorkspaceStep(x), SpaceMoves(x),
         NEW w \in Workloads
  PROVE  SpaceAt(w)'
<1> DEFINE l == loc[x]
<1>0. /\ TypeOK /\ Handlers /\ SpaceAt(w) /\ Others(x) /\ Young(w) /\ Handlers'
      /\ fresh \in Nat /\ fresh' \in Nat /\ fresh' >= fresh
  BY DEF BaseInv, TypeOK, SpaceInv, SpaceAt, SpaceMoves, BackendTypes
<1>1. /\ sts[w] # None => sts[w].uid \in Nat /\ sts[w].env \in SUBSET Keys
      /\ wpod[w] # None => wpod[w].uid \in Nat /\ wpod[w].env \in SUBSET Keys
      /\ tokens[w] # None => tokens[w] \in [Keys -> Token]
      /\ calm \in [Workloads -> BOOLEAN]
  BY <1>0, SpaceFacts, Zenon
<1>2. wpod' = wpod
  BY Zenon DEF WorkspaceBegin, CreateCodeServer, DeleteCodeServer, UpgradeWorkspaces, WorkspaceStep, ApplyTokens,
     ApplyStatefulSet, ApplyService, InsertWorkspace, DropStatefulSet, DropTokens, DropRow, EnableTracking,
     EnableDone, EnableRead, EnablePatch, EnableStatefulSet, WObjects
<1>3. ASSUME sts'[w] = sts[w] PROVE Young(w)'
  BY <1>0, <1>1, <1>2, <1>3 DEF Young
<1>4. NoLocal.w = None /\ w # None
  BY DEF NoLocal
<1>5. ASSUME loc'[x].w # w, l.w = w => pc[x] \notin Creation,
             sts'[w] = sts[w], tokens'[w] = tokens[w], calm'[w] => calm[w], w \in rowOf => w \in rowOf'
      PROVE  SpaceAt(w)'
  BY <1>0, <1>1, <1>2, <1>5, SpaceLeft
<1>6. ASSUME ~calm'[w], Young(w)' PROVE SpaceAt(w)'
  BY <1>6 DEF SpaceAt
<1>7. Busy(w) => \E y \in Procs : loc[y].w = w
  BY DEF Busy
<1>8. ASSUME NEW label, Goto(x, label, l)
      PROVE  pc'[x] = label /\ (label # "idle" => loc'[x] = l) /\ loc'[x].w \in {l.w, None}
  BY <1>0, <1>4, <1>8, Went
<1>9. ASSUME End(x) PROVE pc'[x] = "idle" /\ loc'[x].w = None
  BY <1>0, <1>4, <1>9, Ending
<1>10. CASE CreateCodeServer(x) \/ DeleteCodeServer(x)
  <2>1. PICK v \in Workloads :
          /\ Enters(v)
          /\ \/ Goto(x, "workspace_secret", [NoLocal EXCEPT !.w = v]) /\ v \notin rowOf
             \/ Goto(x, "drop_set", [NoLocal EXCEPT !.w = v]) /\ v \in rowOf
    BY <1>10 DEF CreateCodeServer, DeleteCodeServer, TypeOK, WorkspaceTypes, BaseInv
  <2>2. UNCHANGED <<rowOf, tokens, sts, wpod>> /\ l.w = None
    BY <1>10, <1>0, Elsewhere DEF CreateCodeServer, DeleteCodeServer, WObjects, Begin, At, Handlers, Fits,
       OnWorkload, SpaceLabels
  <2>3. loc'[x].w = v /\ pc'[x] = (IF v \in rowOf THEN "drop_set" ELSE "workspace_secret")
    <3> DEFINE m == [NoLocal EXCEPT !.w = v]
    <3>1. m.w = v
      BY DEF NoLocal
    <3>2. PICK label \in {"workspace_secret", "drop_set"} : Goto(x, label, m) /\ (v \in rowOf <=> label = "drop_set")
      BY <2>1
    <3> HIDE DEF m
    <3>3. pc'[x] = label /\ loc'[x] = m
      BY <1>0, <3>2, Went
    <3> QED
      BY <3>1, <3>2, <3>3
  <2>4. calm' = [calm EXCEPT ![v] = calm[v] /\ ~Busy(v)]
    BY <2>1 DEF Enters
  <2>5. CASE v # w
    BY <1>1, <1>4, <1>5, <2>2, <2>3, <2>4, <2>5
  <2>6. CASE v = w
    <3>1. Young(w)'
      BY <1>3, <2>2
    <3>2. ASSUME calm'[w] PROVE SpaceAt(w)'
      <4>1. calm[w] /\ ~Busy(w)
        BY <1>1, <2>4, <2>6, <3>2
      <4>2. SameToken(w) /\ (sts[w] # None => w \in rowOf)
        BY <1>0, <4>1, Calmly
      <4>3. SameToken(w)'
        BY <2>2, <4>2 DEF SameToken
      <4>4. Careful(x, w)'
        BY <2>2, <2>3, <2>6, <4>2 DEF Careful
      <4>5. \A y \in Procs \ {x} : loc[y].w # w
        BY <4>1 DEF Busy
      <4>6. ~(w \notin rowOf' /\ sts'[w] # None)
        BY <2>2, <4>2
      <4> QED
        BY <1>0, <3>1, <4>3, <4>4, <4>5, <4>6, SpaceOnly
    <3> QED
      BY <1>6, <3>1, <3>2
  <2> QED
    BY <2>5, <2>6
<1>11. CASE UpgradeWorkspaces(x) \/ EnableTracking(x) \/ EnableDone(x)
  <2>1. UNCHANGED <<rowOf, tokens, sts, calm>> /\ pc[x] \in {"idle", "apply_done", "enable"}
    BY <1>11 DEF UpgradeWorkspaces, EnableTracking, EnableDone, WObjects, Begin, At
  <2>2. l.w = None
    BY <1>0, <2>1 DEF Handlers, Fits, OnWorkload, SpaceLabels
  <2>3. pc'[x] \in {"enable", "upgrade_save", "idle"}
    <3>1. \E label \in {"enable", "upgrade_save", "idle"} : \E m : Goto(x, label, m)
      BY <1>11 DEF UpgradeWorkspaces, EnableTracking, EnableDone
    <3> QED
      BY <1>0, <3>1, Went
  <2>4. loc'[x].w = None
    BY <1>0, <2>3, Elsewhere DEF OnWorkload, SpaceLabels
  <2> QED
    BY <1>4, <1>5, <2>1, <2>2, <2>4
<1>12. CASE EnableRead(x)
  <2>0. pc[x] = "enable"
    BY <1>12 DEF EnableRead, At
  <2>1. /\ l.w = None /\ l.wf = None /\ l.c = None /\ l \in Local
        /\ l.todo \subseteq Workloads /\ UNCHANGED <<rowOf, tokens, sts>>
    BY <1>0, <1>12, <2>0, SpaceLocal DEF EnableRead, WObjects, OnWorkload, SpaceLabels
  <2>2. PICK v \in l.todo :
          /\ Enters(v)
          /\ \/ Goto(x, EnableFailed(x), l)
             \/ \E missing \in SUBSET Keys, label \in {"enable_set", "enable_patch"} :
                  /\ Goto(x, label, [l EXCEPT !.todo = @ \ {v}, !.w = v, !.missing = missing])
                  /\ \A k \in missing : tokens[v][k] = None
    <3>1. l.keys \in SUBSET Keys
      BY <2>1 DEF Local
    <3> QED
      BY <1>12, <3>1 DEF EnableRead
  <2>3. /\ calm' = [calm EXCEPT ![v] = calm[v] /\ ~Busy(v)] /\ v \in Workloads
        /\ \/ loc'[x].w = None
           \/ /\ loc'[x].w = v /\ pc'[x] \in {"enable_set", "enable_patch"}
              /\ \A k \in loc'[x].missing : tokens[v][k] = None
    <3>1. ASSUME Goto(x, EnableFailed(x), l) PROVE loc'[x].w = None
      BY <1>8, <2>1, <3>1
    <3>2. ASSUME NEW missing \in SUBSET Keys, NEW label \in {"enable_set", "enable_patch"},
                 Goto(x, label, [l EXCEPT !.todo = @ \ {v}, !.w = v, !.missing = missing])
          PROVE  loc'[x].w = v /\ loc'[x].missing = missing /\ pc'[x] = label
      <4> DEFINE m == [l EXCEPT !.todo = @ \ {v}, !.w = v, !.missing = missing]
      <4>1. m.w = v /\ m.missing = missing /\ Goto(x, label, m) /\ label # "idle"
        BY <2>1, <3>2 DEF Local
      <4> HIDE DEF m
      <4> QED
        BY <1>0, <4>1, Went
    <3> QED
      BY <2>1, <2>2, <3>1, <3>2 DEF Enters
  <2>4. CASE v # w
    BY <1>1, <1>4, <1>5, <2>1, <2>3, <2>4
  <2>5. CASE v = w
    <3>1. Young(w)'
      BY <1>3, <2>1
    <3>2. ASSUME calm'[w] PROVE SpaceAt(w)'
      <4>1. calm[w] /\ ~Busy(w)
        BY <1>1, <2>3, <2>5, <3>2
      <4>2. SameToken(w) /\ (sts[w] # None => w \in rowOf)
        BY <1>0, <4>1, Calmly
      <4>3. SameToken(w)'
        BY <1>2, <2>1, <4>2 DEF SameToken
      <4>4. Careful(x, w)'
        BY <1>4, <2>1, <2>3, <2>5 DEF Careful
      <4>5. \A y \in Procs \ {x} : loc[y].w # w
        BY <4>1 DEF Busy
      <4>6. ~(w \notin rowOf' /\ sts'[w] # None)
        BY <2>1, <4>2
      <4> QED
        BY <1>0, <3>1, <4>3, <4>4, <4>5, <4>6, SpaceOnly
    <3> QED
      BY <1>6, <3>1, <3>2
  <2> QED
    BY <2>4, <2>5
(* The steps of a handler at work on a workload. *)
<1>13. ASSUME pc[x] \in OnWorkload, l.w # w, loc'[x].w \in {l.w, None},
              sts'[w] = sts[w], tokens'[w] = tokens[w], calm'[w] = calm[w], w \in rowOf => w \in rowOf'
       PROVE  SpaceAt(w)'
  BY <1>4, <1>5, <1>13
<1>14. ASSUME l.w = w, calm'[w], calm'[w] => calm[w], sts'[w] # None => w \in rowOf' \/ (loc'[x].w = w /\ pc'[x] \in Creation),
              Young(w)', calm[w] => SameToken(w)', calm[w] => Careful(x, w)'
       PROVE  SpaceAt(w)'
  <2>1. \A y \in Procs \ {x} : loc[y].w # w
    BY <1>0, <1>14, Calmly
  <2> QED
    BY <1>0, <1>14, <2>1, SpaceOnly
<1>15. ASSUME pc[x] \in OnWorkload PROVE l.w \in Workloads /\ l \in Local
  BY <1>0, <1>15, SpaceLocal DEF OnWorkload
<1>16. ASSUME calm[w], l.w = w
       PROVE  Careful(x, w) /\ SameToken(w) /\ (sts[w] # None /\ pc[x] \notin Creation => w \in rowOf)
  BY <1>0, <1>16, Calmly
<1>17. ASSUME l.w \in Workloads, Undone(x), l.w = w PROVE ~calm'[w]
  BY <1>1, <1>17 DEF Undone
<1>18. ASSUME l.w \in Workloads, Undone(x) \/ calm' = calm PROVE (l.w # w => calm'[w] = calm[w]) /\ (calm'[w] => calm[w])
  BY <1>1, <1>18 DEF Undone
<1>19. CASE ApplyTokens(x)
  <2>1. /\ pc[x] = "workspace_secret" /\ UNCHANGED <<rowOf, sts>> /\ pc[x] \in OnWorkload
        /\ tokens' = tokens \/ tokens' = [tokens EXCEPT ![l.w] = [k \in Keys |-> fresh]]
        /\ Goto(x, "workspace_set", l) \/ Goto(x, "idle", l)
        /\ Undone(x) \/ (Goto(x, "workspace_set", l) /\ calm' = calm)
    BY <1>0, <1>19 DEF ApplyTokens, Applying, Call, At, OnWorkload, SpaceLabels, TypeOK, BackendTypes
  <2>2. l.w \in Workloads /\ Young(w)'
    BY <1>3, <1>15, <2>1
  <2>3. loc'[x].w \in {l.w, None}
    BY <1>8, <2>1
  <2>4. CASE l.w # w
    <3>1. tokens'[w] = tokens[w]
      BY <1>0, <2>1, <2>4 DEF TypeOK, WorkspaceTypes
    <3> QED
      BY <1>13, <1>18, <2>1, <2>2, <2>3, <2>4, <3>1
  <2>5. CASE l.w = w /\ calm'[w]
    <3>1. Goto(x, "workspace_set", l) /\ calm' = calm
      BY <1>17, <2>1, <2>2, <2>5
    <3>2. pc'[x] = "workspace_set"
      BY <1>8, <3>1
    <3>3. sts'[w] = None
      BY <1>16, <2>1, <2>5, <3>1 DEF Careful
    <3>4. SameToken(w)' /\ Careful(x, w)'
      BY <3>2, <3>3 DEF SameToken, Careful
    <3> QED
      BY <1>14, <2>2, <2>5, <3>1, <3>3, <3>4
  <2> QED
    BY <1>6, <2>2, <2>4, <2>5
<1>20. CASE ApplyStatefulSet(x)
  <2> DEFINE s == [uid |-> IF sts[l.w] = None THEN fresh ELSE sts[l.w].uid, env |-> Keys]
  <2>1. /\ pc[x] = "workspace_set" /\ UNCHANGED <<rowOf, tokens>> /\ pc[x] \in OnWorkload
        /\ sts' = sts \/ sts' = [sts EXCEPT ![l.w] = s]
        /\ Goto(x, "workspace_service", l) \/ Goto(x, "idle", l)
        /\ Undone(x) \/ (Goto(x, "workspace_service", l) /\ calm' = calm)
        /\ fresh' = fresh + 1
    BY <1>0, <1>20 DEF ApplyStatefulSet, Applying, Call, At, Draw, OnWorkload, SpaceLabels, TypeOK, BackendTypes
  <2>2. l.w \in Workloads /\ sts \in [Workloads -> [uid : Nat, env : SUBSET Keys] \cup {None}]
    BY <1>0, <1>15, <2>1 DEF TypeOK, WorkspaceTypes
  <2>3. loc'[x].w \in {l.w, None}
    BY <1>8, <2>1
  <2>4. CASE l.w # w
    <3>1. sts'[w] = sts[w]
      BY <2>1, <2>2, <2>4
    <3> QED
      BY <1>13, <1>18, <2>1, <2>2, <2>3, <2>4, <3>1
  <2>5. CASE l.w = w
    <3>0. sts'[w] = sts[w] \/ sts'[w] = s
      BY <2>1, <2>2, <2>5
    <3>1. Young(w)'
      <4>1. s.uid \in Nat /\ s.uid < fresh + 1
        BY <1>0, <1>1, <2>5 DEF Young
      <4> HIDE DEF s
      <4> QED
        BY <1>0, <1>1, <1>2, <2>1, <2>5, <3>0, <4>1 DEF Young
    <3>2. ASSUME calm'[w] PROVE SpaceAt(w)'
      <4>1. Goto(x, "workspace_service", l) /\ calm' = calm
        BY <1>17, <2>1, <2>2, <2>5, <3>2
      <4>2. pc'[x] = "workspace_service" /\ loc'[x] = l
        BY <1>8, <4>1
      <4>3. sts[w] = None
        BY <1>16, <2>1, <2>5, <3>2, <4>1 DEF Careful
      <4>4. s.uid = fresh
        BY <2>5, <4>3
      <4>5. SameToken(w)'
        <5>1. wpod'[w] # None => wpod'[w].uid < fresh /\ wpod'[w].uid \in Nat
          BY <1>0, <1>1, <1>2 DEF Young
        <5> HIDE DEF s
        <5>2. sts'[w] # None => sts'[w].uid = fresh
          BY <3>0, <4>3, <4>4
        <5>3. wpod'[w] # None /\ sts'[w] # None => wpod'[w].uid # sts'[w].uid
          BY <1>0, <5>1, <5>2
        <5> QED
          BY <5>3 DEF SameToken
      <4>6. Careful(x, w)'
        BY <4>2 DEF Careful
      <4> QED
        BY <1>14, <2>5, <3>1, <3>2, <4>1, <4>2, <4>5, <4>6 DEF Creation
    <3> QED
      BY <1>6, <3>1, <3>2
  <2> QED
    BY <2>4, <2>5
<1>21. CASE ApplyService(x) \/ InsertWorkspace(x)
  <2>1. /\ pc[x] \in OnWorkload /\ UNCHANGED <<tokens, sts>>
        /\ \/ Goto(x, "workspace_row", l) /\ calm' = calm /\ rowOf' = rowOf
           \/ Goto(x, "idle", l) /\ Undone(x) /\ rowOf' = rowOf
           \/ End(x) /\ rowOf' = rowOf \cup {l.w} /\ (Undone(x) \/ calm' = calm)
    BY <1>0, <1>21 DEF ApplyService, InsertWorkspace, Applying, Call, WObjects, At, OnWorkload, SpaceLabels,
       TypeOK, BackendTypes
  <2>2. l.w \in Workloads /\ Young(w)'
    BY <1>3, <1>15, <2>1
  <2>3. loc'[x].w \in {l.w, None}
    BY <1>8, <1>9, <2>1
  <2>4. CASE l.w # w
    BY <1>13, <1>18, <2>1, <2>2, <2>3, <2>4
  <2>5. CASE l.w = w /\ calm'[w]
    <3>1. ~Undone(x)
      BY <1>17, <2>2, <2>5
    <3>2. \/ pc'[x] = "workspace_row" /\ loc'[x] = l
          \/ pc'[x] = "idle" /\ loc'[x].w = None /\ w \in rowOf'
      BY <1>8, <1>9, <2>1, <2>5, <3>1
    <3>3. calm' = calm
      BY <2>1, <3>1
    <3>4. SameToken(w)'
      BY <1>2, <1>16, <2>1, <2>5, <3>3 DEF SameToken
    <3>5. Careful(x, w)'
      BY <1>4, <3>2 DEF Careful
    <3> QED
      BY <1>14, <2>2, <2>5, <3>2, <3>3, <3>4, <3>5 DEF Creation
  <2> QED
    BY <1>6, <2>2, <2>4, <2>5
<1>22. CASE DropStatefulSet(x)
  <2>1. /\ pc[x] = "drop_set" /\ pc[x] \in OnWorkload /\ pc[x] \notin Creation
        /\ UNCHANGED <<tokens, rowOf, calm>>
        /\ \/ sts' = [sts EXCEPT ![l.w] = None] /\ (Goto(x, "drop_secret", l) \/ Goto(x, "idle", l))
           \/ sts' = sts /\ Goto(x, "idle", l)
    BY <1>22 DEF DropStatefulSet, Call, At, OnWorkload, SpaceLabels, Creation
  <2>2. l.w \in Workloads /\ sts \in [Workloads -> [uid : Nat, env : SUBSET Keys] \cup {None}]
    BY <1>0, <1>15, <2>1 DEF TypeOK, WorkspaceTypes
  <2>3. loc'[x].w \in {l.w, None}
    BY <1>8, <2>1
  <2>4. CASE l.w # w
    <3>1. sts'[w] = sts[w]
      BY <2>1, <2>2, <2>4
    <3> QED
      BY <1>13, <2>1, <2>3, <2>4, <3>1
  <2>5. CASE l.w = w
    <3>1. sts'[w] = None \/ (sts'[w] = sts[w] /\ pc'[x] = "idle")
      BY <1>8, <2>1, <2>2, <2>5
    <3>2. Young(w)'
      BY <1>0, <1>1, <1>2, <3>1 DEF Young
    <3>3. ASSUME calm'[w] PROVE SpaceAt(w)'
      <4>1. calm[w]
        BY <2>1, <3>3
      <4>2. SameToken(w)'
        BY <1>2, <1>16, <2>1, <2>5, <3>1, <4>1 DEF SameToken
      <4>3. pc'[x] \in {"drop_secret", "idle"}
        BY <1>8, <2>1
      <4>4. Careful(x, w)'
        <5>1. pc'[x] = "drop_secret" => sts'[w] = None
          BY <3>1
        <5> QED
          BY <4>3, <5>1 DEF Careful
      <4>5. sts'[w] # None => w \in rowOf'
        BY <1>16, <2>1, <2>5, <3>1, <4>1
      <4> QED
        BY <1>14, <2>5, <3>2, <3>3, <4>1, <4>2, <4>4, <4>5
    <3> QED
      BY <1>6, <3>2, <3>3
  <2> QED
    BY <2>4, <2>5
<1>23. CASE DropTokens(x) \/ DropRow(x)
  <2>1. /\ pc[x] \in {"drop_secret", "drop_row"} /\ pc[x] \in OnWorkload
        /\ UNCHANGED <<sts, calm>> /\ (rowOf' = rowOf \/ rowOf' = rowOf \ {l.w})
        /\ tokens' = tokens \/ tokens' = [tokens EXCEPT ![l.w] = None]
        /\ Goto(x, "drop_row", l) \/ Goto(x, "idle", l) \/ End(x)
    BY <1>23 DEF DropTokens, DropRow, WObjects, Call, At, OnWorkload, SpaceLabels
  <2>2. l.w \in Workloads /\ Young(w)'
    BY <1>3, <1>15, <2>1
  <2>3. loc'[x].w \in {l.w, None} /\ pc'[x] \in {"drop_row", "idle"}
    BY <1>8, <1>9, <2>1
  <2>4. CASE l.w # w
    <3>1. tokens'[w] = tokens[w] /\ (w \in rowOf => w \in rowOf')
      BY <1>0, <2>1, <2>4 DEF TypeOK, WorkspaceTypes
    <3> QED
      BY <1>13, <2>1, <2>3, <2>4, <3>1
  <2>5. CASE l.w = w /\ calm'[w]
    <3>1. calm[w] /\ sts'[w] = None
      BY <1>16, <2>1, <2>5 DEF Careful
    <3>2. SameToken(w)' /\ Careful(x, w)'
      BY <2>3, <3>1 DEF SameToken, Careful
    <3> QED
      BY <1>14, <2>1, <2>2, <2>5, <3>1, <3>2
  <2> QED
    BY <1>6, <2>2, <2>4, <2>5
<1>24. CASE EnablePatch(x)
  <2> DEFINE t == [k \in Keys |-> IF k \in l.missing THEN fresh ELSE tokens[l.w][k]]
  <2>1. /\ pc[x] = "enable_patch" /\ pc[x] \in OnWorkload /\ pc[x] \notin Creation
        /\ UNCHANGED <<sts, calm, rowOf>>
        /\ tokens' = tokens \/ (tokens' = [tokens EXCEPT ![l.w] = t] /\ tokens[l.w] # None)
        /\ Goto(x, EnableFailed(x), l) \/ Goto(x, "enable_set", l)
    BY <1>24 DEF EnablePatch, Refused, Call, At, OnWorkload, SpaceLabels, Creation
  <2>2. l.w \in Workloads /\ Young(w)' /\ tokens \in [Workloads -> [Keys -> Token] \cup {None}]
    BY <1>0, <1>3, <1>15, <2>1 DEF TypeOK, WorkspaceTypes
  <2>3. loc'[x].w \in {l.w, None} /\ pc'[x] \in {"enable_set", "upgrade_failed", "idle"}
    BY <1>8, <2>1 DEF EnableFailed
  <2>4. CASE l.w # w
    <3>1. tokens'[w] = tokens[w]
      BY <2>1, <2>2, <2>4
    <3> QED
      BY <1>13, <2>1, <2>3, <2>4, <3>1
  <2>5. CASE l.w = w /\ calm'[w]
    <3>1. calm[w] /\ SameToken(w) /\ (sts[w] # None => w \in rowOf) /\ \A k \in l.missing : tokens[w][k] = None
      BY <1>16, <2>1, <2>5 DEF Careful
    <3>2. tokens'[w] = tokens[w] \/ (tokens'[w] = t /\ tokens[w] # None)
      BY <2>1, <2>2, <2>5
    <3>3. \A k \in Keys : tokens[w] # None /\ tokens[w][k] # None => t[k] = tokens[w][k]
      BY <2>5, <3>1
    <3> HIDE DEF t
    <3>4. SameToken(w)'
      BY <1>1, <1>2, <2>1, <3>1, <3>2, <3>3 DEF SameToken
    <3>5. Careful(x, w)'
      BY <2>3 DEF Careful
    <3> QED
      BY <1>14, <2>1, <2>2, <2>5, <3>1, <3>4, <3>5
  <2> QED
    BY <1>6, <2>2, <2>4, <2>5
<1>25. CASE EnableStatefulSet(x)
  <2> DEFINE m == [l EXCEPT !.w = None]
  <2>1. /\ pc[x] = "enable_set" /\ pc[x] \in OnWorkload /\ pc[x] \notin Creation
        /\ UNCHANGED <<tokens, calm, rowOf>>
        /\ sts' = sts \/ (sts' = [sts EXCEPT ![l.w].env = @ \cup l.keys] /\ sts[l.w] # None)
        /\ Goto(x, EnableFailed(x), l) \/ Goto(x, EnableFailed(x), m) \/ Goto(x, "enable", m)
    BY <1>25 DEF EnableStatefulSet, Refused, Call, At, OnWorkload, SpaceLabels, Creation
  <2>2. l.w \in Workloads /\ sts \in [Workloads -> [uid : Nat, env : SUBSET Keys] \cup {None}] /\ l \in Local
    BY <1>0, <1>15, <2>1 DEF TypeOK, WorkspaceTypes
  <2>3. loc'[x].w \in {l.w, None} /\ pc'[x] \in {"enable", "upgrade_failed", "idle"}
    <3>1. m.w = None
      BY <2>2 DEF Local
    <3> HIDE DEF m
    <3>2. ASSUME NEW label \in {"enable", "upgrade_failed", "idle"}, Goto(x, label, m)
          PROVE  pc'[x] = label /\ loc'[x].w = None
      BY <1>0, <1>4, <3>1, <3>2, Went
    <3> QED
      BY <1>8, <2>1, <3>2 DEF EnableFailed
  <2>4. CASE l.w # w
    <3>1. sts'[w] = sts[w]
      BY <2>1, <2>2, <2>4
    <3> QED
      BY <1>13, <2>1, <2>3, <2>4, <3>1
  <2>5. CASE l.w = w
    <3>1. sts'[w] # None => sts[w] # None /\ sts'[w].uid = sts[w].uid
      BY <2>1, <2>2, <2>5
    <3>2. Young(w)'
      BY <1>0, <1>1, <1>2, <3>1 DEF Young
    <3>3. ASSUME calm'[w] PROVE SpaceAt(w)'
      <4>1. calm[w] /\ SameToken(w) /\ (sts[w] # None => w \in rowOf)
        BY <1>16, <2>1, <2>5, <3>3
      <4>2. SameToken(w)'
        BY <1>2, <2>1, <3>1, <4>1 DEF SameToken
      <4>3. Careful(x, w)'
        BY <2>3 DEF Careful
      <4> QED
        BY <1>14, <2>1, <2>5, <3>1, <3>2, <3>3, <4>1, <4>2, <4>3
    <3> QED
      BY <1>6, <3>2, <3>3
  <2> QED
    BY <2>4, <2>5
<1> QED
  BY <1>10, <1>11, <1>12, <1>19, <1>20, <1>21, <1>22, <1>23, <1>24, <1>25 DEF WorkspaceBegin, WorkspaceStep

(* The steps of other components: their handlers are at work on no          *)
(* workspace, apart from an upgrade that fails, which leaves one.           *)
LEMMA SpaceByOthers ==
  ASSUME BaseInv, SpaceInv, NEW x \in Procs, Others(x), UNCHANGED <<workspaceVars>>, fresh' \in Nat, fresh' >= fresh,
         loc'[x].w = None, pc[x] \notin Creation
  PROVE  SpaceInv'
<1>1. ASSUME NEW w \in Workloads PROVE SpaceAt(w)'
  <2>1. /\ fresh \in Nat /\ SpaceAt(w) /\ w # None
        /\ sts[w] # None => sts[w].uid \in Nat
        /\ wpod[w] # None => wpod[w].uid \in Nat
    BY SpaceFacts DEF BaseInv, SpaceInv
  <2> QED
    BY <2>1, SpaceLeft DEF workspaceVars
<1> QED
  BY <1>1 DEF SpaceInv

LEMMA SpaceByCrash ==
  ASSUME BaseInv, SpaceInv, NEW x \in Procs, Crash(x) PROVE SpaceInv'
<1>1. Others(x) /\ pc'[x] = "idle" /\ loc'[x].w = None
  BY CrashMoves DEF BaseInv, NoLocal
<1>2. UNCHANGED <<rowOf, tokens, sts, wpod, fresh>> /\ Abandon(x)
  BY DEF Crash
<1>3. ASSUME NEW w \in Workloads PROVE SpaceAt(w)'
  <2>1. /\ fresh \in Nat /\ SpaceAt(w) /\ w # None /\ calm \in [Workloads -> BOOLEAN]
        /\ sts[w] # None => sts[w].uid \in Nat
        /\ wpod[w] # None => wpod[w].uid \in Nat
    BY SpaceFacts DEF BaseInv, SpaceInv
  <2>2. CASE loc[x].w = w /\ Creating(x)
    <3>1. ~calm'[w]
      BY <1>2, <2>1, <2>2 DEF Abandon, Undone
    <3> QED
      BY <1>2, <2>1, <3>1 DEF SpaceAt, Young
  <2>3. CASE ~(loc[x].w = w /\ Creating(x))
    <3>1. loc[x].w = w => pc[x] \notin Creation
      BY <2>3 DEF Creating, Creation
    <3>2. calm'[w] => calm[w]
      <4>1. Creating(x) => loc[x].w \in Workloads
        <5>1. Creating(x) => pc[x] \in OnWorkload /\ pc[x] \in SpaceLabels
          BY DEF Creating, OnWorkload, SpaceLabels
        <5> QED
          BY <5>1, SpaceLocal DEF BaseInv
      <4> QED
        BY <1>2, <2>1, <2>3, <4>1 DEF Abandon, Undone
    <3> QED
      BY <1>1, <1>2, <2>1, <3>1, <3>2, SpaceLeft
  <2> QED
    BY <2>2, <2>3
<1> QED
  BY <1>3 DEF SpaceInv

LEMMA SpaceByPods ==
  ASSUME BaseInv, SpaceInv, NEW v \in Workloads, WorkspaceStarts(v) \/ WorkspaceStops(v) \/ WorkspaceRestarts(v)
  PROVE  SpaceInv'
<1>1. UNCHANGED <<rowOf, tokens, sts, calm, fresh, pc, loc>>
  BY DEF WorkspaceStarts, WorkspaceStops, WorkspaceRestarts, Quiet, Stay, WTables
<1>2. ASSUME NEW w \in Workloads PROVE SpaceAt(w)'
  <2>1. /\ SpaceAt(w) /\ wpod = [u \in Workloads |-> wpod[u]]
        /\ sts[w] # None => sts[w].uid \in Nat /\ sts[w].uid < fresh
        /\ tokens[w] # None => tokens[w] \in [Keys -> Token]
    BY SpaceFacts DEF BaseInv, TypeOK, WorkspaceTypes, SpaceInv, SpaceAt, Young
  <2>2. CASE wpod'[w] = wpod[w]
    BY <1>1, <2>1, <2>2 DEF SpaceAt, Young, Alone, Owned, SameToken, Careful
  <2>3. CASE wpod'[w] = None
    BY <1>1, <2>1, <2>3 DEF SpaceAt, Young, Alone, Owned, SameToken, Careful
  <2>4. CASE WorkspaceStarts(v) /\ v = w
    <3> DEFINE p == [uid |-> sts[w].uid, env |-> sts[w].env, token |-> [k \in sts[w].env |-> tokens[w][k]]]
    <3>1. /\ wpod'[w] = p /\ sts[w] # None /\ tokens[w] # None
          /\ \A k \in sts[w].env : tokens[w][k] # None
      BY <2>1, <2>4 DEF WorkspaceStarts
    <3>2. p.uid = sts[w].uid /\ p.env = sts[w].env /\ \A k \in sts[w].env : p.token[k] = tokens[w][k]
      OBVIOUS
    <3> HIDE DEF p
    <3>3. Young(w)'
      BY <1>1, <2>1, <3>1, <3>2 DEF Young
    <3>4. SameToken(w)'
      BY <1>1, <3>1, <3>2 DEF SameToken
    <3> QED
      BY <1>1, <2>1, <3>3, <3>4 DEF SpaceAt, Alone, Owned, Careful
  <2>5. \/ wpod'[w] = wpod[w] \/ wpod'[w] = None
        \/ WorkspaceStarts(v) /\ v = w
    BY <2>1 DEF WorkspaceStarts, WorkspaceStops, WorkspaceRestarts
  <2> QED
    BY <2>2, <2>3, <2>4, <2>5
<1> QED
  BY <1>2 DEF SpaceInv

(* "Without rotating other credentials".                                    *)
LEMMA SpaceKept ==
  ASSUME BaseInv, SpaceInv, [Next]_vars PROVE SpaceInv'
<1>0. fresh \in Nat
  BY DEF BaseInv, TypeOK, BackendTypes
<1>1. ASSUME NEW x \in Procs, S3(S3Begin(x)) \/ S3(S3Step(x)) PROVE SpaceInv'
  <2>1. S3Moves(x) /\ UNCHANGED workspaceVars
    BY <1>1, BaseByS3 DEF S3
  <2>2. loc'[x].w = None /\ pc[x] \notin Creation
    BY <2>1, Elsewhere DEF S3Moves, S3Place, S3Labels, OnWorkload, SpaceLabels, Creation
  <2> QED
    BY <1>0, <2>1, <2>2, SpaceByOthers DEF S3Moves
<1>2. ASSUME NEW x \in Procs, Tracking(MlflowBegin(x)) \/ Tracking(MlflowStep(x)) \/ Tracking(Reconcile(x))
      PROVE  SpaceInv'
  <2>1. MlflowMoves(x) /\ UNCHANGED workspaceVars
    BY <1>2, BaseByMlflow DEF Tracking
  <2>2. fresh' \in Nat /\ fresh' >= fresh /\ pc[x] \notin Creation
    BY <2>1 DEF MlflowMoves, BackendTypes, MlflowPlace, MlflowLabels, Creation
  <2> QED
    BY <2>1, <2>2, SpaceByOthers DEF MlflowMoves
<1>3. ASSUME NEW x \in Procs, Workspace(WorkspaceBegin(x)) \/ Workspace(WorkspaceStep(x)) PROVE SpaceInv'
  <2>1. SpaceMoves(x) /\ (WorkspaceBegin(x) \/ WorkspaceStep(x))
    BY <1>3, BaseBySpace DEF Workspace
  <2> QED
    BY <2>1, SpaceStepAt DEF SpaceInv
<1>4. ASSUME NEW x \in Procs, Workflow(WorkflowBegin(x)) \/ Workflow(WorkflowStep(x)) PROVE SpaceInv'
  <2>1. FlowMoves(x) /\ UNCHANGED workspaceVars
    BY <1>4, BaseByFlow DEF Workflow
  <2>2. loc'[x].w = None /\ pc[x] \notin Creation
    BY <2>1, Elsewhere DEF FlowMoves, FlowPlace, FlowLabels, OnWorkload, SpaceLabels, Creation
  <2> QED
    BY <1>0, <2>1, <2>2, SpaceByOthers DEF FlowMoves
<1>5. ASSUME UNCHANGED <<workspaceVars, fresh, pc, loc>> PROVE SpaceInv'
  BY <1>5 DEF workspaceVars, SpaceInv, SpaceAt, Young, Alone, Owned, SameToken, Careful
<1>6. CASE Tracking(PodStarts \/ PodStops) \/ \E f \in Flows : Workflow(WorkflowGone(f))
  <2>1. UNCHANGED <<workspaceVars, fresh, pc, loc>>
    BY <1>6, BaseByCluster DEF Tracking, Workflow
  <2> QED
    BY <1>5, <2>1
<1>7. CASE UNCHANGED vars
  BY <1>5, <1>7 DEF vars, backendVars
<1>8. ASSUME NEW w \in Workloads, Workspace(WorkspaceStarts(w) \/ WorkspaceStops(w)) \/ Workspace(WorkspaceRestarts(w))
      PROVE  SpaceInv'
  BY <1>8, SpaceByPods DEF Workspace
<1> QED
  BY <1>1, <1>2, <1>3, <1>4, <1>6, <1>7, <1>8, SpaceByCrash DEF Next, Clusters, Step, Procs

-----------------------------------------------------------------------------
(* Credentials that are current                                             *)

(* What a step of x leaves to the others: a profile that is locked by       *)
(* another one, the row of a credential once it is there, its mark, and its *)
(* Secret and ConfigMap, unless the step holds their profile or makes the   *)
(* credential.                                                              *)
Leaves(x) ==
  /\ \A q \in Profiles : LiveProfile(q) /\ lock[q].by # x /\ lock[q].mode # "none" =>
                           lock'[q] = lock[q] /\ profiles'[q] = profiles[q]
  /\ \A r \in Creds :
       LET mine == creds[r].state = "unborn" \/ (creds[r].profile \in Profiles /\ lock[creds[r].profile].by = x)
       IN /\ creds[r].state # "unborn" => creds'[r].state # "unborn" /\ creds'[r].profile = creds[r].profile
          /\ creds[r].state = "unborn" =>
               \/ creds'[r].state = "unborn"
               \/ Creates(x) /\ loc[x].c = r /\ (creds'[r].profile = None \/ creds'[r].err # "")
          /\ creds[r].state # "live" => creds[r].state = "unborn" \/ creds'[r].state # "live"
          /\ creds'[r].err = "" => creds[r].err = "" \/ mine
          /\ secret'[r] \in {secret[r], None} \/ mine
          /\ cmap'[r] \in {cmap[r], None} \/ mine

(* What it sees to itself.                                                  *)
Own(x) ==
  /\ loc'[x].c # None => (creds'[loc'[x].c].state = "unborn" <=> Creates(x)')
  /\ Creates(x)' => (Creates(x) /\ loc'[x].c = loc[x].c) \/ \A y \in Procs : loc[y].c # loc'[x].c
  /\ EditInv(x)' /\ SyncInv(x)'

LEMMA EditKept ==
  ASSUME TypeOK, NEW x \in Procs, NEW y \in Procs \ {x}, Leaves(x), EditInv(y), pc'[y] = pc[y], loc'[y] = loc[y]
  PROVE  EditInv(y)'
<1> DEFINE p == loc[y].p
<1> SUFFICES ASSUME pc[y] = "update_commit"
             PROVE  /\ LiveProfile(p)' /\ lock'[p] = [by |-> y, mode |-> "update"]
                    /\ \A r \in Linked(p)' : creds'[r].err = "" => r \in DOMAIN loc[y].known /\ loc[y].known[r] # "pending"
  BY DEF EditInv
<1>1. /\ p \in Profiles /\ LiveProfile(p) /\ lock[p].by = y /\ lock[p].mode # "none"
      /\ lock[p] = [by |-> y, mode |-> "update"]
      /\ \A r \in Linked(p) : creds[r].err = "" => r \in DOMAIN loc[y].known /\ loc[y].known[r] # "pending"
  <2>1. p \in Profiles
    BY DEF TypeOK, Handlers, Fits, OnProfile
  <2>2. /\ LiveProfile(p) /\ lock[p] = [by |-> y, mode |-> "update"]
        /\ \A r \in Linked(p) : creds[r].err = "" => r \in DOMAIN loc[y].known /\ loc[y].known[r] # "pending"
    BY DEF EditInv
  <2>3. lock[p].by = y /\ lock[p].mode = "update"
    <3>1. lock[p] = [by |-> y, mode |-> "update"]
      BY <2>2
    <3> HIDE DEF p
    <3> QED
      BY <3>1
  <2> QED
    BY <2>1, <2>2, <2>3
<1>2. lock'[p] = lock[p] /\ profiles'[p] = profiles[p]
  BY <1>1 DEF Leaves
<1>3. ASSUME NEW r \in Creds, creds'[r].state = "live", creds'[r].profile = p, creds'[r].err = ""
      PROVE  creds[r].state = "live" /\ creds[r].profile = p /\ creds[r].err = ""
  <2>1. p # None
    BY <1>1
  <2>2. creds[r].state # "unborn"
    BY <1>3, <2>1 DEF Leaves
  <2>3. creds[r].profile = p /\ creds[r].state = "live"
    BY <1>3, <2>2 DEF Leaves
  <2> QED
    BY <1>1, <1>3, <2>2, <2>3 DEF Leaves
<1> QED
  BY <1>1, <1>2, <1>3 DEF LiveProfile, Linked, LiveCred

LEMMA SyncKept ==
  ASSUME TypeOK, NEW x \in Procs, NEW y \in Procs \ {x}, Leaves(x), SyncInv(y), pc'[y] = pc[y], loc'[y] = loc[y]
  PROVE  SyncInv(y)'
<1> DEFINE l == loc[y]
<1> SUFFICES ASSUME pc[y] \in {"sync_secret", "sync_repository"}
             PROVE  /\ LiveProfile(l.p)' /\ lock'[l.p] = [by |-> y, mode |-> "for_update"] /\ l.v = profiles'[l.p].v
                    /\ \A r \in DOMAIN l.err : creds'[r].profile = l.p /\ creds'[r].state # "unborn"
                    /\ \A r \in DOMAIN l.err \ l.todo : l.err[r] = "" => {secret'[r], cmap'[r]} \subseteq {None, l.v}
                    /\ pc[y] = "sync_repository" => secret'[l.c] \in {None, l.v}
  BY DEF SyncInv
<1>1. /\ l.p \in Profiles /\ LiveProfile(l.p) /\ lock[l.p].by = y /\ lock[l.p].mode # "none"
      /\ lock[l.p] = [by |-> y, mode |-> "for_update"] /\ l.v = profiles[l.p].v
      /\ \A r \in DOMAIN l.err : creds[r].profile = l.p /\ creds[r].state # "unborn"
      /\ \A r \in DOMAIN l.err \ l.todo : l.err[r] = "" => {secret[r], cmap[r]} \subseteq {None, l.v}
      /\ pc[y] = "sync_repository" => secret[l.c] \in {None, l.v} /\ l.c \in DOMAIN l.err
  <2>1. l.p \in Profiles /\ l.todo \subseteq DOMAIN l.err /\ (pc[y] = "sync_repository" => l.c \in l.todo)
    BY DEF TypeOK, Handlers, Fits, OnProfile
  <2>2. /\ LiveProfile(l.p) /\ lock[l.p] = [by |-> y, mode |-> "for_update"] /\ l.v = profiles[l.p].v
        /\ \A r \in DOMAIN l.err : creds[r].profile = l.p /\ creds[r].state # "unborn"
        /\ \A r \in DOMAIN l.err \ l.todo : l.err[r] = "" => {secret[r], cmap[r]} \subseteq {None, l.v}
        /\ pc[y] = "sync_repository" => secret[l.c] \in {None, l.v}
    BY DEF SyncInv
  <2> HIDE DEF l
  <2>3. lock[l.p].by = y /\ lock[l.p].mode = "for_update"
    <3>1. lock[l.p] = [by |-> y, mode |-> "for_update"]
      BY <2>2
    <3> QED
      BY <3>1
  <2> QED
    BY <2>1, <2>2, <2>3
<1>2. DOMAIN l.err \subseteq Creds
  <2>1. l.err \in Marks
    BY DEF TypeOK, Handlers, Local
  <2> QED
    BY <2>1, MarksFacts
<1>3. lock'[l.p] = lock[l.p] /\ profiles'[l.p] = profiles[l.p]
  BY <1>1 DEF Leaves
<1>4. ASSUME NEW r \in DOMAIN l.err
      PROVE  /\ creds'[r].profile = l.p /\ creds'[r].state # "unborn"
             /\ secret'[r] \in {secret[r], None} /\ cmap'[r] \in {cmap[r], None}
  <2>1. r \in Creds /\ creds[r].state # "unborn" /\ creds[r].profile = l.p /\ lock[creds[r].profile].by # x
    BY <1>1, <1>2
  <2> QED
    BY <2>1 DEF Leaves
<1>5. LiveProfile(l.p)' /\ lock'[l.p] = [by |-> y, mode |-> "for_update"] /\ l.v = profiles'[l.p].v
  BY <1>1, <1>3 DEF LiveProfile
<1>6. ASSUME NEW r \in DOMAIN l.err \ l.todo, l.err[r] = ""
      PROVE  {secret'[r], cmap'[r]} \subseteq {None, l.v}
  <2>1. {secret[r], cmap[r]} \subseteq {None, l.v}
    BY <1>1, <1>6
  <2>2. secret'[r] \in {secret[r], None} /\ cmap'[r] \in {cmap[r], None}
    BY <1>4, <1>6
  <2> QED
    BY <2>1, <2>2
<1>7. ASSUME pc[y] = "sync_repository"
      PROVE  secret'[l.c] \in {None, l.v}
  <2>1. secret[l.c] \in {None, l.v} /\ l.c \in DOMAIN l.err
    BY <1>1, <1>7
  <2>2. secret'[l.c] \in {secret[l.c], None}
    BY <1>4, <2>1
  <2> QED
    BY <2>1, <2>2
<1> HIDE DEF l
<1> QED
  BY <1>4, <1>5, <1>6, <1>7

LEMMA ProfileKept ==
  ASSUME TypeOK, Handlers', ProfileInv, NEW x \in Procs, Others(x), Leaves(x), Own(x), SyncedIsCurrent', Referenced'
  PROVE  ProfileInv'
<1>1. ASSUME NEW y \in Procs PROVE EditInv(y)' /\ SyncInv(y)'
  <2>1. CASE y = x
    BY <2>1 DEF Own
  <2>2. CASE y # x
    BY <2>2, EditKept, SyncKept DEF ProfileInv, Others
  <2> QED
    BY <2>1, <2>2
<1>2. ASSUME NEW y \in Procs, loc'[y].c # None PROVE creds'[loc'[y].c].state = "unborn" <=> Creates(y)'
  <2>1. CASE y = x
    BY <1>2, <2>1 DEF Own
  <2>2. CASE y # x
    <3>1. loc'[y] = loc[y] /\ pc'[y] = pc[y] /\ loc[y].c \in Creds
      BY <1>2, <2>2 DEF Others, TypeOK, Handlers, Local
    <3>2. creds[loc[y].c].state = "unborn" <=> Creates(y)
      BY <1>2, <3>1 DEF ProfileInv, RowInv
    <3>3. ~(Creates(x) /\ loc[x].c = loc[y].c)
      BY <2>2 DEF ProfileInv, RowInv
    <3>4. Creates(y)' <=> Creates(y)
      BY <3>1 DEF Creates
    <3> QED
      BY <3>1, <3>2, <3>3, <3>4 DEF Leaves
  <2> QED
    BY <2>1, <2>2
<1>3. ASSUME NEW y \in Procs, NEW z \in Procs, Creates(y)', loc'[y].c = loc'[z].c PROVE y = z
  <2>1. loc'[y].c # None
    BY <1>3 DEF Creates, Handlers, Fits, OnCredential
  <2>2. Creates(z)'
    BY <1>2, <1>3, <2>1
  <2>3. \A u \in Procs \ {x} : loc'[u] = loc[u] /\ (Creates(u)' <=> Creates(u))
    BY DEF Others, Creates
  <2>4. CASE y # x /\ z # x
    BY <1>3, <2>3, <2>4 DEF ProfileInv, RowInv
  <2>5. CASE y = x /\ z # x
    BY <1>3, <2>2, <2>3, <2>5 DEF Own, ProfileInv, RowInv
  <2>6. CASE y # x /\ z = x
    BY <1>3, <2>2, <2>3, <2>6 DEF Own, ProfileInv, RowInv
  <2> QED
    BY <2>4, <2>5, <2>6
<1> QED
  BY <1>1, <1>2, <1>3 DEF ProfileInv, RowInv

(* One that changes no credential.                                          *)
LEMMA Still ==
  ASSUME NEW x \in Procs, UNCHANGED <<creds, secret, cmap>>,
         \A q \in Profiles : LiveProfile(q) /\ lock[q].by # x /\ lock[q].mode # "none" =>
                               lock'[q] = lock[q] /\ profiles'[q] = profiles[q]
  PROVE  Leaves(x)
BY DEF Leaves

LEMMA CurrentStill ==
  ASSUME TypeOK, ProfileInv, creds' = creds, \A q \in Profiles : LiveProfile(q) => profiles'[q] = profiles[q],
         \A r \in Creds : /\ secret'[r] \in {secret[r], None} \/ ~LiveCred(r) \/ secret'[r] = profiles[creds[r].profile].v
                          /\ cmap'[r] \in {cmap[r], None} \/ ~LiveCred(r) \/ cmap'[r] = profiles[creds[r].profile].v
  PROVE  SyncedIsCurrent' /\ Referenced'
<1>1. ASSUME NEW r \in Creds, LiveCred(r), creds[r].profile # None
      PROVE  /\ profiles'[creds[r].profile].state = "live"
             /\ creds[r].err = "" => /\ secret'[r] \in {None, profiles'[creds[r].profile].v}
                                     /\ cmap'[r] \in {None, profiles'[creds[r].profile].v}
  <2>1. creds[r].profile \in Profiles /\ LiveProfile(creds[r].profile)
    <3>1. LiveProfile(creds[r].profile)
      BY <1>1 DEF ProfileInv, RowInv, Referenced
    <3>2. creds[r] \in CredRow
      BY DEF TypeOK, S3Types
    <3> QED
      BY <1>1, <3>1, <3>2 DEF CredRow
  <2>2. profiles'[creds[r].profile] = profiles[creds[r].profile]
    BY <2>1
  <2>3. creds[r].err = "" => /\ secret[r] \in {None, profiles[creds[r].profile].v}
                             /\ cmap[r] \in {None, profiles[creds[r].profile].v}
    BY <1>1 DEF ProfileInv, SyncedIsCurrent
  <2> QED
    BY <1>1, <2>1, <2>2, <2>3 DEF LiveProfile
<1>2. SyncedIsCurrent'
  BY <1>1 DEF SyncedIsCurrent, LiveCred
<1>3. Referenced'
  BY <1>1 DEF Referenced, LiveCred, LiveProfile
<1> QED
  BY <1>2, <1>3

Held == {"update_commit", "sync_secret", "sync_repository"}

LEMMA OwnLoose ==
  ASSUME NEW x \in Procs, pc'[x] \notin Held, ~Creates(x)',
         loc'[x].c # None => creds'[loc'[x].c].state # "unborn"
  PROVE  Own(x)
BY DEF Own, EditInv, SyncInv, Held

LEMMA ProfileByBegin ==
  ASSUME BaseInv, ProfileInv, NEW x \in Procs, S3Begin(x), S3Moves(x) PROVE ProfileInv'
<1>0. TypeOK /\ Handlers /\ Handlers' /\ Others(x) /\ \A p \in Profiles, r \in Creds : p # None /\ r # None
  BY DEF BaseInv, TypeOK, S3Moves
<1>1. CASE CreateProfile(x)
  <2>1. /\ UNCHANGED <<creds, secret, cmap, lock, pc, loc>> /\ pc[x] = "idle"
        /\ \A q \in Profiles : LiveProfile(q) => profiles'[q] = profiles[q]
    BY <1>0, <1>1 DEF CreateProfile, Stay, s3Vars, Begin, At, LiveProfile, TypeOK, BackendTypes
  <2>2. Leaves(x)
    BY <2>1, Still
  <2>3. SyncedIsCurrent' /\ Referenced'
    BY <1>0, <2>1, CurrentStill
  <2>4. Own(x)
    <3>1. pc'[x] = "idle" /\ loc'[x].c = None
      BY <1>0, <2>1, Elsewhere DEF OnCredential
    <3> QED
      BY <3>1, OwnLoose DEF Held, Creates
  <2> QED
    BY <1>0, <2>2, <2>3, <2>4, ProfileKept
<1>2. CASE ~CreateProfile(x)
  <2>1. UNCHANGED <<profiles, creds, secret, cmap, lock>>
    BY <1>2 DEF S3Begin, UpdateProfile, DeleteProfile, CreateCredential, DeleteCredential, RetrySync, s3Vars
  <2>2. Leaves(x)
    BY <2>1, Still
  <2>3. SyncedIsCurrent' /\ Referenced'
    BY <1>0, <2>1, CurrentStill
  <2>4. Own(x)
    <3>1. CASE UpdateProfile(x) \/ DeleteProfile(x)
      <4>1. PICK label \in {"update_flush", "profile_delete"} : \E l : Goto(x, label, l)
        BY <3>1 DEF UpdateProfile, DeleteProfile
      <4>2. pc'[x] = label
        BY <1>0, <4>1, Went
      <4>3. loc'[x].c = None
        BY <1>0, <4>2, Elsewhere DEF OnCredential
      <4> QED
        BY <4>2, <4>3, OwnLoose DEF Held, Creates
    <3>2. CASE CreateCredential(x)
      <4>1. PICK r \in Creds : /\ creds[r].state = "unborn" /\ \A y \in Procs : loc[y].c # r
                               /\ \E l : Goto(x, "credential_secret", l) /\ l.c = r
        <5>1. PICK r \in Creds, p \in Profiles \cup {None} :
                /\ creds[r].state = "unborn" /\ \A y \in Procs : loc[y].c # r
                /\ Goto(x, "credential_secret", [NoLocal EXCEPT !.c = r, !.p = p, !.v = IF p = None THEN 0 ELSE profiles[p].v])
          BY <3>2 DEF CreateCredential
        <5> DEFINE l == [NoLocal EXCEPT !.c = r, !.p = p, !.v = IF p = None THEN 0 ELSE profiles[p].v]
        <5>2. l.c = r
          BY DEF NoLocal
        <5>3. Goto(x, "credential_secret", l)
          BY <5>1
        <5> HIDE DEF l
        <5> QED
          BY <5>1, <5>2, <5>3
      <4>2. pc'[x] = "credential_secret" /\ loc'[x].c = r
        BY <1>0, <4>1, Went
      <4> QED
        BY <2>1, <4>1, <4>2 DEF Own, EditInv, SyncInv, Creates
    <3>3. CASE DeleteCredential(x) \/ RetrySync(x)
      <4>1. PICK r \in Creds, label \in {"delete_secret", "delete_repository", "sync_lock"} :
              LiveCred(r) /\ \E l : Goto(x, label, l) /\ l.c = r
        <5>1. CASE DeleteCredential(x)
          <6>1. PICK r \in Creds, label \in {"delete_secret", "delete_repository"} :
                  LiveCred(r) /\ Goto(x, label, [NoLocal EXCEPT !.c = r])
            BY <5>1 DEF DeleteCredential
          <6> DEFINE l == [NoLocal EXCEPT !.c = r]
          <6>2. l.c = r
            BY DEF NoLocal
          <6>3. LiveCred(r) /\ Goto(x, label, l)
            BY <6>1
          <6> HIDE DEF l
          <6> QED
            BY <6>2, <6>3
        <5>2. CASE RetrySync(x)
          <6>1. PICK r \in Creds : /\ LiveCred(r)
                                   /\ Goto(x, "sync_lock", [NoLocal EXCEPT !.c = r, !.p = creds[r].profile,
                                                                           !.known = Mark(r, creds[r].err)])
            BY <5>2 DEF RetrySync
          <6> DEFINE l == [NoLocal EXCEPT !.c = r, !.p = creds[r].profile, !.known = Mark(r, creds[r].err)]
          <6>2. l.c = r
            BY DEF NoLocal
          <6>3. LiveCred(r) /\ Goto(x, "sync_lock", l)
            BY <6>1
          <6> HIDE DEF l
          <6> QED
            BY <6>2, <6>3
        <5> QED
          BY <3>3, <5>1, <5>2
      <4>2. pc'[x] = label /\ loc'[x].c = r
        BY <1>0, <4>1, Went
      <4>3. creds'[r].state # "unborn"
        BY <2>1, <4>1 DEF LiveCred
      <4> QED
        BY <4>2, <4>3, OwnLoose DEF Held, Creates
    <3> QED
      BY <1>2, <3>1, <3>2, <3>3 DEF S3Begin
  <2> QED
    BY <1>0, <2>2, <2>3, <2>4, ProfileKept
<1> QED
  BY <1>1, <1>2

(* What the two invariants say of one credential.                           *)
CurrentAt(r) ==
  creds[r].state = "live" /\ creds[r].profile # None =>
    /\ profiles[creds[r].profile].state = "live"
    /\ creds[r].err = "" => /\ secret[r] \in {None, profiles[creds[r].profile].v}
                            /\ cmap[r] \in {None, profiles[creds[r].profile].v}

LEMMA CurrentEach ==
  /\ SyncedIsCurrent /\ Referenced <=> \A r \in Creds : CurrentAt(r)
  /\ SyncedIsCurrent' /\ Referenced' <=> \A r \in Creds : CurrentAt(r)'
<1>1. SyncedIsCurrent /\ Referenced <=> \A r \in Creds : CurrentAt(r)
  BY DEF SyncedIsCurrent, Referenced, LiveCred, LiveProfile, CurrentAt
<1>2. SyncedIsCurrent' /\ Referenced' <=> \A r \in Creds : CurrentAt(r)'
  BY DEF SyncedIsCurrent, Referenced, LiveCred, LiveProfile, CurrentAt
<1> QED
  BY <1>1, <1>2

(* Edits, deletions of profiles, and a synchronization that begins: these   *)
(* change no credential's objects.                                          *)
LEMMA ProfileByLocks ==
  ASSUME BaseInv, ProfileInv, NEW x \in Procs, S3Moves(x), UpdateFlush(x) \/ ProfileDelete(x) \/ SyncLock(x)
  PROVE  ProfileInv'
<1>l. PICK l \in Local : l = loc[x]
  BY DEF BaseInv, TypeOK, Handlers
<1> DEFINE p == l.p
<1>0. /\ TypeOK /\ Handlers /\ Handlers' /\ Others(x)
      /\ Fits(pc[x], l)
      /\ pc[x] \in {"update_flush", "profile_delete", "sync_lock"}
  BY <1>l DEF BaseInv, TypeOK, S3Moves, Handlers, UpdateFlush, ProfileDelete, SyncLock, At
<1>1. p \in Profiles /\ lock \in [Profiles -> [by : Procs \cup {None}, mode : {"none", "update", "for_update"}]]
  BY <1>0 DEF Fits, OnProfile, TypeOK, S3Types
<1>2. UNCHANGED <<creds, secret, cmap>> /\ lock[p].mode = "none"
  BY <1>l DEF UpdateFlush, ProfileDelete, SyncLock, CanWrite, Objects, s3Vars
<1>3. ASSUME NEW m \in {"update", "for_update"}, lock' = lock \/ lock' = [lock EXCEPT ![p] = [by |-> x, mode |-> m]],
             \A q \in Profiles \ {p} : profiles'[q] = profiles[q]
      PROVE  Leaves(x)
  <2>1. \A q \in Profiles : lock[q].mode # "none" => lock'[q] = lock[q] /\ profiles'[q] = profiles[q]
    BY <1>1, <1>2, <1>3
  <2> QED
    BY <1>2, <2>1, Still
<1>4. ASSUME End(x) PROVE Own(x)
  <2>1. pc'[x] = "idle" /\ loc'[x].c = None
    BY <1>0, <1>4, Ending DEF NoLocal
  <2> QED
    BY <2>1, OwnLoose DEF Held, Creates
<1>5. CASE ProfileDelete(x)
  <2>1. /\ lock' = lock /\ End(x)
        /\ profiles' = profiles \/ (profiles' = [profiles EXCEPT ![p].state = "gone"] /\ Linked(p) = {})
    BY <1>l, <1>5 DEF ProfileDelete, s3Vars
  <2>2. profiles \in [Profiles -> ProfileRow]
    BY <1>0 DEF TypeOK, BackendTypes
  <2>3. Leaves(x)
    BY <1>3, <2>1, <2>2
  <2>4. SyncedIsCurrent' /\ Referenced'
    <3>1. CASE profiles' = profiles
      BY <1>0, <1>2, <3>1, CurrentStill
    <3>2. CASE profiles' = [profiles EXCEPT ![p].state = "gone"] /\ Linked(p) = {}
      <4>1. \A q \in Profiles : profiles'[q].v = profiles[q].v /\ (q # p => profiles'[q] = profiles[q])
        BY <1>1, <2>2, <3>2 DEF ProfileRow
      <4>2. \A r \in Creds : LiveCred(r) => creds[r].profile # p
        BY <3>2 DEF Linked
      <4>3. \A r \in Creds : creds[r].profile \in Profiles \cup {None}
        BY <1>0 DEF TypeOK, S3Types, CredRow
      <4>4. ASSUME NEW r \in Creds PROVE CurrentAt(r)'
        <5>1. CurrentAt(r)
          BY CurrentEach DEF ProfileInv, RowInv
        <5>2. creds[r].state = "live" => creds[r].profile # p
          BY <4>2 DEF LiveCred
        <5>3. creds[r].state = "live" /\ creds[r].profile # None =>
                profiles'[creds[r].profile] = profiles[creds[r].profile]
          BY <4>1, <4>3, <5>2
        <5> QED
          BY <1>2, <5>1, <5>3 DEF CurrentAt
      <4> QED
        BY <4>4, CurrentEach
    <3> QED
      BY <2>1, <3>1, <3>2
  <2> QED
    BY <1>0, <1>4, <2>1, <2>3, <2>4, ProfileKept
<1>6. CASE UpdateFlush(x) \/ SyncLock(x)
  <2>1. UNCHANGED profiles
    BY <1>6 DEF UpdateFlush, SyncLock, Tables
  <2>2. SyncedIsCurrent' /\ Referenced'
    BY <1>0, <1>2, <2>1, CurrentStill
  <2>3. CASE UpdateFlush(x)
    <3>1. \/ End(x) /\ lock' = lock
          \/ /\ LiveProfile(p) /\ lock' = [lock EXCEPT ![p] = [by |-> x, mode |-> "update"]]
             /\ Goto(x, "update_commit", [l EXCEPT !.known = [r \in Linked(p) |-> creds[r].err]])
      BY <1>l, <2>3 DEF UpdateFlush
    <3>2. Leaves(x)
      BY <1>3, <2>1, <3>1
    <3>3. ASSUME LiveProfile(p), lock' = [lock EXCEPT ![p] = [by |-> x, mode |-> "update"]],
                 Goto(x, "update_commit", [l EXCEPT !.known = [r \in Linked(p) |-> creds[r].err]])
          PROVE  Own(x)
      <4> DEFINE m == [l EXCEPT !.known = [r \in Linked(p) |-> creds[r].err]]
      <4>1. m.p = p /\ m.c = None /\ m.known = [r \in Linked(p) |-> creds[r].err] /\ Goto(x, "update_commit", m)
        <5>1. l.c = None
          BY <1>0, <2>3 DEF Fits, OnCredential, UpdateFlush, At
        <5> QED
          BY <1>0, <3>3, <5>1 DEF Local
      <4> HIDE DEF m
      <4>2. pc'[x] = "update_commit" /\ loc'[x] = m
        BY <1>0, <4>1, Went
      <4>3. lock'[p] = [by |-> x, mode |-> "update"]
        BY <1>1, <3>3
      <4>4. Linked(p)' = Linked(p) /\ LiveProfile(p)' /\ \A r \in Linked(p) : m.known[r] = creds'[r].err
        BY <1>2, <2>1, <3>3, <4>1 DEF Linked, LiveCred, LiveProfile
      <4>5. EditInv(x)'
        <5>1. loc'[x].p = p /\ loc'[x].known = m.known /\ \A r \in Linked(p) : r \in DOMAIN m.known
          BY <4>1, <4>2
        <5> HIDE DEF p
        <5> QED
          BY <4>2, <4>3, <4>4, <5>1 DEF EditInv
      <4> QED
        BY <4>1, <4>2, <4>5 DEF Own, Creates, SyncInv
    <3> QED
      BY <1>0, <1>4, <2>2, <3>1, <3>2, <3>3, ProfileKept
  <2>4. CASE SyncLock(x)
    <3>1. \/ End(x) /\ lock' = lock
          \/ /\ LiveProfile(p) /\ lock' = [lock EXCEPT ![p] = [by |-> x, mode |-> "for_update"]]
             /\ Goto(x, "sync_secret", Synchronizing(l, p))
      BY <1>l, <2>4 DEF SyncLock
    <3>2. Leaves(x)
      BY <1>3, <2>1, <3>1
    <3>3. ASSUME LiveProfile(p), lock' = [lock EXCEPT ![p] = [by |-> x, mode |-> "for_update"]],
                 Goto(x, "sync_secret", Synchronizing(l, p))
          PROVE  Own(x)
      <4> DEFINE m == Synchronizing(l, p)
      <4>1. m.p = p /\ m.c = None /\ m.v = profiles[p].v /\ DOMAIN m.err = Linked(p) /\ m.todo = Linked(p)
        BY <1>0 DEF Synchronizing, Loaded, Local
      <4> HIDE DEF m
      <4>2. pc'[x] = "sync_secret" /\ loc'[x] = m
        BY <1>0, <3>3, Went DEF m
      <4>3. lock'[p] = [by |-> x, mode |-> "for_update"]
        BY <1>1, <3>3
      <4>4. /\ LiveProfile(p)' /\ m.v = profiles'[p].v
            /\ \A r \in Linked(p) : creds'[r].profile = p /\ creds'[r].state # "unborn"
        BY <1>2, <2>1, <3>3, <4>1 DEF Linked, LiveCred, LiveProfile
      <4>5. SyncInv(x)'
        <5>1. loc'[x].p = p /\ loc'[x].v = m.v /\ DOMAIN loc'[x].err = Linked(p) /\ loc'[x].todo = Linked(p)
          BY <4>1, <4>2
        <5> HIDE DEF p
        <5> QED
          BY <4>2, <4>3, <4>4, <5>1 DEF SyncInv
      <4> QED
        BY <4>1, <4>2, <4>5 DEF Own, Creates, EditInv
    <3> QED
      BY <1>0, <1>4, <2>2, <3>1, <3>2, <3>3, ProfileKept
  <2> QED
    BY <1>6, <2>3, <2>4
<1> QED
  BY <1>5, <1>6

(* Secrets and ConfigMaps of credentials that are made or deleted.          *)
LEMMA ProfileByObjects ==
  ASSUME BaseInv, ProfileInv, NEW x \in Procs, S3Moves(x),
         ApplySecret(x) \/ UndoSecret(x) \/ DeleteRepository(x) \/ DeleteSecret(x)
  PROVE  ProfileInv'
<1> DEFINE l == loc[x]
           c == l.c
<1>0. /\ TypeOK /\ Handlers /\ Handlers' /\ Others(x)
      /\ pc[x] \in {"credential_secret", "credential_undo", "delete_repository", "delete_secret"}
  BY DEF BaseInv, TypeOK, S3Moves, ApplySecret, UndoSecret, DeleteRepository, DeleteSecret, At
<1>1. /\ c \in Creds /\ c # None /\ secret \in [Creds -> Token] /\ cmap \in [Creds -> Token]
      /\ creds[c].state = "unborn" <=> Creates(x)
  <2>1. Fits(pc[x], l)
    BY <1>0 DEF Handlers
  <2>2. c \in Creds
    BY <1>0, <2>1 DEF Fits, OnCredential
  <2> QED
    BY <1>0, <2>2 DEF TypeOK, S3Types, ProfileInv, RowInv
<1>2. /\ UNCHANGED <<profiles, creds, lock>>
      /\ \/ cmap' = cmap /\ (secret' = secret \/ secret' = [secret EXCEPT ![c] = None])
         \/ cmap' = cmap /\ ApplySecret(x) /\ secret' = [secret EXCEPT ![c] = l.v]
         \/ secret' = secret /\ (cmap' = cmap \/ cmap' = [cmap EXCEPT ![c] = None])
  BY DEF ApplySecret, UndoSecret, DeleteRepository, DeleteSecret, Call, Tables
<1>3. ApplySecret(x) => creds[c].state = "unborn"
  BY <1>1 DEF ApplySecret, At, Creates
<1>4. \A r \in Creds : /\ secret'[r] \in {secret[r], None} \/ creds[r].state = "unborn"
                       /\ cmap'[r] \in {cmap[r], None}
  BY <1>1, <1>2, <1>3
<1>5. Leaves(x)
  BY <1>2, <1>4 DEF Leaves
<1>6. SyncedIsCurrent' /\ Referenced'
  <2>1. \A r \in Creds : ~LiveCred(r) \/ creds[r].state # "unborn"
    BY DEF LiveCred
  <2>2. \A r \in Creds : creds[r].state = "unborn" => ~LiveCred(r)
    BY DEF LiveCred
  <2> QED
    BY <1>0, <1>2, <1>4, <2>2, CurrentStill
<1>7. PICK label \in {"credential_insert", "idle", "delete_secret", "delete_row"} :
        Goto(x, label, l) /\ (label = "credential_insert" => ApplySecret(x))
                          /\ (label \in {"delete_secret", "delete_row"} => DeleteRepository(x) \/ DeleteSecret(x))
  BY DEF ApplySecret, UndoSecret, DeleteRepository, DeleteSecret, Call
<1>8. pc'[x] = label /\ (label # "idle" => loc'[x] = l) /\ (label = "idle" => loc'[x].c = None)
  BY <1>0, <1>7, Went DEF NoLocal
<1>9. Own(x)
  <2>1. CASE label = "credential_insert"
    <3>1. Creates(x) /\ Creates(x)' /\ pc'[x] = "credential_insert" /\ loc'[x] = l
      BY <1>7, <1>8, <2>1 DEF ApplySecret, At, Creates
    <3>2. creds'[c].state = "unborn"
      BY <1>1, <1>2, <3>1
    <3> QED
      BY <3>1, <3>2 DEF Own, EditInv, SyncInv
  <2>2. CASE label = "idle"
    BY <1>8, <2>2, OwnLoose DEF Held, Creates
  <2>3. CASE label \in {"delete_secret", "delete_row"}
    <3>1. ~Creates(x)
      BY <1>7, <2>3 DEF DeleteRepository, DeleteSecret, At, Creates
    <3>2. loc'[x] = l /\ pc'[x] \in {"delete_secret", "delete_row"}
      BY <1>8, <2>3
    <3>3. creds'[loc'[x].c].state # "unborn"
      BY <1>1, <1>2, <3>1, <3>2
    <3> QED
      BY <3>2, <3>3, OwnLoose DEF Held, Creates
  <2> QED
    BY <2>1, <2>2, <2>3
<1> QED
  BY <1>0, <1>5, <1>6, <1>9, ProfileKept

(* A synchronization that goes on to its next credential.  Everything that  *)
(* it writes belongs to the profile that it holds.                          *)
Turn(x, l, r, label, m) ==
  /\ UNCHANGED <<profiles, creds, lock>>
  /\ secret' \in {secret, [secret EXCEPT ![r] = l.v]} /\ cmap' \in {cmap, [cmap EXCEPT ![r] = l.v]}
  /\ Goto(x, label, m) /\ m.p = l.p /\ m.v = l.v /\ DOMAIN m.err = DOMAIN l.err
  /\ label = "sync_secret" => m.c = None
  /\ label = "sync_repository" => m.c = r /\ secret'[r] = l.v
  /\ \A q \in DOMAIN m.err \ m.todo : m.err[q] = "" =>
       \/ q # r /\ q \in DOMAIN l.err \ l.todo /\ l.err[q] = ""
       \/ q = r /\ {secret'[r], cmap'[r]} \subseteq {None, l.v}

LEMMA SyncTurn ==
  ASSUME BaseInv, ProfileInv, NEW x \in Procs, S3Moves(x), pc[x] \in {"sync_secret", "sync_repository"},
         NEW l \in Local, l = loc[x], NEW r \in l.todo, NEW label \in {"sync_secret", "sync_repository"}, NEW m,
         Turn(x, l, r, label, m)
  PROVE  ProfileInv'
<1>0. TypeOK /\ Handlers /\ Handlers' /\ Others(x) /\ Fits(pc[x], l)
  BY DEF BaseInv, TypeOK, S3Moves, Handlers
<1>1. pc'[x] = label /\ loc'[x] = m
  <2>1. label # "idle" /\ Goto(x, label, m)
    BY DEF Turn
  <2> QED
    BY <1>0, <2>1, Went
<1> USE DEF Turn
<1>2. /\ LiveProfile(l.p) /\ lock[l.p] = [by |-> x, mode |-> "for_update"] /\ l.v = profiles[l.p].v
      /\ \A q \in DOMAIN l.err : creds[q].profile = l.p /\ creds[q].state # "unborn"
      /\ \A q \in DOMAIN l.err \ l.todo : l.err[q] = "" => {secret[q], cmap[q]} \subseteq {None, l.v}
  BY DEF ProfileInv, SyncInv
<1>3. l.p \in Profiles /\ DOMAIN l.err \subseteq Creds /\ l.todo \subseteq DOMAIN l.err
  <2>1. l.err \in Marks
    BY DEF Local
  <2> QED
    BY <1>0, <2>1, MarksFacts DEF Fits, OnProfile
<1>4. /\ r \in Creds /\ creds[r].profile = l.p /\ creds[r].state # "unborn" /\ lock[l.p].by = x
      /\ \A q \in Creds \ {r} : secret'[q] = secret[q] /\ cmap'[q] = cmap[q]
      /\ secret'[r] \in {secret[r], l.v} /\ cmap'[r] \in {cmap[r], l.v}
  <2>1. r \in Creds /\ creds[r].profile = l.p /\ creds[r].state # "unborn"
    BY <1>2, <1>3
  <2>2. secret \in [Creds -> Token] /\ cmap \in [Creds -> Token]
    BY <1>0 DEF TypeOK, S3Types
  <2>3. lock[l.p].by = x
    <3>1. lock[l.p] = [by |-> x, mode |-> "for_update"]
      BY <1>2
    <3> QED
      BY ONLY <3>1
  <2> QED
    BY <2>1, <2>2, <2>3
<1>5. Leaves(x)
  BY <1>3, <1>4 DEF Leaves
<1>6. SyncedIsCurrent' /\ Referenced'
  BY <1>0, <1>2, <1>4, CurrentStill
<1>7. Own(x)
  <2>1. SyncInv(x)'
    <3>1. LiveProfile(l.p)' /\ lock'[l.p] = [by |-> x, mode |-> "for_update"] /\ l.v = profiles'[l.p].v
      BY <1>2 DEF LiveProfile
    <3>2. \A q \in DOMAIN m.err : creds'[q].profile = l.p /\ creds'[q].state # "unborn"
      BY <1>2
    <3>3. ASSUME NEW q \in DOMAIN m.err \ m.todo, m.err[q] = "" PROVE {secret'[q], cmap'[q]} \subseteq {None, l.v}
      <4>1. q \in Creds
        BY <1>3
      <4>2. CASE q # r /\ q \in DOMAIN l.err \ l.todo /\ l.err[q] = ""
        <5>1. {secret[q], cmap[q]} \subseteq {None, l.v}
          BY <1>2, <4>2
        <5>2. secret'[q] = secret[q] /\ cmap'[q] = cmap[q]
          BY <1>4, <4>1, <4>2
        <5> QED
          BY <5>1, <5>2
      <4>3. CASE q = r /\ {secret'[r], cmap'[r]} \subseteq {None, l.v}
        BY <4>3
      <4> QED
        BY <3>3, <4>2, <4>3
    <3>4. label = "sync_repository" => secret'[m.c] \in {None, l.v}
      OBVIOUS
    <3> QED
      BY <1>1, <3>1, <3>2, <3>3, <3>4 DEF SyncInv
  <2>2. loc'[x].c # None => creds'[loc'[x].c].state # "unborn"
    BY <1>1, <1>4
  <2> QED
    BY <1>1, <2>1, <2>2 DEF Own, EditInv, Creates
<1> QED
  BY <1>0, <1>5, <1>6, <1>7, ProfileKept

Turned(l, r, e) == [l EXCEPT !.todo = @ \ {r}, !.err[r] = e, !.c = None]
LEMMA Turning ==
  ASSUME NEW l \in Local, NEW r \in DOMAIN l.err, NEW e
  PROVE  LET m == Turned(l, r, e)
         IN  /\ m.p = l.p /\ m.v = l.v /\ m.c = None /\ DOMAIN m.err = DOMAIN l.err /\ m.todo = l.todo \ {r}
             /\ m.err[r] = e /\ \A q \in DOMAIN l.err \ {r} : m.err[q] = l.err[q]
<1> DEFINE m == Turned(l, r, e)
           err == [l.err EXCEPT ![r] = e]
<1>1. m = [l EXCEPT !.todo = @ \ {r}, !.err = err, !.c = None]
  BY DEF Local, Turned
<1>2. DOMAIN err = DOMAIN l.err /\ err[r] = e /\ \A q \in DOMAIN l.err \ {r} : err[q] = l.err[q]
  <2>1. l.err \in [DOMAIN l.err -> {"", "pending", "failed"}]
    <3>1. l.err \in Marks
      BY DEF Local
    <3> QED
      BY <3>1, MarksFacts
  <2> QED
    BY <2>1
<1> HIDE DEF err
<1>3. m.p = l.p /\ m.v = l.v /\ m.c = None /\ m.err = err /\ m.todo = l.todo \ {r}
  BY <1>1 DEF Local
<1> HIDE DEF m
<1>4. /\ m.p = l.p /\ m.v = l.v /\ m.c = None /\ DOMAIN m.err = DOMAIN l.err /\ m.todo = l.todo \ {r}
      /\ m.err[r] = e /\ \A q \in DOMAIN l.err \ {r} : m.err[q] = l.err[q]
  BY <1>2, <1>3
<1> QED
  BY <1>4 DEF m

LEMMA ProfileBySync ==
  ASSUME BaseInv, ProfileInv, NEW x \in Procs, S3Moves(x), ReplaceSecret(x) \/ SyncRepository(x)
  PROVE  ProfileInv'
<1>l. PICK l \in Local : l = loc[x]
  BY DEF BaseInv, TypeOK, Handlers
<1>0. Fits(pc[x], l) /\ secret \in [Creds -> Token] /\ cmap \in [Creds -> Token] /\ DOMAIN l.err \subseteq Creds
  <2>1. l.err \in Marks
    BY DEF Local
  <2> QED
    BY <1>l, <2>1, MarksFacts DEF BaseInv, TypeOK, Handlers, S3Types
<1>2. CASE ReplaceSecret(x)
  <2>0. pc[x] = "sync_secret" /\ l.todo \subseteq DOMAIN l.err
    BY <1>0, <1>2, SMTT(30) DEF ReplaceSecret, At, Fits
  <2>1. /\ UNCHANGED <<profiles, creds, cmap, lock>>
        /\ \E r \in l.todo :
             \/ /\ secret' \in {secret, [secret EXCEPT ![r] = l.v]}
                /\ Goto(x, "sync_secret", Turned(l, r, "failed"))
             \/ /\ secret' = [secret EXCEPT ![r] = l.v]
                /\ Goto(x, "sync_repository", [l EXCEPT !.c = r])
    BY <1>l, <1>2 DEF ReplaceSecret, Refused, Tables, SyncFails, Turned
  <2>2. PICK r \in l.todo :
             \/ /\ secret' \in {secret, [secret EXCEPT ![r] = l.v]}
                /\ Goto(x, "sync_secret", Turned(l, r, "failed"))
             \/ /\ secret' = [secret EXCEPT ![r] = l.v]
                /\ Goto(x, "sync_repository", [l EXCEPT !.c = r])
    BY <2>1
  <2>3. r \in DOMAIN l.err /\ r \in Creds
    BY <1>0, <2>0
  <2>4. CASE /\ secret' \in {secret, [secret EXCEPT ![r] = l.v]}
             /\ Goto(x, "sync_secret", Turned(l, r, "failed"))
    <3> DEFINE m == Turned(l, r, "failed")
    <3>1. /\ m.p = l.p /\ m.v = l.v /\ m.c = None /\ DOMAIN m.err = DOMAIN l.err /\ m.todo = l.todo \ {r}
          /\ m.err[r] = "failed" /\ \A q \in DOMAIN l.err \ {r} : m.err[q] = l.err[q]
      BY <2>3, Turning
    <3>2. Goto(x, "sync_secret", m) /\ secret' \in {secret, [secret EXCEPT ![r] = l.v]}
      BY <2>4
    <3> HIDE DEF m
    <3>3. \A q \in DOMAIN m.err \ m.todo : m.err[q] = "" => q # r /\ q \in DOMAIN l.err \ l.todo /\ l.err[q] = ""
      BY <3>1
    <3>4. Turn(x, l, r, "sync_secret", m)
      BY <2>1, <3>1, <3>2, <3>3 DEF Turn
    <3> QED
      BY <1>l, <2>0, <3>4, SyncTurn
  <2>5. CASE secret' = [secret EXCEPT ![r] = l.v] /\ Goto(x, "sync_repository", [l EXCEPT !.c = r])
    <3> DEFINE m == [l EXCEPT !.c = r]
    <3>1. m.p = l.p /\ m.v = l.v /\ m.c = r /\ m.err = l.err /\ m.todo = l.todo
      BY DEF Local
    <3>2. Goto(x, "sync_repository", m)
      BY <2>5
    <3> HIDE DEF m
    <3>3. \A q \in DOMAIN m.err \ m.todo : m.err[q] = "" => q # r /\ q \in DOMAIN l.err \ l.todo /\ l.err[q] = ""
      BY <3>1
    <3>4. secret'[r] = l.v
      BY <1>0, <2>3, <2>5
    <3>5. Turn(x, l, r, "sync_repository", m)
      BY <2>1, <2>5, <3>1, <3>2, <3>3, <3>4 DEF Turn
    <3> QED
      BY <1>l, <2>0, <3>5, SyncTurn
  <2> QED
    BY <2>2, <2>4, <2>5
<1>3. CASE SyncRepository(x)
  <2>r. PICK r : r = l.c
    OBVIOUS
  <2>0. pc[x] = "sync_repository" /\ l.todo \subseteq DOMAIN l.err /\ r \in l.todo
    BY <1>0, <1>3, <2>r DEF SyncRepository, At, Fits
  <2>1. /\ UNCHANGED <<profiles, creds, secret, lock>>
        /\ \/ /\ cmap' \in {cmap, [cmap EXCEPT ![r] = l.v]}
              /\ Goto(x, "sync_secret", Turned(l, r, "failed"))
           \/ /\ cmap' = [cmap EXCEPT ![r] = l.v]
              /\ Goto(x, "sync_secret", Turned(l, r, ""))
    BY <1>l, <1>3, <2>r DEF SyncRepository, Tables, SyncFails, Turned
  <2>2. PICK e :
          /\ e \in {"failed", ""}
          /\ cmap' \in {cmap, [cmap EXCEPT ![r] = l.v]}
          /\ e = "" => cmap' = [cmap EXCEPT ![r] = l.v]
          /\ Goto(x, "sync_secret", Turned(l, r, e))
    BY <2>1
  <2>3. r \in DOMAIN l.err /\ r \in Creds
    BY <1>0, <2>0
  <2>4. secret[r] \in {None, l.v}
    BY <1>l, <2>0, <2>r DEF ProfileInv, SyncInv
  <2>5. e = "" => cmap'[r] = l.v
    BY <1>0, <2>2, <2>3
  <2> DEFINE m == Turned(l, r, e)
  <2>6. /\ m.p = l.p /\ m.v = l.v /\ m.c = None /\ DOMAIN m.err = DOMAIN l.err /\ m.todo = l.todo \ {r}
        /\ m.err[r] = e /\ \A q \in DOMAIN l.err \ {r} : m.err[q] = l.err[q]
    BY <2>3, Turning
  <2>7. Goto(x, "sync_secret", m)
    BY <2>2
  <2> HIDE DEF m
  <2>8. \A q \in DOMAIN m.err \ m.todo : m.err[q] = "" =>
          \/ q # r /\ q \in DOMAIN l.err \ l.todo /\ l.err[q] = ""
          \/ q = r /\ {secret'[r], cmap'[r]} \subseteq {None, l.v}
    BY <2>1, <2>4, <2>5, <2>6
  <2>9. Turn(x, l, r, "sync_secret", m)
    BY <2>1, <2>2, <2>6, <2>7, <2>8 DEF Turn
  <2> QED
    BY <1>l, <2>0, <2>9, SyncTurn
<1> QED
  BY <1>2, <1>3

(* Rows of credentials: a new one, one that is deleted, and the marks that  *)
(* an edit or a synchronization commits.                                    *)
LEMMA Writing ==
  ASSUME TypeOK, NEW l, WriteErrors(l), NEW r \in Creds
  PROVE  /\ creds'[r].state = creds[r].state /\ creds'[r].profile = creds[r].profile
         /\ creds'[r].err = IF r \in DOMAIN l.err /\ LiveCred(r) /\ Written(l, r) THEN l.err[r] ELSE creds[r].err
<1>1. creds[r] \in CredRow
  BY DEF TypeOK, S3Types
<1>2. creds'[r] = IF r \in DOMAIN l.err /\ LiveCred(r) /\ Written(l, r)
                  THEN [creds[r] EXCEPT !.err = l.err[r]] ELSE creds[r]
  BY DEF WriteErrors
<1> QED
  BY <1>1, <1>2 DEF CredRow

LEMMA ProfileByInsert ==
  ASSUME BaseInv, ProfileInv, NEW x \in Procs, S3Moves(x), InsertCredential(x) PROVE ProfileInv'
<1>l. PICK l \in Local : l = loc[x]
  BY DEF BaseInv, TypeOK, Handlers
<1>r. PICK r : r = l.c
  OBVIOUS
<1>0. TypeOK /\ Handlers /\ Handlers' /\ Others(x) /\ Fits(pc[x], l) /\ pc[x] = "credential_insert"
  BY <1>l DEF BaseInv, TypeOK, S3Moves, Handlers, InsertCredential, At
<1>1. r \in Creds /\ creds[r].state = "unborn" /\ creds \in [Creds -> CredRow] /\ l.p \in Profiles \cup {None}
  <2>1. r \in Creds /\ r # None
    BY <1>0, <1>r DEF Fits, OnCredential
  <2> QED
    BY <1>0, <1>l, <1>r, <2>1 DEF ProfileInv, RowInv, Creates, TypeOK, S3Types, Local
<1>e. PICK e \in {"", "pending"} : e = IF l.p = None THEN "" ELSE "pending"
  OBVIOUS
<1>n. PICK new : new = [state |-> "live", profile |-> l.p, err |-> e]
  OBVIOUS
<1>2. /\ UNCHANGED <<profiles, secret, cmap, lock>>
      /\ \/ /\ creds' = [creds EXCEPT ![r] = new] /\ (l.p = None \/ LiveProfile(l.p))
            /\ Goto(x, IF l.p = None THEN "idle" ELSE "sync_lock", [l EXCEPT !.known = Mark(r, e)])
         \/ creds' = creds /\ Goto(x, "credential_undo", l)
  BY <1>l, <1>r, <1>e, <1>n DEF InsertCredential, Tables
<1>3. CASE creds' = creds /\ Goto(x, "credential_undo", l)
  <2>1. pc'[x] = "credential_undo" /\ loc'[x] = l
    <3>1. PICK label : label = "credential_undo"
      OBVIOUS
    <3>2. Handlers /\ Goto(x, label, l) /\ label # "idle"
      BY <1>0, <1>3, <3>1
    <3>3. pc'[x] = label /\ loc'[x] = l
      BY <3>2, Went
    <3> QED
      BY <3>1, <3>3
  <2>2. Own(x)
    BY <1>0, <1>1, <1>3, <1>l, <1>r, <2>1 DEF Own, Creates, EditInv, SyncInv
  <2>3. Leaves(x)
    BY <1>2, <1>3, Still
  <2>4. SyncedIsCurrent' /\ Referenced'
    BY <1>0, <1>2, <1>3, CurrentStill
  <2> QED
    BY <1>0, <2>2, <2>3, <2>4, ProfileKept
<1>4. CASE /\ creds' = [creds EXCEPT ![r] = new] /\ (l.p = None \/ LiveProfile(l.p))
           /\ Goto(x, IF l.p = None THEN "idle" ELSE "sync_lock", [l EXCEPT !.known = Mark(r, e)])
  <2>1. /\ creds'[r].state = "live" /\ creds'[r].profile = l.p /\ creds'[r].err = e
        /\ \A q \in Creds \ {r} : creds'[q] = creds[q]
    <3>1. creds'[r] = new /\ \A q \in Creds \ {r} : creds'[q] = creds[q]
      BY <1>1, <1>4
    <3>2. new.state = "live" /\ new.profile = l.p /\ new.err = e
      BY <1>n
    <3> QED
      BY <3>1, <3>2
  <2>2. Leaves(x)
    BY <1>0, <1>1, <1>2, <1>e, <1>l, <1>r, <2>1 DEF Leaves, Creates
  <2>3. SyncedIsCurrent' /\ Referenced'
    <3>1. l.p # None => e # "" /\ profiles[l.p].state = "live"
      BY <1>4, <1>e DEF LiveProfile
    <3>2. CurrentAt(r)'
      BY <1>2, <2>1, <3>1 DEF CurrentAt
    <3>3. ASSUME NEW q \in Creds \ {r} PROVE CurrentAt(q)'
      <4>1. CurrentAt(q)
        BY CurrentEach DEF ProfileInv, RowInv
      <4>2. creds'[q] = creds[q]
        BY <2>1
      <4> QED
        BY <1>2, <4>1, <4>2 DEF CurrentAt
    <3> QED
      BY <3>2, <3>3, CurrentEach
  <2>4. Own(x)
    <3>1. PICK m : m = [l EXCEPT !.known = Mark(r, e)]
      OBVIOUS
    <3>c. m.c = r
      BY <1>r, <3>1 DEF Local
    <3>2. \/ pc'[x] = "idle" /\ loc'[x].c = None
          \/ pc'[x] = "sync_lock" /\ loc'[x].c = r
      <4>1. CASE l.p = None
        <5>1. PICK label : label = "idle" /\ Goto(x, label, m)
          BY <1>4, <3>1, <4>1
        <5>2. pc'[x] = label /\ loc'[x] = NoLocal
          BY <1>0, <5>1, Went
        <5>3. NoLocal.c = None
          BY DEF NoLocal
        <5> QED
          BY <5>1, <5>2, <5>3
      <4>2. CASE l.p # None
        <5>1. Goto(x, "sync_lock", m)
          BY <1>4, <3>1, <4>2
        <5> QED
          BY <1>0, <3>c, <5>1, Went
      <4> QED
        BY <4>1, <4>2
    <3> QED
      BY <2>1, <3>2, OwnLoose DEF Held, Creates
  <2> QED
    BY <1>0, <2>2, <2>3, <2>4, ProfileKept
<1> QED
  BY <1>2, <1>3, <1>4

LEMMA ProfileByDeletion ==
  ASSUME BaseInv, ProfileInv, NEW x \in Procs, S3Moves(x), DeleteRow(x) PROVE ProfileInv'
<1>l. PICK l \in Local : l = loc[x]
  BY DEF BaseInv, TypeOK, Handlers
<1>r. PICK r : r = l.c
  OBVIOUS
<1>0. TypeOK /\ Handlers /\ Handlers' /\ Others(x) /\ Fits(pc[x], l) /\ pc[x] = "delete_row"
  BY <1>l DEF BaseInv, TypeOK, S3Moves, Handlers, DeleteRow, At
<1>1. r \in Creds /\ creds[r].state # "unborn" /\ creds \in [Creds -> CredRow]
  <2>1. r \in Creds /\ r # None
    BY <1>0, <1>r DEF Fits, OnCredential
  <2> QED
    BY <1>0, <1>l, <1>r, <2>1 DEF ProfileInv, RowInv, Creates, TypeOK, S3Types
<1>2. UNCHANGED <<profiles, secret, cmap, lock>> /\ End(x) /\ creds' = [creds EXCEPT ![r].state = "gone"]
  BY <1>l, <1>r DEF DeleteRow, Tables
<1>3. /\ creds'[r].state = "gone" /\ creds'[r].profile = creds[r].profile /\ creds'[r].err = creds[r].err
      /\ \A q \in Creds \ {r} : creds'[q] = creds[q]
  <2>1. creds[r] \in CredRow
    BY <1>1
  <2> QED
    BY <1>1, <1>2, <2>1 DEF CredRow
<1>4. Leaves(x)
  BY <1>1, <1>2, <1>3 DEF Leaves
<1>5. SyncedIsCurrent' /\ Referenced'
  <2>1. ASSUME NEW q \in Creds PROVE CurrentAt(q)'
    <3>1. CurrentAt(q)
      BY CurrentEach DEF ProfileInv, RowInv
    <3>2. CASE q = r
      BY <1>3, <3>2 DEF CurrentAt
    <3>3. CASE q # r
      <4>1. creds'[q] = creds[q]
        BY <1>3, <3>3
      <4> QED
        BY <1>2, <3>1, <4>1 DEF CurrentAt
    <3> QED
      BY <3>2, <3>3
  <2> QED
    BY <2>1, CurrentEach
<1>6. Own(x)
  <2>1. pc'[x] = "idle" /\ loc'[x].c = None
    BY <1>0, <1>2, Ending DEF NoLocal
  <2> QED
    BY <2>1, OwnLoose DEF Held, Creates
<1> QED
  BY <1>0, <1>4, <1>5, <1>6, ProfileKept

LEMMA ProfileByCommits ==
  ASSUME BaseInv, ProfileInv, NEW x \in Procs, S3Moves(x), UpdateCommit(x) \/ SyncCommit(x) PROVE ProfileInv'
<1>l. PICK l \in Local : l = loc[x]
  BY DEF BaseInv, TypeOK, Handlers
<1>p. PICK p : p = l.p
  OBVIOUS
<1>0. /\ TypeOK /\ Handlers /\ Handlers' /\ Others(x) /\ Fits(pc[x], l) /\ pc[x] \in {"update_commit", "sync_secret"}
      /\ creds \in [Creds -> CredRow] /\ profiles \in [Profiles -> ProfileRow]
  BY <1>l DEF BaseInv, TypeOK, S3Moves, Handlers, UpdateCommit, SyncCommit, At, S3Types, BackendTypes
<1>1. p \in Profiles /\ LiveProfile(p) /\ lock[p].by = x
  <2>1. l.p \in Profiles
    BY <1>0 DEF Fits, OnProfile
  <2>2. LiveProfile(p) /\ \E mode : lock[p] = [by |-> x, mode |-> mode]
    BY <1>0, <1>l, <1>p DEF ProfileInv, EditInv, SyncInv
  <2> QED
    BY <1>p, <2>1, <2>2
<1>2. UNCHANGED <<secret, cmap>> /\ \A q \in Profiles \ {p} : lock'[q] = lock[q] /\ profiles'[q] = profiles[q]
  <2>1. UNCHANGED <<secret, cmap>> /\ lock' = [lock EXCEPT ![p] = NoLock]
        /\ (profiles' = profiles \/ profiles' = [profiles EXCEPT ![p].v = @ + 1])
    BY <1>l, <1>p DEF UpdateCommit, SyncCommit, Unlock, Objects, Tables
  <2> QED
    BY <1>0, <2>1 DEF TypeOK, S3Types
<1>3. ASSUME NEW m, creds' = creds \/ WriteErrors(m),
             \A r \in DOMAIN m.err \cap Creds : m.err[r] = "" => creds[r].profile = p
      PROVE  Leaves(x)
  <2>1. ASSUME NEW r \in Creds
        PROVE  /\ creds'[r].state = creds[r].state /\ creds'[r].profile = creds[r].profile
               /\ creds'[r].err = "" => creds[r].err = "" \/ creds[r].profile = p
    <3>1. CASE creds' = creds
      BY <3>1
    <3>2. CASE WriteErrors(m)
      <4>1. /\ creds'[r].state = creds[r].state /\ creds'[r].profile = creds[r].profile
            /\ creds'[r].err = creds[r].err \/ (r \in DOMAIN m.err /\ creds'[r].err = m.err[r])
        BY <1>0, <3>2, Writing
      <4> QED
        BY <1>3, <4>1
    <3> QED
      BY <1>3, <3>1, <3>2
  <2> QED
    BY <1>1, <1>2, <2>1 DEF Leaves
<1>4. ASSUME NEW label \in {"idle", "sync_lock"}, pc'[x] = label, loc'[x].c = None PROVE Own(x)
  BY <1>4, OwnLoose DEF Held, Creates
<1>5. ASSUME End(x) PROVE pc'[x] = "idle" /\ loc'[x].c = None
  BY <1>0, <1>5, Ending DEF NoLocal
<1>6. ASSUME creds' = creds, profiles' = profiles, End(x) PROVE ProfileInv'
  <2>1. Leaves(x)
    BY <1>1, <1>2, <1>6, Still
  <2>2. SyncedIsCurrent' /\ Referenced'
    BY <1>0, <1>2, <1>6, CurrentStill
  <2> QED
    BY <1>0, <1>4, <1>5, <1>6, <2>1, <2>2, ProfileKept
(* An edit marks every linked credential that is not marked yet.            *)
<1>7. CASE UpdateCommit(x)
  <2>1. PICK m, n :
          /\ m = [l EXCEPT !.err = [r \in DOMAIN l.known |-> "pending"]]
          /\ n = [m EXCEPT !.known = <<>>, !.err = <<>>]
          /\ \/ End(x) /\ creds' = creds /\ profiles' = profiles
             \/ /\ profiles' = [profiles EXCEPT ![p].v = @ + 1] /\ WriteErrors(m)
                /\ Goto(x, "sync_lock", n)
    BY <1>7, <1>l, <1>p DEF UpdateCommit
  <2>2. CASE profiles' = [profiles EXCEPT ![p].v = @ + 1] /\ WriteErrors(m) /\ Goto(x, "sync_lock", n)
    <3>1. /\ m.err = [r \in DOMAIN l.known |-> "pending"] /\ m.known = l.known /\ n.c = None
      <4>1. l.c = None
        BY <1>0, <1>7 DEF UpdateCommit, At, Fits, OnCredential
      <4> QED
        BY <2>1, <4>1 DEF Local
    <3>2. Leaves(x)
      BY <1>3, <2>2, <3>1
    <3>3. Own(x)
      <4>1. pc'[x] = "sync_lock" /\ loc'[x] = n
        BY <1>0, <2>2, Went
      <4> QED
        BY <1>4, <3>1, <4>1
    <3>4. \A r \in Linked(p) : creds[r].err = "" => r \in DOMAIN l.known /\ l.known[r] # "pending"
      BY <1>7, <1>l, <1>p DEF ProfileInv, EditInv, UpdateCommit, At
    <3>5. ASSUME NEW r \in Creds, creds'[r].state = "live", creds'[r].profile # None
          PROVE  /\ profiles'[creds'[r].profile].state = "live"
                 /\ creds'[r].err = "" => /\ secret'[r] \in {None, profiles'[creds'[r].profile].v}
                                          /\ cmap'[r] \in {None, profiles'[creds'[r].profile].v}
      <4>1. /\ creds'[r].state = creds[r].state /\ creds'[r].profile = creds[r].profile
            /\ creds'[r].err = IF r \in DOMAIN m.err /\ LiveCred(r) /\ Written(m, r) THEN m.err[r] ELSE creds[r].err
        BY <1>0, <2>2, Writing
      <4>2. LiveCred(r) /\ LiveProfile(creds[r].profile) /\ creds[r].profile \in Profiles
        <5>1. creds[r].profile \in Profiles \cup {None}
          BY <1>0 DEF CredRow
        <5> QED
          BY <3>5, <4>1, <5>1 DEF LiveCred, ProfileInv, RowInv, Referenced
      <4>3. CASE creds[r].profile = p
        <5>1. creds[r].err = "" => creds'[r].err = "pending"
          <6>1. r \in Linked(p)
            BY <4>2, <4>3 DEF Linked
          <6> QED
            BY <3>1, <3>4, <4>1, <4>2, <6>1 DEF Written
        <5>2. creds'[r].err # ""
          BY <3>1, <4>1, <5>1
        <5>3. profiles'[p].state = "live"
          BY <1>0, <1>1, <2>2 DEF LiveProfile, ProfileRow
        <5> QED
          BY <4>1, <4>3, <5>2, <5>3
      <4>4. CASE creds[r].profile # p
        <5>1. creds'[r].err = "" => creds[r].err = ""
          BY <3>1, <4>1
        <5>2. profiles'[creds[r].profile] = profiles[creds[r].profile]
          BY <1>2, <4>2, <4>4
        <5>3. creds[r].err = "" => /\ secret[r] \in {None, profiles[creds[r].profile].v}
                                   /\ cmap[r] \in {None, profiles[creds[r].profile].v}
          BY <3>5, <4>1, <4>2 DEF ProfileInv, SyncedIsCurrent
        <5> QED
          BY <1>2, <4>1, <4>2, <5>1, <5>2, <5>3 DEF LiveProfile
      <4> QED
        BY <4>3, <4>4
    <3>6. SyncedIsCurrent' /\ Referenced'
      BY <3>5, CurrentEach DEF CurrentAt
    <3> QED
      BY <1>0, <3>2, <3>3, <3>6, ProfileKept
  <2> QED
    BY <1>6, <2>1, <2>2
(* A synchronization withdraws the mark of those that it has made current.  *)
<1>8. CASE SyncCommit(x)
  <2>1. /\ End(x) /\ profiles' = profiles /\ (creds' = creds \/ WriteErrors(l)) /\ l.todo = {} /\ pc[x] = "sync_secret"
    BY <1>8, <1>l DEF SyncCommit, Tables, At
  <2>2. /\ l.v = profiles[p].v
        /\ \A r \in DOMAIN l.err : creds[r].profile = p
        /\ \A r \in DOMAIN l.err : l.err[r] = "" => {secret[r], cmap[r]} \subseteq {None, l.v}
    BY <1>l, <1>p, <2>1 DEF ProfileInv, SyncInv
  <2>3. CASE WriteErrors(l)
    <3>1. Leaves(x)
      BY <1>3, <2>2, <2>3
    <3>2. ASSUME NEW r \in Creds, creds'[r].state = "live", creds'[r].profile # None
          PROVE  /\ profiles'[creds'[r].profile].state = "live"
                 /\ creds'[r].err = "" => /\ secret'[r] \in {None, profiles'[creds'[r].profile].v}
                                          /\ cmap'[r] \in {None, profiles'[creds'[r].profile].v}
      <4>1. /\ creds'[r].state = creds[r].state /\ creds'[r].profile = creds[r].profile
            /\ creds'[r].err = IF r \in DOMAIN l.err /\ LiveCred(r) /\ Written(l, r) THEN l.err[r] ELSE creds[r].err
        BY <1>0, <2>3, Writing
      <4>2. LiveCred(r) /\ LiveProfile(creds[r].profile)
        BY <3>2, <4>1 DEF LiveCred, ProfileInv, RowInv, Referenced
      <4>3. creds'[r].err = "" => /\ secret[r] \in {None, profiles[creds[r].profile].v}
                                  /\ cmap[r] \in {None, profiles[creds[r].profile].v}
        <5>1. CASE creds'[r].err = creds[r].err
          BY <3>2, <4>1, <4>2, <5>1 DEF ProfileInv, SyncedIsCurrent
        <5>2. CASE r \in DOMAIN l.err /\ creds'[r].err = l.err[r]
          BY <2>2, <5>2
        <5> QED
          BY <4>1, <5>1, <5>2
      <4> QED
        BY <1>2, <2>1, <4>1, <4>2, <4>3 DEF LiveProfile
    <3>3. SyncedIsCurrent' /\ Referenced'
      BY <3>2, CurrentEach DEF CurrentAt
    <3> QED
      BY <1>0, <1>4, <1>5, <2>1, <3>1, <3>3, ProfileKept
  <2> QED
    BY <1>6, <2>1, <2>3
<1> QED
  BY <1>7, <1>8

(* One that is not at work on a credential, and one that dies.              *)
LEMMA ProfileByOthers ==
  ASSUME BaseInv, BaseInv', ProfileInv, NEW x \in Procs, Others(x), UNCHANGED <<profiles, s3Vars>>,
         pc'[x] \notin S3Labels
  PROVE  ProfileInv'
<1>0. TypeOK /\ Handlers' /\ UNCHANGED <<creds, secret, cmap, lock, profiles>>
  BY DEF BaseInv, TypeOK, s3Vars
<1>1. Leaves(x)
  BY <1>0, Still
<1>2. SyncedIsCurrent' /\ Referenced'
  BY <1>0, CurrentStill
<1>3. Own(x)
  <2>1. loc'[x].c = None
    BY <1>0, Elsewhere DEF OnCredential, S3Labels
  <2> QED
    BY <2>1, OwnLoose DEF Held, Creates, S3Labels
<1> QED
  BY <1>0, <1>1, <1>2, <1>3, ProfileKept

LEMMA ProfileByCrash ==
  ASSUME BaseInv, ProfileInv, NEW x \in Procs, Crash(x) PROVE ProfileInv'
<1>0. TypeOK /\ Handlers' /\ Others(x) /\ pc'[x] = "idle" /\ loc'[x].c = None
  BY CrashMoves DEF BaseInv, TypeOK, NoLocal
<1>1. UNCHANGED <<creds, secret, cmap, profiles>> /\ \A q \in Profiles : lock[q].by # x => lock'[q] = lock[q]
  BY DEF Crash, Rollback
<1>2. Leaves(x)
  BY <1>1, Still
<1>3. SyncedIsCurrent' /\ Referenced'
  BY <1>0, <1>1, CurrentStill
<1>4. Own(x)
  BY <1>0, OwnLoose DEF Held, Creates
<1> QED
  BY <1>0, <1>2, <1>3, <1>4, ProfileKept

(* "Serialize synchronization and read the latest committed profile values".*)
LEMMA ProfileStays ==
  ASSUME BaseInv, BaseInv', ProfileInv, [Next]_vars PROVE ProfileInv'
<1>1. ASSUME NEW x \in Procs, S3(S3Begin(x)) \/ S3(S3Step(x)) PROVE ProfileInv'
  <2>1. S3Moves(x) /\ (S3Begin(x) \/ S3Step(x))
    BY <1>1, BaseByS3 DEF S3
  <2> QED
    BY <2>1, ProfileByBegin, ProfileByLocks, ProfileByObjects, ProfileBySync, ProfileByInsert, ProfileByDeletion,
       ProfileByCommits DEF S3Step
<1>2. ASSUME NEW x \in Procs, Tracking(MlflowBegin(x)) \/ Tracking(MlflowStep(x)) \/ Tracking(Reconcile(x))
      PROVE  ProfileInv'
  <2>1. MlflowMoves(x) /\ UNCHANGED s3Vars
    BY <1>2, BaseByMlflow DEF Tracking
  <2>2. pc'[x] \notin S3Labels
    BY <2>1 DEF MlflowMoves, MlflowPlace, MlflowLabels, S3Labels
  <2> QED
    BY <2>1, <2>2, ProfileByOthers DEF MlflowMoves
<1>3. ASSUME NEW x \in Procs, Workspace(WorkspaceBegin(x)) \/ Workspace(WorkspaceStep(x)) PROVE ProfileInv'
  <2>1. SpaceMoves(x) /\ UNCHANGED s3Vars
    BY <1>3, BaseBySpace DEF Workspace
  <2>2. pc'[x] \notin S3Labels
    BY <2>1 DEF SpaceMoves, SpacePlace, SpaceLabels, S3Labels
  <2> QED
    BY <2>1, <2>2, ProfileByOthers DEF SpaceMoves
<1>4. ASSUME NEW x \in Procs, Workflow(WorkflowBegin(x)) \/ Workflow(WorkflowStep(x)) PROVE ProfileInv'
  <2>1. FlowMoves(x) /\ UNCHANGED s3Vars
    BY <1>4, BaseByFlow DEF Workflow
  <2>2. pc'[x] \notin S3Labels
    BY <2>1 DEF FlowMoves, FlowPlace, FlowLabels, S3Labels
  <2> QED
    BY <2>1, <2>2, ProfileByOthers DEF FlowMoves
<1>5. ASSUME UNCHANGED <<profiles, pc, loc, s3Vars>> PROVE ProfileInv'
  <2>1. UNCHANGED <<profiles, pc, loc, creds, secret, cmap, lock>>
    BY <1>5 DEF s3Vars
  <2>2. SyncedIsCurrent' /\ RowInv'
    BY <2>1 DEF ProfileInv, SyncedIsCurrent, RowInv, Referenced, Creates, LiveProfile, LiveCred
  <2>3. ASSUME NEW x \in Procs PROVE EditInv(x)' /\ SyncInv(x)'
    <3>1. EditInv(x) /\ SyncInv(x)
      BY DEF ProfileInv
    <3>2. EditInv(x)'
      BY <2>1, <3>1 DEF EditInv, LiveProfile, LiveCred, Linked
    <3>3. SyncInv(x)'
      BY <2>1, <3>1 DEF SyncInv, LiveProfile
    <3> QED
      BY <3>2, <3>3
  <2> QED
    BY <2>2, <2>3 DEF ProfileInv
<1>6. ASSUME \/ Clusters
             \/ \E w \in Workloads : Workspace(WorkspaceRestarts(w))
             \/ \E f \in Flows : Workflow(WorkflowGone(f))
      PROVE  ProfileInv'
  <2>1. UNCHANGED <<profiles, mlflow, fresh, pc, loc, s3Vars>>
    <3>1. \/ Tracking(PodStarts \/ PodStops)
          \/ \E w \in Workloads : Workspace(WorkspaceStarts(w) \/ WorkspaceStops(w) \/ WorkspaceRestarts(w))
          \/ \E f \in Flows : Workflow(WorkflowGone(f))
      BY <1>6 DEF Clusters, Workspace
    <3> QED
      BY <3>1, BaseByCluster
  <2> QED
    BY <1>5, <2>1
<1>7. CASE UNCHANGED vars
  BY <1>5, <1>7 DEF vars, backendVars
<1> QED
  BY <1>1, <1>2, <1>3, <1>4, <1>6, <1>7, ProfileByCrash DEF Next, Step, Procs

-----------------------------------------------------------------------------
(* The invariant                                                            *)

LEMMA BaseKept ==
  ASSUME BaseInv, [Next]_vars PROVE BaseInv'
<1>1. ASSUME NEW x \in Procs, S3(S3Begin(x)) \/ Tracking(MlflowBegin(x)) \/ Workspace(WorkspaceBegin(x))
                              \/ Workflow(WorkflowBegin(x)) \/ Tracking(Reconcile(x)) \/ Step(x)
      PROVE  BaseInv'
  BY <1>1, BaseByS3, BaseByMlflow, BaseBySpace, BaseByFlow DEF Step
<1>2. ASSUME NEW x \in Procs, Crash(x) PROVE BaseInv'
  BY <1>2, CrashMoves DEF BaseInv
<1>3. ASSUME \/ Clusters
             \/ \E w \in Workloads : Workspace(WorkspaceRestarts(w))
             \/ \E f \in Flows : Workflow(WorkflowGone(f))
      PROVE  BaseInv'
  <2>1. \/ Tracking(PodStarts \/ PodStops)
        \/ \E w \in Workloads : Workspace(WorkspaceStarts(w) \/ WorkspaceStops(w) \/ WorkspaceRestarts(w))
        \/ \E f \in Flows : Workflow(WorkflowGone(f))
    BY <1>3 DEF Clusters, Workspace
  <2> QED
    BY <2>1, BaseByCluster
<1>4. CASE UNCHANGED vars
  <2>1. UNCHANGED <<profiles, mlflow, fresh, sent, faults, pc, loc, creds, secret, cmap, lock, installing, storage,
                    gateway, deployment, pod, rowOf, tokens, sts, wpod, calm, flows>>
    BY <1>4 DEF vars, backendVars, s3Vars, mlflowVars, workspaceVars, workflowVars
  <2>2. Handlers' /\ BackendTypes' /\ S3Types' /\ MlflowTypes'
    BY <2>1 DEF BaseInv, TypeOK, Handlers, BackendTypes, S3Types, MlflowTypes
  <2>3. WorkspaceTypes' /\ WorkflowTypes'
    BY <2>1 DEF BaseInv, TypeOK, WorkspaceTypes, WorkflowTypes
  <2>4. OneInstalls' /\ FlowInv'
    BY <2>1 DEF BaseInv, OneInstalls, Holds, FlowInv, SubmissionsHaveTokens
  <2> QED
    BY <2>2, <2>3, <2>4 DEF BaseInv, TypeOK
<1> QED
  BY <1>1, <1>2, <1>3, <1>4 DEF Next, Procs

LEMMA Started ==
  ASSUME Init PROVE PlatformInv
<1>1. PICK s \in Seeds : BackendInit(s) /\ S3Init(s) /\ MlflowInit(s) /\ WorkspaceInit(s) /\ WorkflowInit(s)
  BY DEF Init
<1>2. AtRest(s)
  BY SeedsAssumption
<1>3. pc = [x \in Procs |-> "idle"] /\ loc = [x \in Procs |-> NoLocal] /\ fresh = 9
  BY <1>1 DEF BackendInit
<1>4. Handlers
  BY <1>3, Nothing DEF Handlers, Labels
<1>5. BackendTypes
  <2>1. profiles = s.profiles /\ mlflow = s.mlflow /\ sent = s.sent /\ faults = s.faults
    BY <1>1 DEF BackendInit
  <2>2. s.profiles \in [Profiles -> ProfileRow] /\ s.mlflow \in MlflowRow \cup {None} /\ {s.sent, s.faults} \subseteq Nat
    BY <1>2 DEF AtRest
  <2> QED
    BY <1>3, <2>1, <2>2 DEF BackendTypes
<1>6. S3Types
  BY <1>1, <1>2 DEF S3Init, NoLock, AtRest, S3Types
<1>7. MlflowTypes
  BY <1>1, <1>2 DEF MlflowInit, AtRest, MlflowTypes
<1>8. /\ rowOf = s.rowOf /\ tokens = s.tokens /\ sts = s.sts /\ wpod = s.wpod /\ calm = [w \in Workloads |-> TRUE]
      /\ rowOf \in SUBSET Workloads /\ tokens \in [Workloads -> [Keys -> Token] \cup {None}]
      /\ sts \in [Workloads -> [uid : 0..8, env : SUBSET Keys] \cup {None}]
      /\ wpod = [w \in Workloads |-> wpod[w]]
  BY <1>1, <1>2 DEF WorkspaceInit, AtRest
<1>9. ASSUME NEW w \in Workloads
      PROVE  /\ sts[w] # None => sts[w] \in [uid : Nat, env : SUBSET Keys] /\ sts[w].uid < 9 /\ w \in rowOf
             /\ wpod[w] # None => /\ wpod[w].uid \in Nat /\ wpod[w].uid < 9 /\ wpod[w].env \in SUBSET Keys
                                  /\ DOMAIN wpod[w].token = wpod[w].env
             /\ wpod[w] # None /\ sts[w] # None /\ tokens[w] # None /\ wpod[w].uid = sts[w].uid =>
                  \A k \in wpod[w].env : tokens[w][k] # None /\ wpod[w].token[k] = tokens[w][k]
  <2>1. /\ sts[w] # None => w \in rowOf
        /\ wpod[w] # None =>
             /\ wpod[w].uid \in 0..8 /\ wpod[w].env \in SUBSET Keys
             /\ DOMAIN wpod[w].token = wpod[w].env
             /\ sts[w] # None /\ tokens[w] # None /\ wpod[w].uid = sts[w].uid =>
                  \A k \in wpod[w].env : tokens[w][k] # None /\ wpod[w].token[k] = tokens[w][k]
    <3>1. /\ s.sts[w] # None => w \in s.rowOf
          /\ s.wpod[w] # None =>
               /\ s.wpod[w].uid \in 0..8 /\ s.wpod[w].env \in SUBSET Keys
               /\ DOMAIN s.wpod[w].token = s.wpod[w].env
               /\ s.sts[w] # None /\ s.tokens[w] # None /\ s.wpod[w].uid = s.sts[w].uid =>
                    \A k \in s.wpod[w].env : s.tokens[w][k] # None /\ s.wpod[w].token[k] = s.tokens[w][k]
      BY <1>2, Zenon DEF AtRest
    <3> QED
      BY <1>8, <3>1, Zenon
  <2>2. sts[w] # None => sts[w] \in [uid : 0..8, env : SUBSET Keys]
    BY <1>8
  <2> QED
    BY <2>1, <2>2
<1>10. WorkspaceTypes
  <2>1. sts \in [Workloads -> [uid : Nat, env : SUBSET Keys] \cup {None}]
    BY <1>8, <1>9
  <2> QED
    BY <1>8, <1>9, <2>1 DEF WorkspaceTypes
<1>11. WorkflowTypes
  BY <1>1 DEF WorkflowInit, NoFlow, WorkflowTypes
<1>12. \A x \in Procs : loc[x].w = None /\ loc[x].wf = None /\ loc[x].c = None /\ ~loc[x].up
  BY <1>3 DEF NoLocal
<1>13. OneInstalls
  BY <1>3, <1>12 DEF OneInstalls, Holds
<1>14. FlowInv
  BY <1>1, <1>12 DEF WorkflowInit, NoFlow, FlowInv, SubmissionsHaveTokens
<1>15. SpaceInv
  <2>1. ASSUME NEW w \in Workloads PROVE SpaceAt(w)
    <3>1. Young(w)
      BY <1>3, <1>9 DEF Young
    <3>2. Alone(w) /\ \A x \in Procs : Careful(x, w)
      BY <1>12 DEF Alone, Careful
    <3>3. Owned(w) /\ SameToken(w)
      BY <1>9 DEF Owned, SameToken
    <3> QED
      BY <3>1, <3>2, <3>3 DEF SpaceAt
  <2> QED
    BY <2>1 DEF SpaceInv
<1>16. ProfileInv
  <2>1. creds = s.creds /\ secret = s.secret /\ cmap = s.cmap /\ profiles = s.profiles
    BY <1>1 DEF S3Init, BackendInit
  <2>2. ASSUME NEW r \in Creds PROVE CurrentAt(r)
    BY <1>2, <2>1 DEF AtRest, CurrentAt
  <2>3. \A x \in Procs : EditInv(x) /\ SyncInv(x) /\ ~Creates(x)
    BY <1>3 DEF EditInv, SyncInv, Creates
  <2> QED
    BY <1>12, <2>2, <2>3, CurrentEach DEF ProfileInv, RowInv
<1> QED
  BY <1>4, <1>5, <1>6, <1>7, <1>10, <1>11, <1>13, <1>14, <1>15, <1>16 DEF PlatformInv, TypeOK

LEMMA PlatformKept ==
  ASSUME PlatformInv, [Next]_vars PROVE PlatformInv'
<1>1. BaseInv /\ SpaceInv /\ ProfileInv
  BY DEF PlatformInv, BaseInv
<1>2. BaseInv'
  BY <1>1, BaseKept
<1>3. SpaceInv' /\ ProfileInv'
  BY <1>1, <1>2, SpaceKept, ProfileStays
<1> QED
  BY <1>2, <1>3 DEF PlatformInv, BaseInv

(* The inductive invariant of all components together, whatever requests,   *)
(* calls that fail and processes that die come between each other.          *)
THEOREM PlatformInductive == Spec => []PlatformInv
BY Started, PlatformKept, PTL DEF Spec

(* Every table, object and local variable has its type: a handler is where  *)
(* its code is with the locals that this place needs.                       *)
THEOREM TypeCorrect == Spec => []TypeOK
<1>1. PlatformInv => TypeOK
  BY DEF PlatformInv
<1> QED
  BY <1>1, PlatformInductive, PTL

(* _start_install(), _installing: one installation or upgrade of MLflow at  *)
(* a time in a process.                                                     *)
THEOREM InstallsExclusive == Spec => []OneInstalls
<1>1. PlatformInv => OneInstalls
  BY DEF PlatformInv
<1> QED
  BY <1>1, PlatformInductive, PTL

(* prepare_submission(), attach_owner(): a workflow that was accepted has   *)
(* its Secret, and one that was refused leaves none but after a failure.    *)
THEOREM AcceptedHaveTokens == Spec => []SubmissionsHaveTokens
<1>1. PlatformInv => SubmissionsHaveTokens
  BY DEF PlatformInv, FlowInv
<1> QED
  BY <1>1, PlatformInductive, PTL

(* "Without rotating other credentials": a running pod of a workspace sends *)
(* the tokens that are compared with the Secret.                            *)
THEOREM PodsHaveTokens == Spec => []TokensMatch
<1>1. ASSUME PlatformInv PROVE TokensMatch
  <2>1. ASSUME NEW w \in Workloads, calm[w] PROVE SameToken(w)
    BY <1>1, <2>1 DEF PlatformInv, SpaceInv, SpaceAt
  <2> QED
    BY <2>1 DEF TokensMatch, SameToken, AuthenticateWorkload, AuthenticateWorkspace, Sends
<1> QED
  BY <1>1, PlatformInductive, PTL

(* sync_profile_credentials(), "read the latest committed profile values":  *)
(* a linked credential that is not marked holds what its profile says.      *)
THEOREM CredentialsCurrent == Spec => []SyncedIsCurrent
<1>1. PlatformInv => SyncedIsCurrent
  BY DEF PlatformInv, ProfileInv
<1> QED
  BY <1>1, PlatformInductive, PTL
=============================================================================
