----------------------------- MODULE S3Profiles -----------------------------
(***************************************************************************)
(* S3 profiles, and the workflow credentials linked to them:               *)
(* triton-backend/app/services/storage/s3_profiles.py and                  *)
(* services/workflows/credentials.py, artifact_repository.py.              *)
(*                                                                         *)
(* A profile is a row.  A credential is a row, a Secret and, if it is      *)
(* linked to a profile, a ConfigMap; both hold what the profile said when  *)
(* they were written.  Editing a profile commits the profile and marks its *)
(* credentials in one transaction, and then synchronizes them in another   *)
(* one, under a lock on the profile's row.                                 *)
(*                                                                         *)
(* What a profile says is its version.  Names and the checks of fields are *)
(* left out: they refuse a request before it has done anything.  A session *)
(* keeps the rows it has loaded until it commits, and writes a column only *)
(* if it differs from what was loaded.                                     *)
(***************************************************************************)
EXTENDS Backend

CONSTANT Creds   \* ids of credentials, each given out once

ASSUME CredsAssumption == None \notin Creds

VARIABLES
  creds,    \* the table workflow_s3_credentials
  secret,   \* the Secret of a credential: the version it holds
  cmap,     \* the ConfigMap of a credential: the version it holds
  lock      \* the transaction that holds the row of a profile

s3Vars == <<creds, secret, cmap, lock>>

(* err = "": in sync.  profile = None: given by hand. *)
CredRow == [state : {"unborn", "live", "gone"}, profile : Profiles \cup {None},
            err : {"", "pending", "failed"}]
NoLock == [by |-> None, mode |-> "none"]

S3Types ==
  /\ creds \in [Creds -> CredRow]
  /\ secret \in [Creds -> Token] /\ cmap \in [Creds -> Token]
  /\ lock \in [Profiles -> [by : Procs \cup {None}, mode : {"none", "update", "for_update"}]]

(* Rows of credentials in a session: what their err is, or will be.        *)
Marks     == UNION {[R -> {"", "pending", "failed"}] : R \in SUBSET Creds}
Mark(r, err) == [x \in {r} |-> err]

S3Labels  == {"update_flush", "update_commit", "profile_delete", "credential_secret", "credential_insert",
              "credential_undo", "delete_repository", "delete_secret", "delete_row", "sync_lock",
              "sync_secret", "sync_repository"}

S3Init(s) ==
  /\ creds = s.creds /\ secret = s.secret /\ cmap = s.cmap
  /\ lock = [p \in Profiles |-> NoLock]

LiveProfile(p) == profiles[p].state = "live"
LiveCred(c)    == creds[c].state = "live"
Linked(p)      == {c \in Creds : LiveCred(c) /\ creds[c].profile = p}
UsedByMlflow(p) == mlflow # None /\ mlflow.profile = p

(* A foreign key is checked under FOR KEY SHARE, which waits for a holder  *)
(* of FOR UPDATE; a write of the row waits for every holder.               *)
CanReference(p) == lock[p].mode # "for_update"
CanWrite(p)     == lock[p].mode = "none"

Unlock(p) == lock' = [lock EXCEPT ![p] = NoLock]
Tables    == UNCHANGED <<profiles, mlflow, fresh>>
Objects   == UNCHANGED <<secret, cmap>>

-----------------------------------------------------------------------------
(* Profiles. *)

CreateProfile(c) ==
  /\ Begin(c, "create_profile")
  /\ \E p \in Profiles : /\ profiles[p].state = "unborn"
                         /\ profiles' = [profiles EXCEPT ![p] = [state |-> "live", v |-> 1]]
  /\ Stay /\ UNCHANGED <<mlflow, s3Vars>>

(* An installation of MLflow that uses the profile refuses the request. *)
UpdateProfile(c) ==
  /\ Begin(c, "update_profile")
  /\ \E p \in Profiles : /\ LiveProfile(p) /\ ~UsedByMlflow(p)
                         /\ Goto(c, "update_flush", [NoLocal EXCEPT !.p = p])
  /\ UNCHANGED <<profiles, mlflow, s3Vars>>

(* list_for_profile(): before the linked rows are read, the session        *)
(* flushes the edited profile, and holds its row from then on.  Without    *)
(* that, rows are read that another transaction is about to write:         *)
BadUpdateFlush_ReadsFirst(c) ==
  LET p == loc[c].p
  IN /\ At(c, "update_flush")
     /\ LiveProfile(p) /\ UNCHANGED lock
     /\ Goto(c, "update_commit", [loc[c] EXCEPT !.known = [r \in Linked(p) |-> creds[r].err]])
     /\ Quiet /\ Tables /\ Objects /\ UNCHANGED creds

UpdateFlush(c) ==
  LET p == loc[c].p
  IN /\ At(c, "update_flush") /\ CanWrite(p)
     /\ IF LiveProfile(p)
        THEN /\ lock' = [lock EXCEPT ![p] = [by |-> c, mode |-> "update"]]
             /\ Goto(c, "update_commit", [loc[c] EXCEPT !.known = [r \in Linked(p) |-> creds[r].err]])
        ELSE End(c) /\ lock' = lock
     /\ Quiet /\ Tables /\ Objects /\ UNCHANGED creds

(* A row to be written that is gone fails the transaction (StaleDataError).*)
Written(l, r)   == l.err[r] # l.known[r]
Stale(l)        == \E r \in DOMAIN l.err : Written(l, r) /\ ~LiveCred(r)
WriteErrors(l)  == creds' = [r \in Creds |->
                     IF r \in DOMAIN l.err /\ LiveCred(r) /\ Written(l, r)
                     THEN [creds[r] EXCEPT !.err = l.err[r]] ELSE creds[r]]

(* The credentials are marked when they are synchronized. *)
BadUpdateCommit_NoMark(c) ==
  LET p == loc[c].p
  IN /\ At(c, "update_commit") /\ UNCHANGED creds /\ Unlock(p)
     /\ profiles' = [profiles EXCEPT ![p].v = @ + 1]
     /\ Goto(c, "sync_lock", [loc[c] EXCEPT !.known = <<>>])
     /\ Quiet /\ Objects /\ UNCHANGED <<mlflow, fresh>>

(* "Persist pending status with the profile, so interrupted syncs remain   *)
(* visible."                                                               *)
UpdateCommit(c) ==
  LET p == loc[c].p
      l == [loc[c] EXCEPT !.err = [r \in DOMAIN loc[c].known |-> "pending"]]
  IN /\ At(c, "update_commit")
     /\ IF Stale(l)
        THEN End(c) /\ UNCHANGED <<profiles, creds>>
        ELSE /\ profiles' = [profiles EXCEPT ![p].v = @ + 1]
             /\ WriteErrors(l)
             /\ Goto(c, "sync_lock", [l EXCEPT !.known = <<>>, !.err = <<>>])
     /\ Unlock(p)
     /\ Quiet /\ Objects /\ UNCHANGED <<mlflow, fresh>>

(* Refused if MLflow uses the profile or credentials are linked to it. *)
DeleteProfile(c) ==
  /\ Begin(c, "delete_profile")
  /\ \E p \in Profiles : /\ LiveProfile(p) /\ ~UsedByMlflow(p) /\ Linked(p) = {}
                         /\ Goto(c, "profile_delete", [NoLocal EXCEPT !.p = p])
  /\ UNCHANGED <<profiles, mlflow, s3Vars>>

(* The checks may be out of date by then; the foreign keys are not. *)
ProfileDelete(c) ==
  LET p == loc[c].p
  IN /\ At(c, "profile_delete") /\ CanWrite(p)
     /\ profiles' = IF UsedByMlflow(p) \/ Linked(p) # {} THEN profiles
                    ELSE [profiles EXCEPT ![p].state = "gone"]
     /\ End(c) /\ Quiet /\ UNCHANGED <<mlflow, fresh, s3Vars>>

-----------------------------------------------------------------------------
(* Credentials. *)

CreateCredential(c) ==
  /\ Begin(c, "create_credential")
  /\ \E r \in Creds, p \in Profiles \cup {None} :
       /\ creds[r].state = "unborn" /\ secret[r] = None /\ \A x \in Procs : loc[x].c # r
       /\ p # None => LiveProfile(p)
       /\ Goto(c, "credential_secret", [NoLocal EXCEPT !.c = r, !.p = p,
                                                       !.v = IF p = None THEN 0 ELSE profiles[p].v])
  /\ UNCHANGED <<profiles, mlflow, s3Vars>>

(* _apply_secret(), under a name that nobody else has. *)
ApplySecret(c) ==
  /\ At(c, "credential_secret")
  /\ Call(c, secret' = [secret EXCEPT ![loc[c].c] = loc[c].v], UNCHANGED secret,
          "credential_insert", "idle", loc[c])
  /\ Tables /\ UNCHANGED <<creds, cmap, lock>>

(* A linked row is marked from the beginning.  The insertion fails if the  *)
(* profile is gone, or for a name that is taken by now; then the Secret    *)
(* is withdrawn.                                                           *)
InsertCredential(c) ==
  LET r == loc[c].c
      p == loc[c].p
      err == IF p = None THEN "" ELSE "pending"
      row == creds' = [creds EXCEPT ![r] = [state |-> "live", profile |-> p, err |-> err]]
  IN /\ At(c, "credential_insert")
     /\ p # None => CanReference(p)
     /\ IF p = None \/ LiveProfile(p)
        THEN \/ row /\ Goto(c, IF p = None THEN "idle" ELSE "sync_lock",
                            [loc[c] EXCEPT !.known = Mark(r, err)]) /\ faults' = faults
             \/ faults < MaxFaults /\ faults' = faults + 1 /\ creds' = creds
                /\ Goto(c, "credential_undo", loc[c])
        ELSE creds' = creds /\ Goto(c, "credential_undo", loc[c]) /\ faults' = faults
     /\ UNCHANGED <<ops, sent, secret, cmap, lock>> /\ Tables

UndoSecret(c) ==
  /\ At(c, "credential_undo")
  /\ Call(c, secret' = [secret EXCEPT ![loc[c].c] = None], UNCHANGED secret, "idle", "idle", loc[c])
  /\ Tables /\ UNCHANGED <<creds, cmap, lock>>

DeleteCredential(c) ==
  /\ Begin(c, "delete_credential")
  /\ \E r \in Creds :
       /\ LiveCred(r)
       /\ Goto(c, IF creds[r].profile = None THEN "delete_secret" ELSE "delete_repository",
               [NoLocal EXCEPT !.c = r])
  /\ UNCHANGED <<profiles, mlflow, s3Vars>>

(* delete_repository(), _delete_secret(): an error leaves the row in place.*)
DeleteRepository(c) ==
  /\ At(c, "delete_repository")
  /\ Call(c, cmap' = [cmap EXCEPT ![loc[c].c] = None], UNCHANGED cmap, "delete_secret", "idle", loc[c])
  /\ Tables /\ UNCHANGED <<creds, secret, lock>>
DeleteSecret(c) ==
  /\ At(c, "delete_secret")
  /\ Call(c, secret' = [secret EXCEPT ![loc[c].c] = None], UNCHANGED secret, "delete_row", "idle", loc[c])
  /\ Tables /\ UNCHANGED <<creds, cmap, lock>>
DeleteRow(c) ==
  /\ At(c, "delete_row")
  /\ creds' = [creds EXCEPT ![loc[c].c].state = "gone"]
  /\ End(c) /\ Quiet /\ Tables /\ UNCHANGED <<secret, cmap, lock>>

-----------------------------------------------------------------------------
(* sync_profile_credentials() *)

(* retry_sync() has loaded the row before it waits for the lock. *)
RetrySync(c) ==
  /\ Begin(c, "retry_sync")
  /\ \E r \in Creds :
       /\ LiveCred(r) /\ creds[r].profile # None
       /\ Goto(c, "sync_lock", [NoLocal EXCEPT !.c = r, !.p = creds[r].profile,
                                               !.known = Mark(r, creds[r].err)])
  /\ UNCHANGED <<profiles, mlflow, s3Vars>>

(* The rows of the profile; those in the session stay as they were loaded. *)
Loaded(l, p) == [r \in Linked(p) |-> IF r \in DOMAIN l.known THEN l.known[r] ELSE creds[r].err]
Synchronizing(l, p) ==
  [l EXCEPT !.v = profiles[p].v, !.known = Loaded(l, p), !.todo = Linked(p), !.err = Loaded(l, p), !.c = None]

(* Nobody is kept from editing the profile meanwhile. *)
BadSyncLock_NoLock(c) ==
  LET p == loc[c].p
  IN /\ At(c, "sync_lock") /\ LiveProfile(p) /\ UNCHANGED lock
     /\ Goto(c, "sync_secret", Synchronizing(loc[c], p))
     /\ Quiet /\ Tables /\ Objects /\ UNCHANGED creds

(* SELECT ... FOR UPDATE, and what was committed last is read. *)
SyncLock(c) ==
  LET p == loc[c].p
  IN /\ At(c, "sync_lock") /\ CanWrite(p)
     /\ IF LiveProfile(p)
        THEN /\ lock' = [lock EXCEPT ![p] = [by |-> c, mode |-> "for_update"]]
             /\ Goto(c, "sync_secret", Synchronizing(loc[c], p))
        ELSE End(c) /\ lock' = lock
     /\ Quiet /\ Tables /\ Objects /\ UNCHANGED creds

(* _replace_secret(): it has to exist.  c of the handler is the row whose  *)
(* Secret is done.                                                         *)
SyncFails(c, r) == [loc[c] EXCEPT !.todo = @ \ {r}, !.err[r] = "failed", !.c = None]
ReplaceSecret(c) ==
  /\ At(c, "sync_secret") /\ loc[c].todo # {}
  /\ \E r \in loc[c].todo :
       IF secret[r] = None
       THEN Refused(c, UNCHANGED secret, "sync_secret", SyncFails(c, r))
       ELSE \/ /\ secret' = [secret EXCEPT ![r] = loc[c].v] /\ Quiet
               /\ Goto(c, "sync_repository", [loc[c] EXCEPT !.c = r])
            \/ /\ faults < MaxFaults /\ faults' = faults + 1 /\ UNCHANGED <<ops, sent>>
               /\ secret' \in {secret, [secret EXCEPT ![r] = loc[c].v]}
               /\ Goto(c, "sync_secret", SyncFails(c, r))
  /\ Tables /\ UNCHANGED <<creds, cmap, lock>>

(* sync_repository(): created if there is none. *)
SyncRepository(c) ==
  LET r == loc[c].c
      set == cmap' = [cmap EXCEPT ![r] = loc[c].v]
  IN /\ At(c, "sync_repository")
     /\ \/ /\ set /\ Quiet
           /\ Goto(c, "sync_secret", [loc[c] EXCEPT !.todo = @ \ {r}, !.err[r] = "", !.c = None])
        \/ /\ faults < MaxFaults /\ faults' = faults + 1 /\ UNCHANGED <<ops, sent>>
           /\ set \/ UNCHANGED cmap
           /\ Goto(c, "sync_secret", SyncFails(c, r))
     /\ Tables /\ UNCHANGED <<creds, secret, lock>>

(* One commit for all rows.  One that was synchronized is written in any   *)
(* case, because of its time; if it is gone, nothing is committed.         *)
SyncCommit(c) ==
  LET l == loc[c]
  IN /\ At(c, "sync_secret") /\ l.todo = {}
     /\ IF Stale(l) \/ \E r \in DOMAIN l.err : l.err[r] = "" /\ ~LiveCred(r)
        THEN creds' = creds
        ELSE WriteErrors(l)
     /\ Unlock(l.p)
     /\ End(c) /\ Quiet /\ Tables /\ Objects

(* A transaction that is not committed is rolled back. *)
Rollback(c) == lock' = [p \in Profiles |-> IF lock[p].by = c THEN NoLock ELSE lock[p]]

S3Begin(c) == \/ CreateProfile(c) \/ UpdateProfile(c) \/ DeleteProfile(c)
              \/ CreateCredential(c) \/ DeleteCredential(c) \/ RetrySync(c)
S3Step(c)  == \/ UpdateFlush(c) \/ UpdateCommit(c) \/ ProfileDelete(c) \/ ApplySecret(c)
              \/ InsertCredential(c) \/ UndoSecret(c) \/ DeleteRepository(c) \/ DeleteSecret(c)
              \/ DeleteRow(c) \/ SyncLock(c) \/ ReplaceSecret(c) \/ SyncRepository(c) \/ SyncCommit(c)

-----------------------------------------------------------------------------
(* "Serialize synchronization and read the latest committed profile        *)
(* values", "so interrupted syncs remain visible": a credential that is    *)
(* not marked holds what its profile says, in the Secret and in the        *)
(* ConfigMap, whatever edits, retries, creations, deletions and deaths of  *)
(* processes come together.  Only a deletion under way or interrupted      *)
(* leaves one without its objects.                                         *)
SyncedIsCurrent ==
  \A r \in Creds :
    LET p == creds[r].profile
    IN LiveCred(r) /\ p # None =>
         (creds[r].err = "" => secret[r] \in {None, profiles[p].v} /\ cmap[r] \in {None, profiles[p].v})

-----------------------------------------------------------------------------
(* What keeps it so.                                                        *)

(* A row is inserted by the one handler that made its Secret, and refers to *)
(* a profile that is there.                                                 *)
Creates(x) == pc[x] \in {"credential_secret", "credential_insert", "credential_undo"}
Referenced == \A r \in Creds : LiveCred(r) /\ creds[r].profile # None => LiveProfile(creds[r].profile)
RowInv ==
  /\ Referenced
  /\ \A x \in Procs : loc[x].c # None => (creds[loc[x].c].state = "unborn" <=> Creates(x))
  /\ \A x, y \in Procs : Creates(x) /\ loc[x].c = loc[y].c => x = y

(* An edit holds the profile, and knows every row that is not marked.       *)
EditInv(x) ==
  LET p == loc[x].p
  IN pc[x] = "update_commit" =>
       /\ LiveProfile(p) /\ lock[p] = [by |-> x, mode |-> "update"]
       /\ \A r \in Linked(p) : creds[r].err = "" => r \in DOMAIN loc[x].known /\ loc[x].known[r] # "pending"

(* A synchronization holds the profile, has read what it says, and what it  *)
(* will not mark holds that.                                                *)
SyncInv(x) ==
  LET l == loc[x]
  IN pc[x] \in {"sync_secret", "sync_repository"} =>
       /\ LiveProfile(l.p) /\ lock[l.p] = [by |-> x, mode |-> "for_update"] /\ l.v = profiles[l.p].v
       /\ \A r \in DOMAIN l.err : creds[r].profile = l.p /\ creds[r].state # "unborn"
       /\ \A r \in DOMAIN l.err \ l.todo : l.err[r] = "" => {secret[r], cmap[r]} \subseteq {None, l.v}
       /\ pc[x] = "sync_repository" => secret[l.c] \in {None, l.v}

ProfileInv == SyncedIsCurrent /\ RowInv /\ \A x \in Procs : EditInv(x) /\ SyncInv(x)
=============================================================================
