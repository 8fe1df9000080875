--------------------------- MODULE RepositorySync ---------------------------
(***************************************************************************)
(* The s3-model-sync container of a vLLM or TensorRT-LLM deployment and    *)
(* Triton beside it: _add_local_s3_repository() and _s3_sync_container()   *)
(* of triton-backend/app/services/deployment/kubernetes.py.                *)
(*                                                                         *)
(* A cycle of the script brings /staging up to the bucket with `aws s3     *)
(* sync --delete', rewrites the relative paths in the configuration and,   *)
(* if the result differs from /models, empties /models and copies it over, *)
(* entry by entry.  The marker .s3-sync-ready is one of the entries; after *)
(* the copy it is touched once more.  An init container runs one cycle     *)
(* before Triton starts, a sidecar runs them beside Triton, which waits    *)
(* for the marker.  A command that fails ends the script (set -e), the     *)
(* container is restarted, and both volumes keep what they hold.           *)
(*                                                                         *)
(* aws s3 sync is external: it lists the bucket, downloads what is missing,*)
(* of another size or newer in /staging than in the bucket, and deletes    *)
(* what the bucket has not.  What the rewriting writes is a function of    *)
(* the file, and left out, but the file it leaves is newer.  Triton's      *)
(* later scans are left out.                                               *)
(***************************************************************************)
EXTENDS S3Objects

CONSTANTS
  Repo,       \* the folder that is deployed
  Config,     \* the name of its config.pbtxt
  SizeOf      \* the size of a content

ASSUME RepoAssumption == Repo \in Folders /\ Config \in Names
ASSUME SizeAssumption == SizeOf \in [Contents -> Nat]

Marker == "ready"
Entries == Names \cup {Marker}

VARIABLES
  mode,       \* "off", "init", "sidecar": repository_sync_mode
  direct,     \* config.pbtxt lies at the root of the prefix: one model, copied to a folder of its own
  staging,    \* /staging
  newer,      \* files of /staging that were written after their download
  models,     \* /models, its files
  ready,      \* /models/.s3-sync-ready exists
  phase,      \* where the script is
  todo,       \* files or entries the phase still has to go through
  whole,      \* ghost: /models holds all that was published last
  triton      \* "waiting" or "started"

syncVars == <<mode, direct, staging, newer, models, ready, phase, todo, whole, triton>>

SyncTypes ==
  /\ mode \in {"off", "init", "sidecar"} /\ direct \in BOOLEAN
  /\ staging \in [Names -> Contents \cup {None}] /\ newer \subseteq Names
  /\ models \in [Names -> Contents \cup {None}] /\ ready \in BOOLEAN
  /\ phase \in {"list", "sync", "prepare", "compare", "wipe", "copy", "touch", "sleep", "exited"}
  /\ todo \subseteq Entries
  /\ whole \in BOOLEAN /\ triton \in {"waiting", "started"}

InBucket(n) == bucket[<<Repo, n>>]
Placed      == {n \in Names : models[n] # None}

(* The size-and-time comparison of aws s3 sync for a download: a file of   *)
(* the same size is taken again only if the local one is the newer one.    *)
Outdated(n) ==
  /\ InBucket(n) # None
  /\ staging[n] = None \/ SizeOf[staging[n]] # SizeOf[InBucket(n)] \/ n \in newer

Phase(p, q) == mode # "off" /\ phase = p /\ phase' = q

(* aws s3 sync: the listings of both sides are compared, and what the      *)
(* bucket has not is deleted locally, ...                                  *)
List ==
  /\ Phase("list", "sync")
  /\ todo' = {n \in Names : Outdated(n)}
  /\ staging' = [n \in Names |-> IF InBucket(n) = None THEN None ELSE staging[n]]
  /\ newer' = {n \in newer : InBucket(n) # None}
  /\ UNCHANGED <<mode, direct, models, ready, whole, triton>>

(* ... then file after file is downloaded.  An object that has gone since  *)
(* the listing fails the command, and the container is restarted.          *)
SyncFile ==
  /\ mode # "off" /\ phase = "sync"
  /\ \E n \in todo :
       IF InBucket(n) # None
       THEN /\ staging' = [staging EXCEPT ![n] = InBucket(n)]
            /\ newer' = newer \ {n}
            /\ todo' = todo \ {n}
            /\ UNCHANGED phase
       ELSE phase' = "list" /\ todo' = {} /\ UNCHANGED <<staging, newer>>
  /\ UNCHANGED <<mode, direct, models, ready, whole, triton>>

(* The repository below /staging is the source, or, if config.pbtxt lies   *)
(* at its root, a copy of it under the model's name.  The configuration is *)
(* rewritten in the source: sed leaves a newer file, in the copy if there  *)
(* is one.                                                                 *)
Prepare ==
  /\ Phase("sync", "compare") /\ todo = {}
  /\ newer' = IF ~direct /\ staging[Config] # None THEN {Config} ELSE newer
  /\ UNCHANGED <<mode, direct, staging, models, ready, todo, whole, triton>>

(* The exit status of diff is read the wrong way round. *)
BadCompare_Inverted ==
  /\ phase = "compare" /\ mode # "off"
  /\ IF ~(ready /\ models = staging)
     THEN phase' = "touch" /\ UNCHANGED <<todo, whole>>
     ELSE phase' = "wipe" /\ todo' = Placed /\ whole' = FALSE
  /\ UNCHANGED <<mode, direct, staging, newer, models, ready, triton>>

(* diff -qr: /models is left alone if nothing, the marker included, differs. *)
Compare ==
  /\ phase = "compare" /\ mode # "off"
  /\ IF ready /\ models = staging
     THEN phase' = "touch" /\ UNCHANGED <<todo, whole>>
     ELSE /\ phase' = "wipe"
          /\ todo' = Placed \cup (IF ready THEN {Marker} ELSE {})
          /\ whole' = FALSE
  /\ UNCHANGED <<mode, direct, staging, newer, models, ready, triton>>

(* find /models -mindepth 1 -maxdepth 1 -exec rm -rf: in the order of the directory. *)
Wipe ==
  /\ phase = "wipe" /\ mode # "off"
  /\ \E e \in todo :
       /\ todo' = todo \ {e}
       /\ models' = IF e = Marker THEN models ELSE [models EXCEPT ![e] = None]
       /\ ready' = IF e = Marker THEN FALSE ELSE ready
  /\ UNCHANGED <<mode, direct, staging, newer, phase, whole, triton>>

Wiped ==
  /\ Phase("wipe", "copy") /\ todo = {}
  /\ todo' = {n \in Names : staging[n] # None} \cup {Marker}
  /\ UNCHANGED <<mode, direct, staging, newer, models, ready, whole, triton>>

(* cp -R: in the order of the directory, the marker among the rest. *)
Copy ==
  /\ phase = "copy" /\ mode # "off"
  /\ \E e \in todo :
       /\ todo' = todo \ {e}
       /\ models' = IF e = Marker THEN models ELSE [models EXCEPT ![e] = staging[e]]
       /\ ready' = (ready \/ e = Marker)
  /\ UNCHANGED <<mode, direct, staging, newer, phase, whole, triton>>

Placing ==
  /\ Phase("copy", "touch") /\ todo = {}
  /\ whole' = TRUE
  /\ UNCHANGED <<mode, direct, staging, newer, models, ready, todo, triton>>

(* touch /models/.s3-sync-ready, the end of a cycle. *)
Touch ==
  /\ Phase("touch", IF mode = "init" THEN "exited" ELSE "sleep")
  /\ ready' = TRUE
  /\ UNCHANGED <<mode, direct, staging, newer, models, todo, whole, triton>>

(* while sleep repository_poll_secs *)
Poll ==
  /\ Phase("sleep", "list")
  /\ UNCHANGED <<mode, direct, staging, newer, models, ready, todo, whole, triton>>

(* Triton starts when the init container has exited, or beside a sidecar   *)
(* once the marker is there, and scans /models.                            *)
TritonStarts ==
  /\ triton = "waiting"
  /\ \/ mode = "init" /\ phase = "exited"
     \/ mode = "sidecar" /\ ready
  /\ triton' = "started"
  /\ UNCHANGED <<mode, direct, staging, newer, models, ready, phase, todo, whole>>

(* The script fails or is killed; the container starts it again. *)
ScriptRestarts ==
  /\ mode # "off" /\ phase \notin {"list", "exited"}
  /\ phase' = "list" /\ todo' = {}
  /\ UNCHANGED <<mode, direct, staging, newer, models, ready, whole, triton>>

Script == List \/ SyncFile \/ Prepare \/ Compare \/ Wipe \/ Wiped \/ Copy \/ Placing \/ Touch \/ Poll

-----------------------------------------------------------------------------
(* _add_local_s3_repository(): "Containers start concurrently. Do not let  *)
(* Triton scan a partial first sync."  When Triton starts, /models holds a *)
(* repository as a whole.                                                  *)
FirstScanIsWhole == [][triton = "waiting" /\ triton' = "started" => whole]_syncVars

(* docs/deployment.md: "Polling mode keeps the repository refreshed while  *)
(* Triton runs."  Once nobody changes the bucket any more, /models comes   *)
(* to hold its files, in the sizes they have there.  The content follows   *)
(* too if the script has rewritten the file; another content of the same   *)
(* size is not noticed (--exact-timestamps is not given).                  *)
Follows(n) ==
  IF InBucket(n) = None \/ models[n] = None THEN InBucket(n) = models[n]
  ELSE IF n = Config /\ ~direct THEN models[n] = InBucket(n)
  ELSE SizeOf[models[n]] = SizeOf[InBucket(n)]
RepositoryFollows == mode = "sidecar" => <>[](\A n \in Names : Follows(n))
=============================================================================
