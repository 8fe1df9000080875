----------------------------- MODULE S3Objects -----------------------------
(***************************************************************************)
(* The objects of a bucket, as the backend's S3 browser                    *)
(* (triton-backend/app/services/storage/s3.py) and the VS Code extension   *)
(* (code-server-extensions/triton-deploy/s3-client.js) see them.           *)
(*                                                                         *)
(* An object has the ETag of its content: objects of equal content are not *)
(* told apart.  The store answers a request as a whole and honours the     *)
(* conditions of PUT and DELETE.  The backend's requests carry none.       *)
(*                                                                         *)
(* Listings come in one page; names, metadata, the validation of a written *)
(* config.pbtxt and the look-up of its key are left out.                   *)
(***************************************************************************)
EXTENDS Naturals, FiniteSets

CONSTANTS
  Folders,    \* prefixes below the profile's root
  Names,      \* object names, the same in every folder
  Contents,   \* what an object holds
  None,
  MaxRequests \* bound: operations that are started

ASSUME ContentsAssumption == None \notin Contents
ASSUME RequestsAssumption == MaxRequests \in Nat

Keys == Folders \X Names

VARIABLES
  bucket,     \* the object of a key
  forgone,    \* ghost: contents a user agreed to replace, or asked to delete, or an unasked write took
  begun       \* operations started so far

objectVars == <<bucket, forgone, begun>>

ObjectTypes ==
  /\ bucket \in [Keys -> Contents \cup {None}]
  /\ forgone \subseteq Contents
  /\ begun \in 0..MaxRequests

Existing(K) == {k \in K : bucket[k] # None}
Giving(k)   == forgone \cup ({bucket[k]} \ {None})
Starts      == begun < MaxRequests /\ begun' = begun + 1

(* upload(): PUT with If-Match: seen, or If-None-Match: * if nothing was   *)
(* seen.  Disabled when the store would answer 412.                        *)
Put(k, c, seen) == bucket[k] = seen /\ bucket' = [bucket EXCEPT ![k] = c]

(* remove(): DELETE with If-Match: tag. *)
Remove(k, tag) == bucket[k] = tag /\ bucket' = [bucket EXCEPT ![k] = None]

(* put_instance_s3_content(): the object is replaced, whatever it holds. *)
BackendPut(k, c) ==
  /\ Starts
  /\ forgone' = Giving(k)
  /\ bucket' = [bucket EXCEPT ![k] = c]

(* delete_instance_s3_content() of one object. *)
BackendDelete(k) ==
  /\ Starts
  /\ forgone' = Giving(k)
  /\ bucket' = [bucket EXCEPT ![k] = None]
=============================================================================
