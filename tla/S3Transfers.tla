---------------------------- MODULE S3Transfers ----------------------------
(***************************************************************************)
(* What the VS Code extension does to S3 objects                           *)
(* (code-server-extensions/triton-deploy): uploads and deletions of the    *)
(* S3 browser (s3-browser.js), writes and deletions of the file system     *)
(* (s3-filesystem.js), and copies and moves, which both make               *)
(* (s3-transfers.js).                                                      *)
(*                                                                         *)
(* An operation lists what it is about and then goes through the objects,  *)
(* a request at a time.  Before every request it asks for the profile      *)
(* again.  It may stop at any request: it is cancelled, the profile has    *)
(* been changed, the store fails or answers 412.  What was done stays.     *)
(*                                                                         *)
(* Objects are taken in any order, a superset of the listing's.  Downloads *)
(* into the workspace, which change no object, folder markers, renaming    *)
(* while copying and limits on sizes and numbers are left out.             *)
(***************************************************************************)
EXTENDS S3Objects

CONSTANTS
  Users,      \* windows and file systems: each does one operation at a time
  MaxFaults   \* bound: answers that are lost after the store has acted, restarts of the sync worker

ASSUME FaultsAssumption == MaxFaults \in Nat
ASSUME FiniteAssumption == IsFiniteSet(Users) /\ IsFiniteSet(Folders) /\ IsFiniteSet(Names)

VARIABLES
  op,         \* the operation of a user
  faults      \* used up of MaxFaults

transferVars == <<op, faults>>

Operation ==
  [kind : {"transfer", "upload", "write", "delete"},
   step : {"head", "fetch", "put", "check", "remove", "open", "erase"},
   move : BOOLEAN,
   to   : Folders,                     \* a transfer's destination
   all  : BOOLEAN,                     \* an upload's "Replace All"
   todo : SUBSET Keys,                 \* objects still to be taken
   key  : Keys \cup {None},            \* the object taken: a transfer's source, or what is written
   seen : Contents \cup {None},        \* the ETag found at the destination
   tag  : Contents \cup {None},        \* the content that is copied or written
   made : SUBSET [src : Keys, tag : Contents]]  \* committed copies, whose sources are still to go

TransferTypes ==
  /\ op \in [Users -> Operation \cup {None}] /\ faults \in 0..MaxFaults
  /\ \A u \in Users : op[u] # None /\ op[u].step \in {"put", "remove"} => op[u].key \in Keys /\ op[u].tag \in Contents

Busy(u, step)  == op[u] # None /\ op[u].step = step
Start(u, o)    == op[u] = None /\ Starts /\ op' = [op EXCEPT ![u] = o]
Goes(u, o)     == op' = [op EXCEPT ![u] = o]
Ends(u)        == op' = [op EXCEPT ![u] = None]
Target(u, k)   == IF op[u].kind = "transfer" THEN <<op[u].to, k[2]>> ELSE k

Blank(kind, step) ==
  [kind |-> kind, step |-> step, move |-> FALSE, to |-> CHOOSE f \in Folders : TRUE, all |-> FALSE,
   todo |-> {}, key |-> None, seen |-> None, tag |-> None, made |-> {}]

-----------------------------------------------------------------------------
(* plan() of files or of a folder with all it holds.  A folder is not      *)
(* moved into itself.                                                      *)
BeginTransfer(u) ==
  \E f, g \in Folders, m \in BOOLEAN, K \in SUBSET Existing(Keys) :
    /\ f # g /\ K # {} /\ \A k \in K : k[1] = f
    /\ Start(u, [Blank("transfer", "head") EXCEPT !.move = m, !.to = g, !.todo = K])
    /\ UNCHANGED <<bucket, forgone, faults>>

(* planUpload(): files of the workspace, here of one content. *)
BeginUpload(u) ==
  \E K \in SUBSET Keys, c \in Contents :
    /\ K # {} /\ \A k, l \in K : k[1] = l[1]
    /\ Start(u, [Blank("upload", "head") EXCEPT !.todo = K, !.tag = c])
    /\ UNCHANGED <<bucket, forgone, faults>>

(* writeFile() up to its check of the options, or the editor's own open(). *)
BeginWrite(u) ==
  \E k \in Keys, c \in Contents :
    /\ Start(u, [Blank("write", "open") EXCEPT !.key = k, !.tag = c])
    /\ UNCHANGED <<bucket, forgone, faults>>

(* delete(), deleteTarget(), _delete_s3_prefix(): the listing, and the     *)
(* user's confirmation of the first two.                                   *)
BeginDelete(u) ==
  \E K \in SUBSET Existing(Keys) :
    /\ K # {} /\ \A k, l \in K : k[1] = l[1]
    /\ Start(u, [Blank("delete", "erase") EXCEPT !.todo = K])
    /\ UNCHANGED <<bucket, forgone, faults>>

Begin(u) == BeginTransfer(u) \/ BeginUpload(u) \/ BeginWrite(u) \/ BeginDelete(u)

-----------------------------------------------------------------------------
(* head() of the destination, and the user's answer if something is there: *)
(* replace it, replace all that is there, or skip the object.              *)
Head(u) ==
  /\ Busy(u, "head")
  /\ \E k \in op[u].todo :
       LET there == bucket[Target(u, k)]
           next  == IF op[u].kind = "transfer" THEN "fetch" ELSE "put"
           taken == [op[u] EXCEPT !.step = next, !.key = k, !.seen = there]
       IN \/ there = None /\ Goes(u, taken) /\ UNCHANGED forgone
          \/ there # None /\ Goes(u, taken) /\ forgone' = forgone \cup {there}
          \/ /\ there # None /\ op[u].kind = "upload" /\ ~op[u].all
             /\ Goes(u, [taken EXCEPT !.all = TRUE]) /\ forgone' = forgone \cup {there}
          \/ there # None /\ ~op[u].all /\ Goes(u, [op[u] EXCEPT !.todo = @ \ {k}]) /\ UNCHANGED forgone
  /\ UNCHANGED <<bucket, begun, faults>>

(* All objects are copied or uploaded; a move goes on to its sources. *)
Copied(u) ==
  /\ Busy(u, "head") /\ op[u].todo = {}
  /\ IF op[u].move /\ op[u].made # {} THEN Goes(u, [op[u] EXCEPT !.step = "check"]) ELSE Ends(u)
  /\ UNCHANGED <<objectVars, faults>>

(* stat() of the source and its download under If-Match. *)
Fetch(u) ==
  /\ Busy(u, "fetch") /\ bucket[op[u].key] # None
  /\ Goes(u, [op[u] EXCEPT !.step = "put", !.tag = bucket[op[u].key]])
  /\ UNCHANGED <<objectVars, faults>>

(* open() for writing: the object that is there will be replaced. *)
Open(u) ==
  /\ Busy(u, "open")
  /\ Goes(u, [op[u] EXCEPT !.step = "put", !.seen = bucket[op[u].key]])
  /\ forgone' = Giving(op[u].key)
  /\ UNCHANGED <<bucket, begun, faults>>

(* upload(): of a transfer, of the S3 browser, or by close(). *)
Written(u) ==
  [op[u] EXCEPT !.step = "head", !.todo = @ \ {op[u].key},
                !.made = IF op[u].move THEN @ \cup {[src |-> op[u].key, tag |-> op[u].tag]} ELSE @,
                !.key = None, !.seen = None, !.tag = IF op[u].kind = "transfer" THEN None ELSE @]
Upload(u) ==
  /\ Busy(u, "put")
  /\ Put(Target(u, op[u].key), op[u].tag, op[u].seen)
  /\ IF op[u].kind = "write" THEN Ends(u) ELSE Goes(u, Written(u))
  /\ UNCHANGED <<forgone, begun, faults>>

(* The second phase of a move: the copy is looked at once more ... *)
Check(u) ==
  /\ Busy(u, "check")
  /\ \E m \in op[u].made :
       /\ bucket[Target(u, m.src)] = m.tag
       /\ Goes(u, [op[u] EXCEPT !.step = "remove", !.key = m.src, !.tag = m.tag])
  /\ UNCHANGED <<objectVars, faults>>

(* The source goes, whatever it is by now. *)
BadRemoveSource_Unconditional(u) ==
  LET left == {m \in op[u].made : m.src # op[u].key}
  IN /\ Busy(u, "remove")
     /\ bucket' = [bucket EXCEPT ![op[u].key] = None]
     /\ IF left = {} THEN Ends(u)
        ELSE Goes(u, [op[u] EXCEPT !.step = "check", !.made = left, !.key = None, !.tag = None])
     /\ UNCHANGED <<forgone, begun, faults>>

(* ... and the source goes if it is what was copied. *)
RemoveSource(u) ==
  LET left == {m \in op[u].made : m.src # op[u].key}
  IN /\ Busy(u, "remove")
     /\ Remove(op[u].key, op[u].tag)
     /\ IF left = {} THEN Ends(u)
        ELSE Goes(u, [op[u] EXCEPT !.step = "check", !.made = left, !.key = None, !.tag = None])
     /\ UNCHANGED <<forgone, begun, faults>>

(* One object of a deletion.  delete() sends the ETag it has just read,    *)
(* deleteTarget() and _delete_s3_prefix() none: what is there goes.        *)
Erase(u) ==
  /\ Busy(u, "erase")
  /\ \E k \in op[u].todo :
       /\ forgone' = Giving(k)
       /\ bucket' = [bucket EXCEPT ![k] = None]
       /\ IF op[u].todo = {k} THEN Ends(u) ELSE Goes(u, [op[u] EXCEPT !.todo = @ \ {k}])
  /\ UNCHANGED <<begun, faults>>

Work(u) == Head(u) \/ Copied(u) \/ Fetch(u) \/ Open(u) \/ Upload(u) \/ Check(u) \/ RemoveSource(u) \/ Erase(u)

(* The operation is cancelled or fails, and nothing more is done. *)
Stop(u) == op[u] # None /\ Ends(u) /\ UNCHANGED <<objectVars, faults>>

(* The store has acted, its answer is lost, and the operation fails. *)
AnswerLost(u) ==
  /\ faults < MaxFaults /\ faults' = faults + 1
  /\ \/ Busy(u, "put") /\ Put(Target(u, op[u].key), op[u].tag, op[u].seen)
     \/ Busy(u, "remove") /\ Remove(op[u].key, op[u].tag)
  /\ Ends(u)
  /\ UNCHANGED <<forgone, begun>>

-----------------------------------------------------------------------------
(* docs/development-workspaces.md: "S3 moves copy the selected contents    *)
(* before deleting the sources.  Conditional requests protect against      *)
(* concurrent object changes."  A content leaves the bucket only if a user *)
(* agreed that it is replaced, asked for its deletion, or a write that     *)
(* asks nobody (the backend's, a file that is saved) took it: no copy,     *)
(* move or upload loses what another user has put there in between, in     *)
(* whatever phase it fails.                                                *)
Held == {bucket[k] : k \in Keys} \ {None}
NothingLostUnasked == [][Held \ Held' \subseteq forgone']_<<objectVars, transferVars>>
=============================================================================
