----------------------------- MODULE FilePages ------------------------------
(* The files of a repository in the frontend: the S3 browser, and the pane  *)
(* that edits one model's configuration.                                    *)
(*                                                                          *)
(* The S3 browser of an instance (state/instances-s3 and its page): the     *)
(* listing of a folder, the editor, uploads and deletions.  A folder holds  *)
(* one file, named like the folder; of a text the model keeps where it came *)
(* from.  What the server answers a page knows at once: reads replace each  *)
(* other, so an answer that travels is a request served earlier.            *)
EXTENDS Browser, Sequences

CONSTANTS Folders, Root

ASSUME RootAssumption == Root \in Folders

VARIABLES objects,  \* what the bucket of an instance holds in a folder
          listing,  \* the entries of the store, or None
          path,     \* currentPath
          editor,   \* editorOpen with its file and text, or None
          busy,     \* uploads the page knows of
          mixed   \* ghost: opened over requests that go to another instance

fileVars == <<objects, listing, path, editor, busy, mixed>>

Own(i, d) == [of |-> i, at |-> d]
FromDisk == [of |-> None, at |-> None]
LoadError(d) == [of |-> None, at |-> d]    \* "Failed to load file content for ..."
BlankText == [of |-> None, at |-> Root, blank |-> TRUE]

OnFiles == page.at = "files"

(* Requests whose answers end in s3NavigateTo.                              *)
Leading == {"entries", "saveFile", "upload", "marker", "deleteFile", "folder"}

Fetch(i, d) == Request("entries", i, d)

(* s3NavigateTo: the path changes now, the entries when they arrive.        *)
NavigateTo(i, d, rest) ==
  /\ path' = d
  /\ flights' = {f \in rest : f.kind # "entries"} \cup {Fetch(i, d)}

OpenFiles(i) ==
  /\ ~OnFiles
  /\ Route("files", i)
  /\ listing' = None
  /\ path' = Root
  /\ editor' = None
  /\ busy' = {}
  /\ mixed' = (\E f \in Awaited(Leading) : f.of # i)
  /\ flights' = Switched(Request("pageData", i, Root))
  /\ UNCHANGED objects

LeaveFiles ==
  /\ OnFiles
  /\ Route("list", None)
  /\ editor' = None
  /\ UNCHANGED <<flights, objects, listing, path, busy, mixed>>

(* Both answers may fail: the page goes to the root all the same.           *)
PageData(f) ==
  /\ f.kind = "pageData"
  /\ NavigateTo(f.of, Root, flights \ {f})
  /\ UNCHANGED <<page, acts, objects, listing, editor, busy, mixed>>

(* list_instance_s3()                                                       *)
Listing(i, d) == [of |-> i, path |-> d, present |-> objects[i][d] # None]

Entries(f) ==
  /\ f.kind = "entries"
  /\ listing' = Listing(f.of, f.arg)
  /\ path' = f.arg
  /\ Without(f)
  /\ UNCHANGED <<page, acts, objects, editor, busy, mixed>>

EntriesFailed(f) ==
  /\ f.kind = "entries"
  /\ Act
  /\ Without(f)
  /\ UNCHANGED <<page, fileVars>>

GoTo(d) ==
  /\ OnFiles /\ Room
  /\ d # path
  /\ NavigateTo(page.of, d, flights)
  /\ UNCHANGED <<page, acts, objects, listing, editor, busy, mixed>>

(* filteredEntries: entries of another folder are not shown.                *)
Shows == OnFiles /\ listing # None /\ listing.path = path /\ listing.present

-----------------------------------------------------------------------------
(* The editor                                                               *)

(* Mutant: mergeMap in place of switchMap.                                  *)
BadOpenEditor_MergeMap ==
  /\ Shows /\ editor = None
  /\ editor' = [path |-> path, text |-> BlankText, loading |-> TRUE]
  /\ flights' = Merged(Request("content", page.of, path))
  /\ UNCHANGED <<page, acts, objects, listing, path, busy, mixed>>

OpenEditor ==
  /\ Shows /\ editor = None
  /\ editor' = [path |-> path, text |-> BlankText, loading |-> TRUE]
  /\ flights' = Switched(Request("content", page.of, path))
  /\ UNCHANGED <<page, acts, objects, listing, path, busy, mixed>>

CloseEditor ==
  /\ editor # None
  /\ editor' = None
  /\ UNCHANGED <<browserVars, objects, listing, path, busy, mixed>>

(* s3EditorContentLoaded does not say of which file; the load that failed   *)
(* puts the message into the editor.                                        *)
Put(text) == editor' = IF editor = None THEN None
                       ELSE [editor EXCEPT !.text = text, !.loading = FALSE]

Content(f) ==
  /\ f.kind = "content"
  /\ objects[f.of][f.arg] # None
  /\ Put(objects[f.of][f.arg])
  /\ Without(f)
  /\ UNCHANGED <<page, acts, objects, listing, path, busy, mixed>>

ContentFailed(f) ==
  /\ f.kind = "content"
  /\ IF objects[f.of][f.arg] = None THEN UNCHANGED acts ELSE Act
  /\ Put(LoadError(f.arg))
  /\ Without(f)
  /\ UNCHANGED <<page, objects, listing, path, busy, mixed>>

(* The text itself, edited or not: what it was made from stays the same.    *)
SaveEditor ==
  /\ OnFiles /\ editor # None /\ ~editor.loading
  /\ Act
  /\ flights' = Switched(Request("saveFile", page.of, editor))
  /\ UNCHANGED <<page, fileVars>>

Write(i, d, text) == objects' = [objects EXCEPT ![i][d] = text]
DeleteContent(i, d) == objects' = [objects EXCEPT ![i][d] = None]

(* Whatever the editor shows by now is closed.                              *)
FileSaved(f) ==
  /\ f.kind = "saveFile"
  /\ Write(f.of, f.arg.path, f.arg.text)
  /\ IF f.heard
     THEN editor' = None /\ NavigateTo(f.of, f.arg.path, flights \ {f})
     ELSE UNCHANGED <<editor, path>> /\ Without(f)
  /\ UNCHANGED <<page, acts, listing, busy, mixed>>

-----------------------------------------------------------------------------
(* Uploads and deletions                                                    *)

(* onUpload(); the file that is read first is part of the request.          *)
Upload ==
  /\ OnFiles /\ busy = {}
  /\ Act
  /\ busy' = {"upload"}
  /\ flights' = Switched(Request("upload", page.of, path))
  /\ UNCHANGED <<page, objects, listing, path, editor, mixed>>

(* uploadLoading is the store's: any upload that ends ends it.              *)
UploadEnds(f) ==
  /\ f.kind = "upload"
  /\ \/ /\ Write(f.of, f.arg, FromDisk)
        /\ IF f.heard THEN NavigateTo(f.of, f.arg, flights \ {f})
           ELSE UNCHANGED path /\ Without(f)
        /\ UNCHANGED acts
     \/ Act /\ Without(f) /\ UNCHANGED <<objects, path>>
  /\ busy' = IF f.heard THEN busy \ {"upload"} ELSE busy
  /\ UNCHANGED <<page, listing, editor, mixed>>

(* onUploadFolder(): file after file, on whatever page the user is; the     *)
(* flag is the component's, hence the page's number in the request.         *)
UploadFolder ==
  /\ OnFiles /\ busy = {}
  /\ Act
  /\ busy' = {"folder"}
  /\ flights' = Merged(Request("folder", page.of, [at |-> path, left |-> Folders, no |-> page.no]))
  /\ UNCHANGED <<page, objects, listing, path, editor, mixed>>

UploadNext(f, d) ==
  /\ f.kind = "folder" /\ d \in f.arg.left
  /\ \/ Write(f.of, d, FromDisk) /\ UNCHANGED acts
     \/ Act /\ UNCHANGED objects
  /\ LET left == f.arg.left \ {d}
     IN IF left # {}
        THEN /\ flights' = (flights \ {f}) \cup {[f EXCEPT !.arg.left = left]}
             /\ UNCHANGED <<path, busy>>
        ELSE /\ NavigateTo(f.of, f.arg.at, flights \ {f})
             /\ busy' = IF f.arg.no = page.no THEN busy \ {"folder"} ELSE busy
  /\ UNCHANGED <<page, listing, editor, mixed>>

CreateFolder ==
  /\ OnFiles
  /\ Act
  /\ flights' = Merged(Request("marker", page.of, path))
  /\ UNCHANGED <<page, fileVars>>

DeleteEntry ==
  /\ Shows
  /\ Act
  /\ flights' = Merged(Request("deleteFile", page.of, path))
  /\ UNCHANGED <<page, fileVars>>

(* Where to go next is read after the answer for a deletion, before the     *)
(* request for a folder.                                                    *)
EntryDeleted(f) ==
  /\ f.kind = "deleteFile"
  /\ DeleteContent(f.of, f.arg)
  /\ NavigateTo(f.of, path, flights \ {f})
  /\ UNCHANGED <<page, acts, listing, editor, busy, mixed>>

FolderCreated(f) ==
  /\ f.kind = "marker"
  /\ NavigateTo(f.of, f.arg, flights \ {f})
  /\ UNCHANGED <<page, acts, objects, listing, editor, busy, mixed>>

(* A toast.                                                                 *)
FileRequestFails(f) ==
  /\ f.kind \in {"saveFile", "deleteFile", "marker"}
  /\ Act
  /\ Without(f)
  /\ UNCHANGED <<page, fileVars>>

-----------------------------------------------------------------------------
FileInit ==
  \E i \in Ids :
    /\ page = [at |-> "files", of |-> i, no |-> 0]
    /\ flights = {Request("pageData", i, Root)}
    /\ acts = 0
    /\ objects = [j \in Ids |-> [d \in Folders |-> Own(j, d)]]
    /\ listing = None
    /\ path = Root
    /\ editor = None
    /\ busy = {}
    /\ mixed = FALSE

FileUser ==
  \/ (\E i \in Ids : OpenFiles(i)) \/ LeaveFiles
  \/ \E d \in Folders : GoTo(d)
  \/ OpenEditor \/ CloseEditor \/ SaveEditor
  \/ Upload \/ UploadFolder \/ CreateFolder \/ DeleteEntry

FileAnswers(f) ==
  \/ PageData(f) \/ Entries(f) \/ EntriesFailed(f) \/ Content(f) \/ ContentFailed(f)
  \/ FileSaved(f) \/ UploadEnds(f) \/ (\E d \in Folders : UploadNext(f, d))
  \/ EntryDeleted(f) \/ FolderCreated(f) \/ FileRequestFails(f)

FileNext == FileUser \/ \E f \in flights : FileAnswers(f)

-----------------------------------------------------------------------------
(* The pane with a model's config.pbtxt beside the Infer and the Profile    *)
(* page, and the backend's access to it, which takes the model's folder for *)
(* what it is asked for, or the only configuration there is.  Folders whose *)
(* names differ in case only are left out, and configurations deeper in a   *)
(* folder.  Of a text the model keeps which file it was made from.          *)

CONSTANTS Repository,  \* models of the instance
          AtRoot       \* the path of a config.pbtxt outside of their folders

VARIABLES configs,   \* [path]: whose text the bucket has there, or None
          editable,  \* the instance has S3 settings
          prefixed,  \* its repository has a prefix
          pane,      \* the component
          strayed    \* ghost: the pane saw another model, or the backend put
                     \* the only configuration in place of another

configVars == <<configs, editable, prefixed, pane, strayed>>

Paths == Repository \cup {AtRoot}
Empty == "empty"     \* the text of an editor whose load failed
FromTriton == "live"       \* what Triton says, as JSON

(* No path stands for none, or for what Triton says.                        *)
ASSUME PathAssumption == None \notin Paths /\ FromTriton \notin Paths

OnModel == page.at = "model"

(* The number is that of the page the component was made for.               *)
Closed(no) == [open |-> FALSE, loading |-> FALSE, saving |-> FALSE, text |-> Empty,
               path |-> None, no |-> no]
Here(f) == OnModel /\ f.arg.no = pane.no

-----------------------------------------------------------------------------
(* The backend                                                              *)

(* _discover_config_pbtxt_key(): a model's own, for the root the only one   *)
(* in the repository; a file at the root of the bucket is not found.        *)
Found == {p \in Paths : configs[p] # None /\ (p # AtRoot \/ prefixed)}

StandIns(at) ==
  IF at # AtRoot THEN Found \cap {at}
  ELSE IF Cardinality(Found) = 1 THEN Found ELSE {}

Readable(at) == IF configs[at] # None THEN {at} ELSE StandIns(at)
Target(at) == IF StandIns(at) # {} THEN CHOOSE p \in StandIns(at) : TRUE ELSE at

-----------------------------------------------------------------------------
(* The page                                                                 *)

OpenModel(m) ==
  /\ ~OnModel
  /\ Route("model", m)
  /\ pane' = Closed(page'.no)
  /\ UNCHANGED <<flights, configs, editable, prefixed, strayed>>

(* The component stays, and so does all it has loaded.                      *)
SwitchConfig(m) ==
  /\ OnModel /\ page.of # m
  /\ Route("model", m)
  /\ strayed' = (strayed \/ pane # Closed(pane.no))
  /\ UNCHANGED <<flights, configs, editable, prefixed, pane>>

LeaveModel ==
  /\ OnModel
  /\ Route("list", None)
  /\ UNCHANGED <<flights, configVars>>

(* loadConfig(): the model's own file first, then the one at the root; what *)
(* Triton says, if there are no S3 settings.                                *)
Candidates == IF editable THEN <<page.of, AtRoot>> ELSE <<FromTriton>>
AskConfig(candidates) == Request("config", page.of, [left |-> candidates, no |-> pane.no])

Load(to) ==
  /\ pane' = [to EXCEPT !.loading = TRUE]
  /\ flights' = Merged(AskConfig(Candidates))
  /\ UNCHANGED <<page, acts, configs, editable, prefixed, strayed>>

ToggleConfig ==
  /\ OnModel /\ ~pane.loading
  /\ IF ~pane.open /\ pane.text = Empty
     THEN Load([pane EXCEPT !.open = TRUE])
     ELSE pane' = [pane EXCEPT !.open = ~@] /\ UNCHANGED <<browserVars, configs, editable, prefixed, strayed>>

ReloadConfig ==
  /\ OnModel /\ pane.open /\ ~pane.loading /\ ~pane.saving
  /\ Load(pane)

(* Mutant: the path is the model's own, wherever the text came from.        *)
BadRelativePath_Own == page.of

RelativePath == IF pane.path # None THEN pane.path ELSE page.of

SaveConfig ==
  /\ OnModel /\ editable /\ pane.open /\ ~pane.saving /\ ~pane.loading
  /\ Act
  /\ pane' = [pane EXCEPT !.saving = TRUE]
  /\ flights' = Merged(Request("saveConfig", RelativePath, [text |-> pane.text, no |-> pane.no]))
  /\ UNCHANGED <<page, configs, editable, prefixed, strayed>>

-----------------------------------------------------------------------------
(* Answers.  The page learns at once what the backend has done; a component *)
(* that is gone learns nothing.                                             *)

Tell(f, to) == pane' = IF Here(f) THEN to ELSE pane

LiveConfig(f) ==
  /\ f.kind = "config" /\ Head(f.arg.left) = FromTriton
  /\ Tell(f, [pane EXCEPT !.text = f.of, !.loading = FALSE])
  /\ Without(f)
  /\ UNCHANGED <<page, acts, configs, editable, prefixed, strayed>>

ConfigRead(f) ==
  /\ f.kind = "config" /\ Head(f.arg.left) # FromTriton
  /\ \E p \in Readable(Head(f.arg.left)) :
       /\ Tell(f, [pane EXCEPT !.text = configs[p], !.path = Head(f.arg.left), !.loading = FALSE])
       /\ strayed' = (strayed \/ p # Head(f.arg.left))
  /\ Without(f)
  /\ UNCHANGED <<page, acts, configs, editable, prefixed>>

(* loadS3ConfigContent(): after any failure the next path is tried; with    *)
(* the last one the editor is emptied, the path of before stays.            *)
ConfigMissed(f) ==
  /\ f.kind = "config"
  /\ IF Head(f.arg.left) # FromTriton /\ Readable(Head(f.arg.left)) = {} THEN UNCHANGED acts ELSE Act
  /\ IF Len(f.arg.left) > 1
     THEN flights' = (flights \ {f}) \cup {[f EXCEPT !.arg.left = Tail(@)]} /\ UNCHANGED pane
     ELSE Without(f) /\ Tell(f, [pane EXCEPT !.text = Empty, !.loading = FALSE])
  /\ UNCHANGED <<page, configs, editable, prefixed, strayed>>

ConfigSaved(f) ==
  /\ f.kind = "saveConfig"
  /\ configs' = [configs EXCEPT ![Target(f.of)] = f.arg.text]
  /\ strayed' = (strayed \/ Target(f.of) # f.of)
  /\ Tell(f, [pane EXCEPT !.saving = FALSE])
  /\ Without(f)
  /\ UNCHANGED <<page, acts, editable, prefixed>>

(* Triton's rules are broken, or anything fails.                            *)
ConfigRefused(f) ==
  /\ f.kind = "saveConfig"
  /\ Act
  /\ Tell(f, [pane EXCEPT !.saving = FALSE])
  /\ Without(f)
  /\ UNCHANGED <<page, configs, editable, prefixed, strayed>>

(* Other users put their own files there, or delete them.                   *)
OthersWrite(p, text) ==
  /\ editable /\ text \in {None, p} \ {configs[p]}
  /\ Act
  /\ configs' = [configs EXCEPT ![p] = text]
  /\ UNCHANGED <<page, flights, editable, prefixed, pane, strayed>>

-----------------------------------------------------------------------------
ConfigInit ==
  /\ editable \in BOOLEAN /\ prefixed \in BOOLEAN
  /\ \E there \in SUBSET Paths : configs = [p \in Paths |-> IF p \in there THEN p ELSE None]
  /\ pane = Closed(0) /\ strayed = FALSE
  /\ page = [at |-> "list", of |-> None, no |-> 0] /\ flights = {} /\ acts = 0

ConfigNext ==
  \/ \E m \in Repository : OpenModel(m) \/ SwitchConfig(m)
  \/ LeaveModel \/ ToggleConfig \/ ReloadConfig \/ SaveConfig
  \/ \E p \in Paths : OthersWrite(p, None) \/ OthersWrite(p, p)
  \/ \E f \in flights : LiveConfig(f) \/ ConfigRead(f) \/ ConfigMissed(f) \/ ConfigSaved(f) \/ ConfigRefused(f)
=============================================================================
