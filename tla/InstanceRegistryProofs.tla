----------------------- MODULE InstanceRegistryProofs -----------------------
(***************************************************************************)
(* Theorems about InstanceRegistry, for any number of instances, requests, *)
(* refreshers, crashes and changes of the servers.                         *)
(***************************************************************************)
EXTENDS InstanceRegistry, TLAPS

-----------------------------------------------------------------------------
(* The data. *)

(* The initial row, locals and cycle have their types. *)
LEMMA EmptyTypes == NewRow \in Row /\ NoLocal \in Local /\ NoCycle \in Cycle
<1>1. NewRow \in Row
  BY DEF NewRow, Row
<1> QED
  BY <1>1 DEF NoLocal, Local, NoCycle, Cycle, Answers, Servers

(* An UPDATE of a row with changed columns gives a row, in the same state. *)
LEMMA MergeType ==
  ASSUME NEW cur \in Row, NEW base \in Row, NEW new \in Row
  PROVE  /\ Merge(cur, base, new) \in Row
         /\ Merge(cur, base, new).state = cur.state
         /\ Merge(cur, base, new).name \in {cur.name, new.name}
         /\ Merge(cur, base, new).url \in {cur.url, new.url}
<1>1. /\ cur.fenced \in BOOLEAN /\ new.fenced \in BOOLEAN
      /\ cur.managed \in BOOLEAN /\ new.managed \in BOOLEAN
      /\ cur.up \in BOOLEAN /\ new.up \in BOOLEAN
  BY DEF Row
<1>2. /\ Written(cur.fenced, base.fenced, new.fenced) \in BOOLEAN
      /\ Written(cur.managed, base.managed, new.managed) \in BOOLEAN
      /\ Written(cur.up, base.up, new.up) \in BOOLEAN
  BY <1>1 DEF Written
<1>3. /\ cur.state \in {"unborn", "live", "gone"}
      /\ Written(cur.name, base.name, new.name) \in Names \cup {None}
      /\ Written(cur.url, base.url, new.url) \in Urls \cup {None}
      /\ Written(cur.models, base.models, new.models) \in {"none", "ok", "bad"}
  BY DEF Written, Row
<1>4. Merge(cur, base, new) \in Row
  BY <1>2, <1>3 DEF Merge, Row
<1> QED
  BY <1>4 DEF Merge, Written

(* What the columns of a merged row are when the handler leaves the fence  *)
(* alone, and sets name and URL only to what is one.                       *)
LEMMA MergeKeeps ==
  ASSUME NEW cur \in Row, NEW base \in Row, NEW new \in Row,
         new.fenced = base.fenced,
         new.name = base.name \/ new.name # None,
         new.url = base.url \/ new.url # None
  PROVE  /\ Merge(cur, base, new).fenced = cur.fenced
         /\ cur.name # None => Merge(cur, base, new).name # None
         /\ cur.url # None => Merge(cur, base, new).url # None
BY DEF Merge, Written

(* Up and Models of an answer are values of the columns. *)
LEMMA AnswerTypes ==
  ASSUME NEW a \in Answers
  PROVE  Up(a) \in BOOLEAN /\ Models(a) \in {"none", "ok", "bad"}
BY DEF Up, Models

(* Alerts of a live row are alerts. *)
LEMMA AlertsFoundType ==
  ASSUME NEW i \in Ids, RowTypeOK, Live(i), NEW a, NEW new \in AlertsFound(i, a)
  PROVE  new \in SUBSET Alert
<1>1. row[i].name \in Names
  BY DEF RowTypeOK, Row, Live
<1>2. \A k \in {"warning", "sync_problem", "cloud_off"} : AlertFor(i, k) \in Alert
  BY <1>1 DEF AlertFor, Alert
<1>3. Known(i, a) \subseteq {"warning", "sync_problem"}
  BY DEF Known
<1>4. CASE a = "starting"
  BY <1>4 DEF AlertsFound
<1>5. CASE a # "starting"
  <2>1. PICK s3 \in SUBSET (IF i \in S3Ids THEN {"cloud_off"} ELSE {}) :
          new = {AlertFor(i, k) : k \in Known(i, a) \cup s3}
    BY <1>5, Zenon DEF AlertsFound
  <2>2. Known(i, a) \cup s3 \subseteq {"warning", "sync_problem", "cloud_off"}
    BY <1>3
  <2> QED
    BY <2>1, <2>2, <1>2
<1> QED
  BY <1>4, <1>5

-----------------------------------------------------------------------------
(* Type correctness. *)

(* The initial states are well typed. *)
LEMMA InitType == Init => TypeOK
<1> SUFFICES ASSUME Init PROVE TypeOK
  OBVIOUS
<1>1. RowTypeOK
  <2>1. row \in [Ids -> Row] /\ \A i \in Ids : row[i] = NewRow
    BY EmptyTypes DEF Init
  <2> QED
    BY <2>1 DEF RowTypeOK, NewRow
<1>2. WorkerTypeOK
  BY EmptyTypes DEF Init, WorkerTypeOK, WellPlaced, Pc, RowPc, NamePc, UrlPc, DelPc, NewPc
<1>3. server \in [Urls -> Servers]
  BY DEF Init, Servers
<1> QED
  BY <1>1, <1>2, <1>3 DEF Init, TypeOK

(* A worker that goes where its locals suffice keeps its types. *)
LEMMA GotoType ==
  ASSUME WorkerTypeOK, NEW w \in Workers, NEW label \in Pc, NEW l \in Local,
         WellPlaced(label, l), Goto(w, label, l), cycle' \in [Workers -> Cycle]
  PROVE  WorkerTypeOK'
BY DEF WorkerTypeOK, Goto, WellPlaced

(* A handler that ends keeps the types. *)
LEMMA ToIdleType ==
  ASSUME WorkerTypeOK, NEW w \in Workers, ToIdle(w), cycle' \in [Workers -> Cycle]
  PROVE  WorkerTypeOK'
<1>1. "idle" \in Pc /\ WellPlaced("idle", NoLocal)
  BY DEF Pc, WellPlaced, RowPc, NamePc, UrlPc, DelPc, NewPc
<1> QED
  BY <1>1, EmptyTypes, GotoType DEF ToIdle

(* A row that is written keeps the table typed. *)
LEMMA RowWritten ==
  ASSUME RowTypeOK, NEW i \in Ids, NEW new \in Row,
         new.state = "live" => new.name # None /\ new.url # None,
         row' = [row EXCEPT ![i] = new]
  PROVE  RowTypeOK'
BY DEF RowTypeOK

(* What TypeOK says of one worker. *)
LEMMA WorkerFacts ==
  ASSUME TypeOK, NEW w \in Workers
  PROVE  /\ local[w] \in Local /\ cycle[w] \in Cycle /\ pc[w] \in Pc
         /\ local[w].base \in Row /\ local[w].answer \in Answers
         /\ WellPlaced(pc[w], local[w])
         /\ pc[w] \in RowPc => local[w].id \in Ids
         /\ pc[w] \in NamePc => local[w].name \in Names
         /\ pc[w] \in UrlPc => local[w].url \in Urls
<1>1. local[w] \in Local /\ cycle[w] \in Cycle /\ pc[w] \in Pc /\ WellPlaced(pc[w], local[w])
  BY DEF TypeOK, WorkerTypeOK
<1> QED
  BY <1>1 DEF WellPlaced, Local

-----------------------------------------------------------------------------
(* What a step may do to the table of instances. *)

Named(new) == new.state = "live" /\ new.name # None /\ new.url # None

Saved(i, new) ==
  /\ Live(i) /\ NameFree(i, new.name) /\ Named(new)
  /\ new.fenced = row[i].fenced
  /\ row' = [row EXCEPT ![i] = new]

Inserted(i, new) ==
  /\ row[i].state = "unborn" /\ HasName(new.name) = {} /\ Named(new)
  /\ new.fenced = FALSE
  /\ row' = [row EXCEPT ![i] = new]

Removed(i, w) ==
  /\ pc[w] = "del_row" /\ local[w].id = i
  /\ Live(i) /\ ~Referenced(i)
  /\ row' = [row EXCEPT ![i].state = "gone"]

RowStep ==
  \/ row' = row
  \/ \E i \in Ids : \/ \E new \in Row : Saved(i, new) \/ Inserted(i, new)
                    \/ Live(i) /\ Fence(i)
                    \/ \E w \in Workers : Removed(i, w)

(* A save() by a handler that leaves the fence alone is a RowStep. *)
LEMMA MergeSaved ==
  ASSUME TypeOK, NEW i \in Ids, NEW base \in Row, NEW new \in Row,
         new.fenced = base.fenced,
         new.name = base.name \/ new.name # None,
         new.url = base.url \/ new.url # None,
         CanSave(i, Merge(row[i], base, new)),
         row' = [row EXCEPT ![i] = Merge(row[i], base, new)]
  PROVE  RowStep
<1> DEFINE merged == Merge(row[i], base, new)
<1>1. row[i] \in Row /\ Live(i) /\ row[i].name # None /\ row[i].url # None
  BY DEF TypeOK, RowTypeOK, CanSave, Live
<1>2. merged \in Row /\ merged.state = row[i].state
  BY <1>1, MergeType
<1>3. merged.fenced = row[i].fenced /\ merged.name # None /\ merged.url # None
  BY <1>1, MergeKeeps
<1>4. NameFree(i, merged.name) /\ row' = [row EXCEPT ![i] = merged]
  BY DEF CanSave
<1> HIDE DEF merged
<1>5. Saved(i, merged)
  BY <1>1, <1>2, <1>3, <1>4 DEF Saved, Named, Live
<1> QED
  BY <1>2, <1>5 DEF RowStep

(* The same for a save that ends the request or goes on. *)
LEMMA SaveSteps ==
  ASSUME TypeOK, NEW w \in Workers, local[w].id \in Ids, NEW new \in Row, NEW label,
         new.fenced = local[w].base.fenced,
         new.name = local[w].base.name \/ new.name # None,
         new.url = local[w].base.url \/ new.url # None,
         SaveOr(w, new, label) \/ SaveAndEnd(w, new)
  PROVE  RowStep
<1> DEFINE i == local[w].id
           merged == Merge(row[i], local[w].base, new)
<1>1. local[w].base \in Row
  BY WorkerFacts
<1>2. row' = row \/ (CanSave(i, merged) /\ row' = [row EXCEPT ![i] = merged])
  BY DEF SaveOr, SaveAndEnd
<1>3. CASE row' = row
  BY <1>3 DEF RowStep
<1>4. CASE CanSave(i, merged) /\ row' = [row EXCEPT ![i] = merged]
  BY <1>1, <1>4, MergeSaved
<1> QED
  BY <1>2, <1>3, <1>4

(* The rows that handlers write are rows, with the fence they were loaded  *)
(* with.                                                                   *)
LEMMA ProbedRows ==
  ASSUME NEW base \in Row, NEW a \in Answers
  PROVE  /\ [base EXCEPT !.up = Up(a), !.models = Models(a)] \in Row
         /\ \A n \in Names : [base EXCEPT !.name = n, !.up = Up(a), !.models = Models(a)] \in Row
         /\ \A u \in Urls : [base EXCEPT !.url = u, !.up = Up(a), !.models = Models(a)] \in Row
         /\ \A u \in Urls : [base EXCEPT !.url = u] \in Row
         /\ \A m \in BOOLEAN, n \in Names, u \in Urls :
              [NewRow EXCEPT !.state = "live", !.name = n, !.url = u, !.managed = m,
                             !.up = Up(a), !.models = Models(a)] \in Row
<1> DEFINE up == Up(a)
           models == Models(a)
<1>1. up \in BOOLEAN /\ models \in {"none", "ok", "bad"}
  BY AnswerTypes
<1> HIDE DEF up, models
<1>2. /\ base.fenced \in BOOLEAN /\ base.managed \in BOOLEAN /\ base.up \in BOOLEAN
  BY DEF Row
<1>3. [base EXCEPT !.up = up, !.models = models] \in Row
  BY <1>1, <1>2 DEF Row
<1>4. \A n \in Names : [base EXCEPT !.name = n, !.up = up, !.models = models] \in Row
  BY <1>1, <1>2 DEF Row
<1>5. \A u \in Urls : [base EXCEPT !.url = u, !.up = up, !.models = models] \in Row
  BY <1>1, <1>2 DEF Row
<1>6. \A u \in Urls : [base EXCEPT !.url = u] \in Row
  BY <1>2 DEF Row
<1>7. \A m \in BOOLEAN, n \in Names, u \in Urls :
        [NewRow EXCEPT !.state = "live", !.name = n, !.url = u, !.managed = m,
                       !.up = up, !.models = models] \in Row
  BY <1>1 DEF Row, NewRow
<1> QED
  BY <1>3, <1>4, <1>5, <1>6, <1>7 DEF up, models

(* Where a worker stands when it writes a row. *)
LEMMA WriterPcs ==
  /\ {"reg_save", "upd_save", "apply_save", "save", "del_row", "rec_fence"} \subseteq RowPc
  /\ {"reg_save", "insert"} \subseteq NamePc
  /\ {"upd_save", "apply_save", "insert"} \subseteq UrlPc
BY DEF RowPc, NamePc, UrlPc, DelPc, NewPc

(* Registering a URL again. *)
LEMMA RegisterSaveRow ==
  ASSUME TypeOK, NEW w \in Workers, RegisterSave(w)
  PROVE  RowStep
<1> DEFINE l == local[w]
           new == [l.base EXCEPT !.name = l.name, !.up = Up(l.answer), !.models = Models(l.answer)]
<1>1. l.id \in Ids /\ l.name \in Names /\ l.base \in Row /\ l.answer \in Answers
  BY WorkerFacts, WriterPcs DEF RegisterSave, At
<1>2. new \in Row
  BY <1>1, ProbedRows
<1>3. new.fenced = l.base.fenced /\ new.url = l.base.url /\ new.name = l.name
  BY <1>1 DEF Row
<1>4. l.name # None
  BY <1>1, NoneAssumption
<1>5. SaveOr(w, new, "assign_load")
  BY DEF RegisterSave
<1> HIDE DEF new
<1> QED
  BY <1>1, <1>2, <1>3, <1>4, <1>5, SaveSteps

(* The end of update_instance() and of an apply. *)
LEMMA UrlSaveRow ==
  ASSUME TypeOK, NEW w \in Workers, UpdateSave(w) \/ ApplySave(w)
  PROVE  RowStep
<1> DEFINE l == local[w]
           upd == [l.base EXCEPT !.url = l.url, !.up = Up(l.answer), !.models = Models(l.answer)]
           app == [l.base EXCEPT !.url = l.url]
<1>1. l.id \in Ids /\ l.url \in Urls /\ l.base \in Row /\ l.answer \in Answers
  BY WorkerFacts, WriterPcs DEF UpdateSave, ApplySave, At
<1>2. upd \in Row /\ app \in Row
  BY <1>1, ProbedRows
<1>3. /\ upd.fenced = l.base.fenced /\ upd.name = l.base.name /\ upd.url = l.url
      /\ app.fenced = l.base.fenced /\ app.name = l.base.name /\ app.url = l.url
  BY <1>1 DEF Row
<1>4. l.url # None
  BY <1>1, NoneAssumption
<1>5. SaveAndEnd(w, upd) \/ SaveAndEnd(w, app)
  BY DEF UpdateSave, ApplySave
<1> HIDE DEF upd, app
<1>6. CASE SaveAndEnd(w, upd)
  BY <1>1, <1>2, <1>3, <1>4, <1>6, SaveSteps
<1>7. CASE SaveAndEnd(w, app)
  BY <1>1, <1>2, <1>3, <1>4, <1>7, SaveSteps
<1> QED
  BY <1>5, <1>6, <1>7

(* The refresher's save. *)
LEMMA RefreshSaveRow ==
  ASSUME TypeOK, NEW w \in Workers, RefreshSave(w)
  PROVE  RowStep
<1> DEFINE l == local[w]
           new == [l.base EXCEPT !.up = Up(l.answer), !.models = Models(l.answer)]
           merged == Merge(row[l.id], l.base, new)
<1>1. l.id \in Ids /\ l.base \in Row /\ l.answer \in Answers
  BY WorkerFacts, WriterPcs DEF RefreshSave, InCycle, At
<1>2. new \in Row
  BY <1>1, ProbedRows
<1>3. new.fenced = l.base.fenced /\ new.name = l.base.name /\ new.url = l.base.url
  BY <1>1 DEF Row
<1>4. row' = row \/ (CanSave(l.id, merged) /\ row' = [row EXCEPT ![l.id] = merged])
  BY DEF RefreshSave
<1> HIDE DEF new
<1>5. CASE row' = row
  BY <1>5 DEF RowStep
<1>6. CASE CanSave(l.id, merged) /\ row' = [row EXCEPT ![l.id] = merged]
  BY <1>1, <1>2, <1>3, <1>6, MergeSaved
<1> QED
  BY <1>4, <1>5, <1>6

(* The insertion of a row. *)
LEMMA InsertRow ==
  ASSUME TypeOK, NEW w \in Workers, Insert(w)
  PROVE  RowStep
<1> DEFINE l == local[w]
           new == [NewRow EXCEPT !.state = "live", !.name = l.name, !.url = l.url,
                     !.managed = l.managed, !.up = Up(l.answer), !.models = Models(l.answer)]
<1>1. l \in Local /\ l.name \in Names /\ l.url \in Urls /\ l.answer \in Answers
  BY WorkerFacts, WriterPcs DEF Insert, At
<1>2. l.managed \in BOOLEAN
  BY <1>1 DEF Local
<1>3. new \in Row
  BY <1>1, <1>2, EmptyTypes, ProbedRows
<1>4. new.state = "live" /\ new.name = l.name /\ new.url = l.url /\ new.fenced = FALSE
  BY DEF NewRow
<1>5. l.name # None /\ l.url # None
  BY <1>1, NoneAssumption
<1>6. row' = row \/ (HasName(l.name) = {} /\ \E i \in Ids : row[i].state = "unborn"
                                                /\ row' = [row EXCEPT ![i] = new])
  BY DEF Insert, CanInsert
<1> HIDE DEF new
<1> QED
  BY <1>3, <1>4, <1>5, <1>6 DEF RowStep, Inserted, Named

(* Fencing, by a deletion that begins or begins again. *)
LEMMA FenceRow ==
  ASSUME TypeOK, NEW w \in Workers, NEW i \in Ids,
         Delete(w, i) \/ DeleteDeployment(w, i) \/ RecordFence(w)
  PROVE  RowStep
<1>1. CASE Delete(w, i) \/ DeleteDeployment(w, i)
  BY <1>1 DEF Delete, DeleteDeployment, RowStep
<1>2. CASE RecordFence(w)
  <2>1. local[w].id \in Ids
    BY <1>2, WorkerFacts, WriterPcs DEF RecordFence, At
  <2> QED
    BY <1>2, <2>1 DEF RecordFence, RowStep
<1> QED
  BY <1>1, <1>2

(* The removal of the row. *)
LEMMA DeleteRowRow ==
  ASSUME TypeOK, NEW w \in Workers, DeleteRow(w)
  PROVE  RowStep
<1>1. local[w].id \in Ids /\ pc[w] = "del_row"
  BY WorkerFacts, WriterPcs DEF DeleteRow, At
<1> QED
  BY <1>1 DEF DeleteRow, RowStep, Removed

(* The actions that write no row. *)
OtherRequest(w) ==
  \/ \E n \in Names, u \in Urls : Register(w, n, u)
  \/ \E n \in Names : Deploy(w, n)
  \/ \E i \in Ids, u \in Urls : Update(w, i, u)

OtherHandle(w) ==
  \/ RegisterProbe(w) \/ RegisterFind(w) \/ AssignLoad(w) \/ AssignSave(w)
  \/ ApplyLoad(w) \/ UpdateProbe(w) \/ DeleteRefused(w) \/ DeleteName(w)
  \/ DeleteUsers(w) \/ DeleteCommit(w) \/ DeleteAlerts(w) \/ RecordAlerts(w)
  \/ RecordUsers(w) \/ RecordSave(w)

OtherRefresh(w) ==
  \/ CycleBegin(w) \/ RefreshRead(w) \/ RefreshPods(w) \/ RefreshProbe(w)
  \/ RefreshLoad(w) \/ RefreshReload(w) \/ ReplaceBegin(w) \/ ReplaceCommit(w)

(* They leave the table alone. *)
LEMMA OthersRow ==
  ASSUME NEW w \in Workers,
         OtherRequest(w) \/ OtherHandle(w) \/ OtherRefresh(w) \/ Crash(w)
  PROVE  row' = row
<1>1. CASE OtherRequest(w)
  BY <1>1 DEF OtherRequest, Register, Deploy, Update
<1>2. CASE OtherHandle(w)
  BY <1>2 DEF OtherHandle, RegisterProbe, RegisterFind, AssignLoad, AssignSave, ApplyLoad,
     UpdateProbe, DeleteRefused, DeleteName, DeleteUsers, DeleteCommit, DeleteAlerts,
     RecordAlerts, RecordUsers, RecordSave
<1>3. CASE OtherRefresh(w)
  BY <1>3 DEF OtherRefresh, CycleBegin, RefreshRead, RefreshPods, RefreshProbe, RefreshLoad,
     RefreshReload, ReplaceBegin, ReplaceCommit
<1>4. CASE Crash(w)
  BY <1>4 DEF Crash
<1> QED
  BY <1>1, <1>2, <1>3, <1>4

(* The steps of one worker, by what they do to the table. *)
LEMMA WorkerActions ==
  ASSUME NEW w \in Workers, Request(w) \/ Handle(w) \/ Refresh(w) \/ Crash(w)
  PROVE  \/ OtherRequest(w) \/ OtherHandle(w) \/ OtherRefresh(w) \/ Crash(w)
         \/ \E i \in Ids : Delete(w, i) \/ DeleteDeployment(w, i)
         \/ RecordFence(w) \/ RegisterSave(w) \/ UpdateSave(w) \/ ApplySave(w)
         \/ Insert(w) \/ DeleteRow(w) \/ RefreshSave(w)
BY DEF Request, Handle, Refresh, OtherRequest, OtherHandle, OtherRefresh

(* Every step treats the table as RowStep says. *)
LEMMA RowSteps == TypeOK /\ [Next]_vars => RowStep
<1> SUFFICES ASSUME TypeOK, [Next]_vars PROVE RowStep
  OBVIOUS
<1>1. CASE UNCHANGED vars
  BY <1>1 DEF vars, RowStep
<1>2. CASE \E u \in Urls : ServerChanges(u)
  BY <1>2 DEF ServerChanges, RowStep
<1>3. ASSUME NEW w \in Workers, Request(w) \/ Handle(w) \/ Refresh(w) \/ Crash(w)
      PROVE  RowStep
  <2>1. CASE OtherRequest(w) \/ OtherHandle(w) \/ OtherRefresh(w) \/ Crash(w)
    BY <2>1, OthersRow DEF RowStep
  <2>2. CASE \E i \in Ids : Delete(w, i) \/ DeleteDeployment(w, i)
    BY <2>2, FenceRow
  <2>3. CASE RecordFence(w)
    <3>1. local[w].id \in Ids
      BY <2>3, WorkerFacts, WriterPcs DEF RecordFence, At
    <3> QED
      BY <2>3, <3>1, FenceRow
  <2>4. CASE RegisterSave(w)
    BY <2>4, RegisterSaveRow
  <2>5. CASE UpdateSave(w) \/ ApplySave(w)
    BY <2>5, UrlSaveRow
  <2>6. CASE Insert(w)
    BY <2>6, InsertRow
  <2>7. CASE DeleteRow(w)
    BY <2>7, DeleteRowRow
  <2>8. CASE RefreshSave(w)
    BY <2>8, RefreshSaveRow
  <2> QED
    BY <1>3, <2>1, <2>2, <2>3, <2>4, <2>5, <2>6, <2>7, <2>8, WorkerActions
<1> QED
  BY <1>1, <1>2, <1>3 DEF Next

(* The table keeps its type. *)
LEMMA RowTypeStep == RowTypeOK /\ RowStep => RowTypeOK'
<1> SUFFICES ASSUME RowTypeOK, RowStep PROVE RowTypeOK'
  OBVIOUS
<1>1. CASE row' = row
  BY <1>1 DEF RowTypeOK
<1>2. ASSUME NEW i \in Ids, NEW new \in Row, Saved(i, new) \/ Inserted(i, new)
      PROVE  RowTypeOK'
  BY <1>2, RowWritten DEF Saved, Inserted, Named
<1>3. ASSUME NEW i \in Ids, Live(i), Fence(i)
      PROVE  RowTypeOK'
  <2> DEFINE new == [row[i] EXCEPT !.fenced = TRUE]
  <2>1. row[i] \in Row /\ row[i].name # None /\ row[i].url # None
    BY <1>3 DEF RowTypeOK, Live
  <2>2. new \in Row /\ new.name = row[i].name /\ new.url = row[i].url
    BY <2>1 DEF Row
  <2>3. row' = [row EXCEPT ![i] = new]
    BY <1>3 DEF Fence
  <2> HIDE DEF new
  <2> QED
    BY <2>1, <2>2, <2>3, RowWritten
<1>4. ASSUME NEW i \in Ids, NEW w \in Workers, Removed(i, w)
      PROVE  RowTypeOK'
  <2> DEFINE new == [row[i] EXCEPT !.state = "gone"]
  <2>1. row[i] \in Row
    BY DEF RowTypeOK
  <2>2. new \in Row /\ new.state = "gone"
    BY <2>1 DEF Row
  <2>3. row' = [row EXCEPT ![i] = new]
    BY <1>4 DEF Removed
  <2> HIDE DEF new
  <2> QED
    BY <2>2, <2>3, RowWritten
<1> QED
  BY <1>1, <1>2, <1>3, <1>4 DEF RowStep

-----------------------------------------------------------------------------
(* The workers keep their types. *)

(* Locals with some fields replaced are locals. *)
LEMMA LocalWith ==
  ASSUME NEW l \in Local
  PROVE  /\ \A i \in Ids, b \in Row : [l EXCEPT !.id = i, !.base = b] \in Local
         /\ \A i \in Ids : [l EXCEPT !.id = i] \in Local
         /\ \A b \in Row : [l EXCEPT !.base = b] \in Local
         /\ \A a \in Answers : [l EXCEPT !.answer = a] \in Local
         /\ \A n \in Names : [l EXCEPT !.name = n] \in Local
         /\ \A s \in SUBSET Names : [l EXCEPT !.list = s] \in Local
         /\ \A n \in Names, s \in SUBSET Names : [l EXCEPT !.name = n, !.list = s] \in Local
<1>1. l.managed \in BOOLEAN
  BY DEF Local
<1> QED
  BY <1>1 DEF Local

(* Locals a handler begins with are locals. *)
LEMMA NewLocals ==
  /\ \A n \in Names, u \in Urls : [NoLocal EXCEPT !.name = n, !.url = u] \in Local
  /\ \A n \in Names, u \in Urls :
       [NoLocal EXCEPT !.name = n, !.url = u, !.managed = TRUE] \in Local
  /\ \A i \in Ids, u \in Urls, b \in Row :
       [NoLocal EXCEPT !.id = i, !.url = u, !.base = b] \in Local
  /\ \A i \in Ids : [NoLocal EXCEPT !.id = i] \in Local
  /\ \A i \in Ids, u \in Urls : [NoLocal EXCEPT !.id = i, !.url = u] \in Local
BY EmptyTypes DEF NoLocal, Local

(* A request that begins. *)
LEMMA RequestWorker ==
  ASSUME TypeOK, NEW w \in Workers, Request(w)
  PROVE  WorkerTypeOK'
<1>0. WorkerTypeOK /\ row \in [Ids -> Row]
  BY DEF TypeOK, RowTypeOK
<1>1. ASSUME NEW n \in Names, NEW u \in Urls, Register(w, n, u)
      PROVE  WorkerTypeOK'
  <2>1. Goto(w, "reg_probe", [NoLocal EXCEPT !.name = n, !.url = u]) /\ cycle' = cycle
    BY <1>1 DEF Register
  <2>2. WellPlaced("reg_probe", [NoLocal EXCEPT !.name = n, !.url = u]) /\ "reg_probe" \in Pc
    BY NoneAssumption DEF WellPlaced, NoLocal, RowPc, NamePc, UrlPc, DelPc, NewPc, Pc
  <2> QED
    BY <1>0, <2>1, <2>2, NewLocals, GotoType DEF WorkerTypeOK
<1>2. ASSUME NEW n \in Names, Deploy(w, n)
      PROVE  WorkerTypeOK'
  <2> DEFINE l == [NoLocal EXCEPT !.name = n, !.url = PendingUrl[n], !.managed = TRUE]
  <2>0. PendingUrl[n] \in Urls
    BY UrlAssumption
  <2>1. Goto(w, "insert", l) /\ cycle' = cycle /\ l \in Local
    BY <1>2, <2>0, NewLocals DEF Deploy
  <2>2. WellPlaced("insert", l) /\ "insert" \in Pc
    BY <2>0, NoneAssumption DEF WellPlaced, NoLocal, RowPc, NamePc, UrlPc, DelPc, NewPc, Pc
  <2> HIDE DEF l
  <2> QED
    BY <1>0, <2>1, <2>2, GotoType DEF WorkerTypeOK
<1>3. ASSUME NEW i \in Ids, NEW u \in Urls, Update(w, i, u)
      PROVE  WorkerTypeOK'
  <2> DEFINE l == [NoLocal EXCEPT !.id = i, !.url = u, !.base = row[i]]
  <2>1. Goto(w, "upd_probe", l) /\ cycle' = cycle /\ l \in Local
    BY <1>0, <1>3, NewLocals DEF Update
  <2>2. WellPlaced("upd_probe", l) /\ "upd_probe" \in Pc
    BY NoneAssumption DEF WellPlaced, NoLocal, RowPc, NamePc, UrlPc, DelPc, NewPc, Pc
  <2> HIDE DEF l
  <2> QED
    BY <1>0, <2>1, <2>2, GotoType DEF WorkerTypeOK
<1>4. ASSUME NEW i \in Ids, Delete(w, i) \/ DeleteDeployment(w, i)
      PROVE  WorkerTypeOK'
  <2> DEFINE l == [NoLocal EXCEPT !.id = i]
  <2>1. PICK label \in {"del_name", "rec_fence"} : Goto(w, label, l)
    BY <1>4 DEF Delete, DeleteDeployment
  <2>2. l \in Local /\ cycle' = cycle
    BY <1>4, NewLocals DEF Delete, DeleteDeployment
  <2>3. WellPlaced(label, l) /\ label \in Pc
    BY NoneAssumption DEF WellPlaced, NoLocal, RowPc, NamePc, UrlPc, DelPc, NewPc, Pc
  <2> HIDE DEF l
  <2> QED
    BY <1>0, <2>1, <2>2, <2>3, GotoType DEF WorkerTypeOK
<1> QED
  BY <1>1, <1>2, <1>3, <1>4 DEF Request

(* A handler that goes from one place to another, keeping what it knew.    *)
LEMMA MoveType ==
  ASSUME WorkerTypeOK, NEW w \in Workers, NEW label \in Pc, NEW l \in Local,
         label \in RowPc  => pc[w] \in RowPc  \/ l.id # None,
         label \in NamePc => pc[w] \in NamePc \/ l.name # None,
         label \in UrlPc  => pc[w] \in UrlPc  \/ l.url # None,
         l.id = local[w].id \/ l.id # None,
         l.name = local[w].name \/ l.name # None,
         l.url = local[w].url \/ l.url # None,
         Goto(w, label, l), cycle' \in [Workers -> Cycle]
  PROVE  WorkerTypeOK'
<1>1. WellPlaced(pc[w], local[w])
  BY DEF WorkerTypeOK
<1>2. WellPlaced(label, l)
  BY <1>1 DEF WellPlaced
<1> QED
  BY <1>2, GotoType

(* It goes on with the same locals. *)
LEMMA StayType ==
  ASSUME WorkerTypeOK, NEW w \in Workers, NEW label \in Pc,
         label \in RowPc  => pc[w] \in RowPc,
         label \in NamePc => pc[w] \in NamePc,
         label \in UrlPc  => pc[w] \in UrlPc,
         Goto(w, label, local[w]), cycle' \in [Workers -> Cycle]
  PROVE  WorkerTypeOK'
<1>1. local[w] \in Local
  BY DEF WorkerTypeOK
<1> QED
  BY <1>1, MoveType

(* The steps of a request. *)
LEMMA HandleWorker ==
  ASSUME TypeOK, NEW w \in Workers, Handle(w)
  PROVE  WorkerTypeOK'
<1> DEFINE l == local[w]
<1>0. /\ WorkerTypeOK /\ row \in [Ids -> Row] /\ assigned \in SUBSET Names
      /\ l \in Local /\ cycle \in [Workers -> Cycle]
      /\ \A i \in Ids : Live(i) => row[i].name \in Names
  BY WorkerFacts DEF TypeOK, RowTypeOK, WorkerTypeOK, Row, Live
<1>1. cycle' = cycle
  BY DEF Handle, RegisterProbe, RegisterFind, RegisterSave, Insert, AssignLoad, AssignSave,
     ApplyLoad, ApplySave, UpdateProbe, UpdateSave, DeleteRefused, DeleteName, DeleteUsers,
     DeleteCommit, DeleteAlerts, RecordFence, RecordAlerts, RecordUsers, RecordSave, DeleteRow
<1>2. cycle' \in [Workers -> Cycle]
  BY <1>0, <1>1
<1> HIDE DEF l
<1>3. CASE ToIdle(w)
  BY <1>0, <1>2, <1>3, ToIdleType
<1>4. CASE RegisterProbe(w) /\ ~ToIdle(w)
  <2>1. l.url \in Urls
    BY <1>4, WorkerFacts DEF RegisterProbe, At, l, RowPc, NamePc, UrlPc, DelPc, NewPc
  <2>2. server[l.url] \in Answers
    BY <2>1 DEF TypeOK, Servers, Answers
  <2> DEFINE new == [l EXCEPT !.answer = server[l.url]]
  <2>3. pc[w] = "reg_probe" /\ Goto(w, "reg_find", new)
    BY <1>4, <2>1, <2>2 DEF RegisterProbe, At, l, ProbeOr
  <2>4. new \in Local
    BY <1>0, <2>1, <2>2, LocalWith
  <2>5. new.id = l.id /\ new.name = l.name /\ new.url = l.url
    BY <1>0, <2>1, <2>2, NoneAssumption DEF Local
  <2> HIDE DEF new
  <2> QED
    BY <1>0, <1>2, <2>3, <2>4, <2>5, MoveType DEF Pc, RowPc, NamePc, UrlPc, DelPc, NewPc, l
<1>5. CASE UpdateProbe(w) /\ ~ToIdle(w)
  <2>1. l.url \in Urls
    BY <1>5, WorkerFacts DEF UpdateProbe, At, l, RowPc, NamePc, UrlPc, DelPc, NewPc
  <2>2. server[l.url] \in Answers
    BY <2>1 DEF TypeOK, Servers, Answers
  <2> DEFINE new == [l EXCEPT !.answer = server[l.url]]
  <2>3. pc[w] = "upd_probe" /\ Goto(w, "upd_save", new)
    BY <1>5, <2>1, <2>2 DEF UpdateProbe, At, l, ProbeOr
  <2>4. new \in Local
    BY <1>0, <2>1, <2>2, LocalWith
  <2>5. new.id = l.id /\ new.name = l.name /\ new.url = l.url
    BY <1>0, <2>1, <2>2, NoneAssumption DEF Local
  <2> HIDE DEF new
  <2> QED
    BY <1>0, <1>2, <2>3, <2>4, <2>5, MoveType DEF Pc, RowPc, NamePc, UrlPc, DelPc, NewPc, l
<1>6. CASE RegisterFind(w) /\ ~ToIdle(w)
  <2>1. pc[w] = "reg_find" /\ (Goto(w, "insert", l) \/
          \E i \in Ids : Goto(w, "reg_save", [l EXCEPT !.id = i, !.base = row[i]]))
    BY <1>6 DEF RegisterFind, At, l, HasUrl
  <2>2. CASE Goto(w, "insert", l)
    BY <1>0, <1>2, <2>1, <2>2, StayType DEF Pc, RowPc, NamePc, UrlPc, DelPc, NewPc, l
  <2>3. ASSUME NEW i \in Ids, Goto(w, "reg_save", [l EXCEPT !.id = i, !.base = row[i]])
        PROVE  WorkerTypeOK'
    <3> DEFINE new == [l EXCEPT !.id = i, !.base = row[i]]
    <3>1. new \in Local
      BY <1>0, LocalWith
    <3>3. new.id # None /\ new.name = l.name /\ new.url = l.url
      BY <1>0, NoneAssumption DEF Local
    <3>2. Goto(w, "reg_save", new)
      BY <2>3
    <3> HIDE DEF new
    <3> QED
      BY <1>0, <1>2, <2>1, <3>1, <3>2, <3>3, MoveType DEF Pc, RowPc, NamePc, UrlPc, DelPc, NewPc, l
  <2> QED
    BY <2>1, <2>2, <2>3
<1>7. CASE RegisterSave(w) /\ ~ToIdle(w)
  <2>1. pc[w] = "reg_save" /\ Goto(w, "assign_load", local[w])
    BY <1>7 DEF RegisterSave, At, SaveOr
  <2> QED
    BY <1>0, <1>2, <2>1, StayType DEF Pc, RowPc, NamePc, UrlPc, DelPc, NewPc
<1>8. CASE Insert(w) /\ ~ToIdle(w)
  <2>1. PICK i \in Ids : Goto(w, "assign_load", [l EXCEPT !.id = i])
    BY <1>8 DEF Insert, l
  <2> DEFINE new == [l EXCEPT !.id = i]
  <2>2. pc[w] = "insert" /\ Goto(w, "assign_load", new)
    BY <1>8, <2>1 DEF Insert, At, l
  <2>3. new \in Local
    BY <1>0, <2>1, LocalWith
  <2>4. new.id # None /\ new.name = l.name /\ new.url = l.url
    BY <1>0, <2>1, NoneAssumption DEF Local
  <2> HIDE DEF new
  <2> QED
    BY <1>0, <1>2, <2>2, <2>3, <2>4, MoveType DEF Pc, RowPc, NamePc, UrlPc, DelPc, NewPc, l
<1>9. CASE AssignLoad(w) /\ ~ToIdle(w)
  <2> DEFINE new == [l EXCEPT !.list = assigned]
  <2>1. pc[w] = "assign_load" /\ Goto(w, "assign_save", new)
    BY <1>9 DEF AssignLoad, At, l
  <2>2. new \in Local
    BY <1>0, LocalWith
  <2>3. new.id = l.id /\ new.name = l.name /\ new.url = l.url
    BY <1>0, NoneAssumption DEF Local
  <2> HIDE DEF new
  <2> QED
    BY <1>0, <1>2, <2>1, <2>2, <2>3, MoveType DEF Pc, RowPc, NamePc, UrlPc, DelPc, NewPc, l
<1>10. CASE AssignSave(w) /\ ~ToIdle(w)
  <2>1. pc[w] = "assign_save" /\ Goto(w, "apply_load", local[w])
    BY <1>10 DEF AssignSave, At
  <2> QED
    BY <1>0, <1>2, <2>1, StayType DEF Pc, RowPc, NamePc, UrlPc, DelPc, NewPc
<1>11. CASE ApplyLoad(w) /\ ~ToIdle(w)
  <2>1. l.id \in Ids
    BY <1>11, WorkerFacts DEF ApplyLoad, At, l, RowPc, NamePc, UrlPc, DelPc, NewPc
  <2>2. row[l.id] \in Row
    BY <1>0, <2>1
  <2> DEFINE new == [l EXCEPT !.base = row[l.id]]
  <2>3. pc[w] = "apply_load" /\ Goto(w, "apply_save", new)
    BY <1>11, <2>1, <2>2 DEF ApplyLoad, At, l
  <2>4. new \in Local
    BY <1>0, <2>1, <2>2, LocalWith
  <2>5. new.id = l.id /\ new.name = l.name /\ new.url = l.url
    BY <1>0, <2>1, <2>2, NoneAssumption DEF Local
  <2> HIDE DEF new
  <2> QED
    BY <1>0, <1>2, <2>3, <2>4, <2>5, MoveType DEF Pc, RowPc, NamePc, UrlPc, DelPc, NewPc, l
<1>12. CASE DeleteName(w) /\ ~ToIdle(w)
  <2>1. l.id \in Ids /\ Live(l.id)
    BY <1>12, WorkerFacts DEF DeleteName, At, l, RowPc, NamePc, UrlPc, DelPc, NewPc
  <2>2. row[l.id].name \in Names
    BY <1>0, <2>1
  <2> DEFINE new == [l EXCEPT !.name = row[l.id].name]
  <2>3. pc[w] = "del_name" /\ Goto(w, "del_users", new)
    BY <1>12, <2>1, <2>2 DEF DeleteName, At, l
  <2>4. new \in Local
    BY <1>0, <2>1, <2>2, LocalWith
  <2>5. new.id = l.id /\ new.name # None /\ new.url = l.url
    BY <1>0, <2>1, <2>2, NoneAssumption DEF Local
  <2> HIDE DEF new
  <2> QED
    BY <1>0, <1>2, <2>3, <2>4, <2>5, MoveType DEF Pc, RowPc, NamePc, UrlPc, DelPc, NewPc, l
<1>13. CASE DeleteUsers(w) /\ ~ToIdle(w)
  <2> DEFINE new == [l EXCEPT !.list = assigned]
  <2>1. pc[w] = "del_users" /\ Goto(w, "del_commit", new)
    BY <1>13 DEF DeleteUsers, At, l
  <2>2. new \in Local
    BY <1>0, LocalWith
  <2>3. new.id = l.id /\ new.name = l.name /\ new.url = l.url
    BY <1>0, NoneAssumption DEF Local
  <2> HIDE DEF new
  <2> QED
    BY <1>0, <1>2, <2>1, <2>2, <2>3, MoveType DEF Pc, RowPc, NamePc, UrlPc, DelPc, NewPc, l
<1>14. CASE DeleteCommit(w) /\ ~ToIdle(w)
  <2>1. pc[w] = "del_commit" /\ Goto(w, "del_alerts", local[w])
    BY <1>14 DEF DeleteCommit, At
  <2> QED
    BY <1>0, <1>2, <2>1, StayType DEF Pc, RowPc, NamePc, UrlPc, DelPc, NewPc
<1>15. CASE DeleteAlerts(w) /\ ~ToIdle(w)
  <2>1. pc[w] = "del_alerts" /\ Goto(w, "del_row", local[w])
    BY <1>15 DEF DeleteAlerts, At
  <2> QED
    BY <1>0, <1>2, <2>1, StayType DEF Pc, RowPc, NamePc, UrlPc, DelPc, NewPc
<1>16. CASE RecordFence(w) /\ ~ToIdle(w)
  <2>1. pc[w] = "rec_fence" /\ Goto(w, "rec_alerts", local[w])
    BY <1>16 DEF RecordFence, At
  <2> QED
    BY <1>0, <1>2, <2>1, StayType DEF Pc, RowPc, NamePc, UrlPc, DelPc, NewPc
<1>17. CASE RecordAlerts(w) /\ ~ToIdle(w)
  <2>1. pc[w] = "rec_alerts" /\ Goto(w, "rec_users", local[w])
    BY <1>17 DEF RecordAlerts, At
  <2> QED
    BY <1>0, <1>2, <2>1, StayType DEF Pc, RowPc, NamePc, UrlPc, DelPc, NewPc
<1>18. CASE RecordUsers(w) /\ ~ToIdle(w)
  <2>1. l.id \in Ids
    BY <1>18, WorkerFacts DEF RecordUsers, At, l, RowPc, NamePc, UrlPc, DelPc, NewPc
  <2>2. Live(l.id)
    BY <1>18 DEF RecordUsers, l
  <2>3. row[l.id].name \in Names
    BY <1>0, <2>1, <2>2
  <2> DEFINE new == [l EXCEPT !.name = row[l.id].name, !.list = assigned]
  <2>4. pc[w] = "rec_users" /\ Goto(w, "rec_save", new)
    BY <1>18, <2>1, <2>2, <2>3 DEF RecordUsers, At, l
  <2>5. new \in Local
    BY <1>0, <2>1, <2>2, <2>3, LocalWith
  <2>6. new.id = l.id /\ new.name # None /\ new.url = l.url
    BY <1>0, <2>1, <2>2, <2>3, NoneAssumption DEF Local
  <2> HIDE DEF new
  <2> QED
    BY <1>0, <1>2, <2>4, <2>5, <2>6, MoveType DEF Pc, RowPc, NamePc, UrlPc, DelPc, NewPc, l
<1>19. CASE RecordSave(w) /\ ~ToIdle(w)
  <2>1. pc[w] = "rec_save" /\ Goto(w, "del_row", local[w])
    BY <1>19 DEF RecordSave, At
  <2> QED
    BY <1>0, <1>2, <2>1, StayType DEF Pc, RowPc, NamePc, UrlPc, DelPc, NewPc
<1>20. CASE DeleteRefused(w) \/ DeleteRow(w) \/ UpdateSave(w) \/ ApplySave(w)
  BY <1>3, <1>20 DEF DeleteRefused, DeleteRow, UpdateSave, ApplySave, SaveAndEnd
<1> QED
  BY <1>3, <1>4, <1>5, <1>6, <1>7, <1>8, <1>9, <1>10, <1>11, <1>12, <1>13, <1>14, <1>15, <1>16, <1>17, <1>18, <1>19, <1>20 DEF Handle

(* The refresher is between two instances. *)
LEMMA BetweenType ==
  ASSUME WorkerTypeOK, NEW w \in Workers, NEW label \in {"next", "replace", "idle"},
         Goto(w, label, NoLocal), cycle' \in [Workers -> Cycle]
  PROVE  WorkerTypeOK'
<1>1. label \in Pc /\ WellPlaced(label, NoLocal)
  BY DEF Pc, WellPlaced, RowPc, NamePc, UrlPc, DelPc, NewPc
<1> QED
  BY <1>1, EmptyTypes, GotoType

(* Cycles with some fields replaced are cycles. *)
LEMMA CycleWith ==
  ASSUME NEW c \in Cycle
  PROVE  /\ \A s \in SUBSET Ids : [c EXCEPT !.todo = s] \in Cycle
         /\ \A s \in SUBSET Alert : [c EXCEPT !.found = s] \in Cycle
         /\ \A s \in SUBSET Alert : [c EXCEPT !.doomed = s] \in Cycle
BY DEF Cycle

(* The refresher's cycle keeps its type. *)
LEMMA RefreshCycle ==
  ASSUME TypeOK, NEW w \in Workers, Refresh(w)
  PROVE  cycle' \in [Workers -> Cycle]
<1> DEFINE c == cycle[w]
<1>0. cycle \in [Workers -> Cycle] /\ c \in Cycle /\ alerts \in SUBSET Alert
      /\ c.todo \in SUBSET Ids /\ c.found \in SUBSET Alert
  BY DEF TypeOK, WorkerTypeOK, Cycle
<1>1. ASSUME NEW new \in Cycle, cycle' = [cycle EXCEPT ![w] = new]
      PROVE  cycle' \in [Workers -> Cycle]
  BY <1>0, <1>1
<1>2. CASE cycle' = cycle
  BY <1>0, <1>2
<1>3. CASE CycleBegin(w)
  <2> DEFINE new == [NoCycle EXCEPT !.todo = {i \in Ids : Live(i)}]
  <2>1. new \in Cycle
    BY EmptyTypes, CycleWith
  <2> QED
    BY <1>1, <1>3, <2>1 DEF CycleBegin
<1>4. CASE RefreshRead(w)
  <2>1. PICK i \in c.todo : cycle' = [cycle EXCEPT ![w].todo = @ \ {i}]
    BY <1>4 DEF RefreshRead
  <2> DEFINE new == [c EXCEPT !.todo = c.todo \ {i}]
  <2>2. new \in Cycle
    BY <1>0, CycleWith
  <2>3. cycle' = [cycle EXCEPT ![w] = new]
    BY <2>1, <1>0
  <2> QED
    BY <1>1, <2>2, <2>3
<1>5. CASE RefreshReload(w) /\ ~ToIdle(w)
  <2>1. local[w].id \in Ids /\ Live(local[w].id)
    BY <1>5, WorkerFacts DEF RefreshReload, InCycle, At, RowPc
  <2>2. PICK found \in AlertsFound(local[w].id, local[w].answer) :
          cycle' = [cycle EXCEPT ![w].found = @ \cup found]
    BY <1>5 DEF RefreshReload
  <2>3. found \in SUBSET Alert
    BY <2>1, <2>2, AlertsFoundType DEF TypeOK
  <2> DEFINE new == [c EXCEPT !.found = c.found \cup found]
  <2>4. new \in Cycle
    BY <1>0, <2>3, CycleWith
  <2>5. cycle' = [cycle EXCEPT ![w] = new]
    BY <2>2, <1>0
  <2> QED
    BY <1>1, <2>4, <2>5
<1>6. CASE ReplaceBegin(w)
  <2> DEFINE new == [c EXCEPT !.doomed = alerts]
  <2>1. new \in Cycle
    BY <1>0, CycleWith
  <2>2. cycle' = [cycle EXCEPT ![w] = new]
    BY <1>6, <1>0 DEF ReplaceBegin
  <2> QED
    BY <1>1, <2>1, <2>2
<1>7. CASE ReplaceCommit(w) \/ (RefreshReload(w) /\ ToIdle(w) /\ ~Live(local[w].id))
  BY <1>1, <1>7, EmptyTypes DEF ReplaceCommit, RefreshReload
<1>8. CASE RefreshReload(w)
  <2>1. CASE Live(local[w].id)
    <3>1. Goto(w, "next", NoLocal)
      BY <1>8, <2>1 DEF RefreshReload
    <3>2. ~ToIdle(w)
      BY <3>1 DEF ToIdle, Goto, TypeOK, WorkerTypeOK
    <3> QED
      BY <1>5, <1>8, <3>2
  <2>2. CASE ~Live(local[w].id)
    BY <1>7, <1>8, <2>2 DEF RefreshReload
  <2> QED
    BY <2>1, <2>2
<1>9. CASE RefreshPods(w) \/ RefreshProbe(w) \/ RefreshLoad(w) \/ RefreshSave(w)
  BY <1>2, <1>9 DEF RefreshPods, RefreshProbe, RefreshLoad, RefreshSave
<1> QED
  BY <1>3, <1>4, <1>6, <1>7, <1>8, <1>9 DEF Refresh

(* The steps of a refresher. *)
LEMMA RefreshWorker ==
  ASSUME TypeOK, NEW w \in Workers, Refresh(w)
  PROVE  WorkerTypeOK'
<1> DEFINE l == local[w]
<1>0. WorkerTypeOK /\ row \in [Ids -> Row] /\ l \in Local
  BY WorkerFacts DEF TypeOK, RowTypeOK
<1>1. cycle' \in [Workers -> Cycle]
  BY RefreshCycle
<1>2. CASE \E label \in {"next", "replace", "idle"} : Goto(w, label, NoLocal)
  BY <1>0, <1>1, <1>2, BetweenType
<1>3. CASE CycleBegin(w) \/ RefreshReload(w) \/ ReplaceBegin(w) \/ ReplaceCommit(w)
  BY <1>2, <1>3 DEF CycleBegin, RefreshReload, ReplaceBegin, ReplaceCommit, ToIdle
<1> HIDE DEF l
<1>4. CASE RefreshRead(w)
  <2>1. PICK i \in cycle[w].todo :
          \/ Goto(w, "next", NoLocal)
          \/ Live(i) /\ \E label \in {"pods", "probe"} :
               Goto(w, label, [NoLocal EXCEPT !.id = i, !.url = row[i].url])
    BY <1>4 DEF RefreshRead
  <2>2. CASE Goto(w, "next", NoLocal)
    BY <1>2, <2>2
  <2>3. ASSUME Live(i), NEW label \in {"pods", "probe"},
               Goto(w, label, [NoLocal EXCEPT !.id = i, !.url = row[i].url])
        PROVE  WorkerTypeOK'
    <3> DEFINE new == [NoLocal EXCEPT !.id = i, !.url = row[i].url]
    <3>1. i \in Ids
      BY WorkerFacts DEF Cycle
    <3>2. row[i].url \in Urls
      BY <2>3, <3>1 DEF TypeOK, RowTypeOK, Row, Live
    <3>3. new \in Local
      BY <3>1, <3>2, NewLocals
    <3>4. new.id # None /\ new.url # None
      BY <3>1, <3>2, NoneAssumption DEF NoLocal
    <3>5. Goto(w, label, new)
      BY <2>3
    <3> HIDE DEF new
    <3>6. WellPlaced(label, new) /\ label \in Pc
      BY <3>4 DEF WellPlaced, Pc, RowPc, NamePc, UrlPc, DelPc, NewPc
    <3> QED
      BY <1>0, <1>1, <3>3, <3>5, <3>6, GotoType
  <2> QED
    BY <2>1, <2>2, <2>3
<1>5. ASSUME NEW a \in Answers, Goto(w, "load", [l EXCEPT !.answer = a]),
             pc[w] \in {"pods", "probe"}
      PROVE  WorkerTypeOK'
  <2> DEFINE new == [l EXCEPT !.answer = a]
  <2>1. new \in Local
    BY <1>0, LocalWith
  <2>2. new.id = l.id /\ new.name = l.name /\ new.url = l.url
    BY <1>0 DEF Local
  <2>3. Goto(w, "load", new)
    BY <1>5
  <2> HIDE DEF new
  <2> QED
    BY <1>0, <1>1, <1>5, <2>1, <2>2, <2>3, MoveType DEF Pc, RowPc, NamePc, UrlPc, DelPc, NewPc, l
<1>6. CASE RefreshPods(w)
  <2>1. pc[w] = "pods" /\ (Goto(w, "load", [l EXCEPT !.answer = "starting"]) \/ Goto(w, "probe", l))
    BY <1>6 DEF RefreshPods, InCycle, At, l
  <2>2. "starting" \in Answers
    BY DEF Answers, Servers
  <2>3. CASE Goto(w, "probe", l)
    BY <1>0, <1>1, <2>1, <2>3, StayType DEF Pc, RowPc, NamePc, UrlPc, DelPc, NewPc, l
  <2> QED
    BY <1>5, <2>1, <2>2, <2>3
<1>7. CASE RefreshProbe(w)
  <2>1. pc[w] = "probe" /\ \E a \in Snapshots(l.url) : Goto(w, "load", [l EXCEPT !.answer = a])
    BY <1>7 DEF RefreshProbe, InCycle, At, l
  <2>2. l.url \in Urls
    BY <2>1, WorkerFacts DEF UrlPc, l
  <2>3. Snapshots(l.url) \subseteq Answers
    BY <2>2 DEF Snapshots, Answers, Servers, TypeOK
  <2> QED
    BY <1>5, <2>1, <2>3
<1>8. CASE RefreshLoad(w)
  <2>1. pc[w] = "load" /\ (Goto(w, "save", [l EXCEPT !.base = row[l.id]]) \/ Goto(w, "next", NoLocal))
    BY <1>8 DEF RefreshLoad, InCycle, At, l
  <2>2. l.id \in Ids
    BY <2>1, WorkerFacts DEF RowPc, l
  <2> DEFINE new == [l EXCEPT !.base = row[l.id]]
  <2>3. row[l.id] \in Row
    BY <1>0, <2>2
  <2>4. new \in Local
    BY <1>0, <2>3, LocalWith
  <2>5. new.id = l.id /\ new.name = l.name /\ new.url = l.url
    BY <1>0 DEF Local
  <2>6. Goto(w, "save", new) \/ Goto(w, "next", NoLocal)
    BY <2>1
  <2> HIDE DEF new
  <2>7. CASE Goto(w, "save", new)
    BY <1>0, <1>1, <2>1, <2>4, <2>5, <2>7, MoveType DEF Pc, RowPc, NamePc, UrlPc, DelPc, NewPc, l
  <2> QED
    BY <1>2, <2>6, <2>7
<1>9. CASE RefreshSave(w)
  <2>1. pc[w] = "save" /\ (Goto(w, "reload", l) \/ Goto(w, "next", NoLocal))
    BY <1>9 DEF RefreshSave, InCycle, At, l
  <2>2. CASE Goto(w, "reload", l)
    BY <1>0, <1>1, <2>1, <2>2, StayType DEF Pc, RowPc, NamePc, UrlPc, DelPc, NewPc, l
  <2> QED
    BY <1>2, <2>1, <2>2
<1> QED
  BY <1>3, <1>4, <1>6, <1>7, <1>8, <1>9 DEF Refresh

-----------------------------------------------------------------------------
(* The other variables. *)

(* The alerts a step leaves: old ones, or ones of live rows that the step  *)
(* does not touch.                                                         *)
AlertStep == \A a \in alerts' : a \in alerts \/ (row' = row /\ Live(a.id) /\ a \in Alert)

(* Every step treats the alerts like that. *)
LEMMA AlertSteps == TypeOK /\ [Next]_vars => AlertStep
<1> SUFFICES ASSUME TypeOK, [Next]_vars PROVE AlertStep
  OBVIOUS
<1>1. CASE alerts' \subseteq alerts
  BY <1>1 DEF AlertStep
<1>2. ASSUME NEW w \in Workers, ReplaceCommit(w)
      PROVE  AlertStep
  <2>1. cycle[w].found \in SUBSET Alert
    BY WorkerFacts DEF Cycle
  <2> QED
    BY <1>2, <2>1 DEF ReplaceCommit, CanReplace, AlertStep
<1>3. ASSUME NEW w \in Workers, Request(w)
      PROVE  alerts' \subseteq alerts
  BY <1>3 DEF Request, Register, Deploy, Update, Delete, DeleteDeployment
<1>4. ASSUME NEW w \in Workers, Handle(w)
      PROVE  alerts' \subseteq alerts
  BY <1>4 DEF Handle, RegisterProbe, RegisterFind, RegisterSave, Insert, AssignLoad, AssignSave,
     ApplyLoad, ApplySave, UpdateProbe, UpdateSave, DeleteRefused, DeleteName, DeleteUsers,
     DeleteCommit, DeleteAlerts, RecordFence, RecordAlerts, RecordUsers, RecordSave, DeleteRow,
     AlertsWithout
<1>5. ASSUME NEW w \in Workers, Refresh(w), ~ReplaceCommit(w)
      PROVE  alerts' \subseteq alerts
  BY <1>5 DEF Refresh, CycleBegin, RefreshRead, RefreshPods, RefreshProbe, RefreshLoad,
     RefreshSave, RefreshReload, ReplaceBegin
<1>6. ASSUME NEW w \in Workers, Crash(w)
      PROVE  alerts' \subseteq alerts
  BY <1>6 DEF Crash
<1>7. CASE UNCHANGED vars \/ \E u \in Urls : ServerChanges(u)
  BY <1>1, <1>7 DEF vars, ServerChanges
<1> QED
  BY <1>1, <1>2, <1>3, <1>4, <1>5, <1>6, <1>7 DEF Next

(* The user's list stays a set of names. *)
LEMMA AssignedStep == TypeOK /\ [Next]_vars => assigned' \in SUBSET Names
<1> SUFFICES ASSUME TypeOK, [Next]_vars PROVE assigned' \in SUBSET Names
  OBVIOUS
<1>0. assigned \in SUBSET Names
  BY DEF TypeOK
<1>1. ASSUME NEW w \in Workers, AssignSave(w) \/ DeleteCommit(w) \/ RecordSave(w)
      PROVE  assigned' \in SUBSET Names
  <2>1. local[w].name \in Names /\ local[w].list \in SUBSET Names
    BY <1>1, WorkerFacts DEF AssignSave, DeleteCommit, RecordSave, At, NamePc, NewPc, Local
  <2> QED
    BY <1>0, <1>1, <2>1 DEF AssignSave, DeleteCommit, RecordSave, RemoveName
<1>2. ASSUME NEW w \in Workers, Request(w)
      PROVE  assigned' = assigned
  BY <1>2 DEF Request, Register, Deploy, Update, Delete, DeleteDeployment
<1>3. ASSUME NEW w \in Workers, Handle(w)
      PROVE  assigned' = assigned \/ AssignSave(w) \/ DeleteCommit(w) \/ RecordSave(w)
  BY <1>3 DEF Handle, RegisterProbe, RegisterFind, RegisterSave, Insert, AssignLoad,
     ApplyLoad, ApplySave, UpdateProbe, UpdateSave, DeleteRefused, DeleteName, DeleteUsers,
     DeleteAlerts, RecordFence, RecordAlerts, RecordUsers, DeleteRow
<1>4. ASSUME NEW w \in Workers, Refresh(w) \/ Crash(w)
      PROVE  assigned' = assigned
  BY <1>4 DEF Refresh, CycleBegin, RefreshRead, RefreshPods, RefreshProbe, RefreshLoad,
     RefreshSave, RefreshReload, ReplaceBegin, ReplaceCommit, Crash
<1>5. CASE UNCHANGED vars \/ \E u \in Urls : ServerChanges(u)
  BY <1>0, <1>5 DEF vars, ServerChanges
<1> QED
  BY <1>0, <1>1, <1>2, <1>3, <1>4, <1>5 DEF Next

(* Servers and counters keep their types. *)
LEMMA WorldStep ==
  TypeOK /\ [Next]_vars => server' \in [Urls -> Servers] /\ {begun, changes, crashes}' \subseteq Nat
<1> SUFFICES ASSUME TypeOK, [Next]_vars
             PROVE  server' \in [Urls -> Servers] /\ {begun, changes, crashes}' \subseteq Nat
  OBVIOUS
<1>0. server \in [Urls -> Servers] /\ begun \in Nat /\ changes \in Nat /\ crashes \in Nat
  BY DEF TypeOK
<1>1. ASSUME NEW w \in Workers, Request(w)
      PROVE  server' = server /\ begun' = begun + 1 /\ changes' = changes /\ crashes' = crashes
  BY <1>1 DEF Request, Register, Deploy, Update, Delete, DeleteDeployment, Begin
<1>2. ASSUME NEW w \in Workers, Handle(w)
      PROVE  server' = server /\ UNCHANGED boundVars
  BY <1>2 DEF Handle, RegisterProbe, RegisterFind, RegisterSave, Insert, AssignLoad, AssignSave,
     ApplyLoad, ApplySave, UpdateProbe, UpdateSave, DeleteRefused, DeleteName, DeleteUsers,
     DeleteCommit, DeleteAlerts, RecordFence, RecordAlerts, RecordUsers, RecordSave, DeleteRow
<1>3. ASSUME NEW w \in Workers, Refresh(w)
      PROVE  server' = server /\ UNCHANGED boundVars
  BY <1>3 DEF Refresh, CycleBegin, RefreshRead, RefreshPods, RefreshProbe, RefreshLoad,
     RefreshSave, RefreshReload, ReplaceBegin, ReplaceCommit
<1>4. ASSUME NEW w \in Workers, Crash(w)
      PROVE  server' = server /\ begun' = begun /\ changes' = changes /\ crashes' = crashes + 1
  BY <1>4 DEF Crash
<1>5. ASSUME NEW u \in Urls, ServerChanges(u)
      PROVE  /\ server' \in [Urls -> Servers]
             /\ begun' = begun /\ changes' = changes + 1 /\ crashes' = crashes
  BY <1>0, <1>5 DEF ServerChanges
<1>6. CASE UNCHANGED vars
  BY <1>0, <1>6 DEF vars
<1> QED
  BY <1>0, <1>1, <1>2, <1>3, <1>4, <1>5, <1>6 DEF Next, boundVars

(* A crash and the world outside leave well-typed workers. *)
LEMMA WorkerStep == TypeOK /\ [Next]_vars => WorkerTypeOK'
<1> SUFFICES ASSUME TypeOK, [Next]_vars PROVE WorkerTypeOK'
  OBVIOUS
<1>0. WorkerTypeOK
  BY DEF TypeOK
<1>1. ASSUME NEW w \in Workers, Crash(w)
      PROVE  WorkerTypeOK'
  <2>1. cycle' \in [Workers -> Cycle]
    BY <1>0, <1>1, EmptyTypes DEF Crash, WorkerTypeOK
  <2> QED
    BY <1>0, <1>1, <2>1, ToIdleType DEF Crash
<1>2. CASE UNCHANGED vars \/ \E u \in Urls : ServerChanges(u)
  BY <1>0, <1>2 DEF vars, ServerChanges, WorkerTypeOK
<1> QED
  BY <1>1, <1>2, RequestWorker, HandleWorker, RefreshWorker DEF Next

(* Type correctness: rows keep their columns, and a live row its name and  *)
(* URL, whatever the handlers and the refresher write into it; every place *)
(* a worker can be at comes with the row, name and URL it needs there.     *)
THEOREM TypeCorrect == Spec => []TypeOK
<1>1. TypeOK /\ [Next]_vars => TypeOK'
  <2> SUFFICES ASSUME TypeOK, [Next]_vars PROVE TypeOK'
    OBVIOUS
  <2>1. RowTypeOK'
    BY RowSteps, RowTypeStep DEF TypeOK
  <2>2. alerts' \in SUBSET Alert
    BY AlertSteps DEF AlertStep, TypeOK
  <2> QED
    BY <2>1, <2>2, AssignedStep, WorldStep, WorkerStep DEF TypeOK
<1> QED
  BY <1>1, InitType, PTL DEF Spec

-----------------------------------------------------------------------------
(* The inductive invariant. *)

(* How a worker comes to a place of a deletion: from another, for the same *)
(* row, or by fencing a live one.                                          *)
DelStep(w) == pc'[w] \in DelPc =>
  \/ pc[w] \in DelPc /\ local'[w].id = local[w].id
  \/ \E i \in Ids : Live(i) /\ Fence(i) /\ local'[w].id = i

(* A step of another worker, or none. *)
LEMMA StandStill ==
  ASSUME WorkerTypeOK, NEW w \in Workers, NEW v \in Workers, v # w,
         NEW label, NEW l, Goto(w, label, l)
  PROVE  DelStep(v)
BY DEF WorkerTypeOK, Goto, DelStep

(* Where a worker goes. *)
LEMMA Arrives ==
  ASSUME WorkerTypeOK, NEW w \in Workers, NEW label, NEW l, Goto(w, label, l)
  PROVE  pc'[w] = label /\ local'[w] = l
BY DEF WorkerTypeOK, Goto

(* Every step of a worker is a Goto. *)
LEMMA WorkerGoes ==
  ASSUME NEW w \in Workers, Request(w) \/ Handle(w) \/ Refresh(w) \/ Crash(w)
  PROVE  \E label, l : Goto(w, label, l)
<1>1. CASE Request(w)
  BY <1>1 DEF Request, Register, Deploy, Update, Delete, DeleteDeployment
<1>2. CASE Handle(w)
  BY <1>2 DEF Handle, RegisterProbe, RegisterFind, RegisterSave, Insert, AssignLoad, AssignSave,
     ApplyLoad, ApplySave, UpdateProbe, UpdateSave, DeleteRefused, DeleteName, DeleteUsers,
     DeleteCommit, DeleteAlerts, RecordFence, RecordAlerts, RecordUsers, RecordSave, DeleteRow,
     ProbeOr, SaveOr, SaveAndEnd, ToIdle
<1>3. CASE Refresh(w)
  BY <1>3 DEF Refresh, CycleBegin, RefreshRead, RefreshPods, RefreshProbe, RefreshLoad,
     RefreshSave, RefreshReload, ReplaceBegin, ReplaceCommit, ToIdle
<1>4. CASE Crash(w)
  BY <1>4 DEF Crash, ToIdle
<1> QED
  BY <1>1, <1>2, <1>3, <1>4

(* A worker that goes elsewhere, or on with the same row. *)
LEMMA OnOrOff ==
  ASSUME WorkerTypeOK, NEW w \in Workers, NEW label, NEW l, Goto(w, label, l),
         label \in DelPc => pc[w] \in DelPc /\ l.id = local[w].id
  PROVE  DelStep(w)
BY Arrives DEF DelStep

(* The worker that moves. *)
LEMMA Mover ==
  ASSUME TypeOK, NEW w \in Workers, Request(w) \/ Handle(w) \/ Refresh(w) \/ Crash(w)
  PROVE  DelStep(w)
<1> DEFINE l == local[w]
<1>0. WorkerTypeOK /\ l \in Local
  BY WorkerFacts DEF TypeOK
<1>1. ASSUME NEW label, NEW k, Goto(w, label, k), label \notin DelPc
      PROVE  DelStep(w)
  BY <1>0, <1>1, OnOrOff
<1>2. CASE ToIdle(w)
  BY <1>1, <1>2 DEF ToIdle, DelPc
<1>3. CASE OtherRequest(w)
  BY <1>1, <1>3 DEF OtherRequest, Register, Deploy, Update, DelPc
<1>4. ASSUME NEW i \in Ids, Delete(w, i) \/ DeleteDeployment(w, i)
      PROVE  DelStep(w)
  <2>1. Live(i) /\ Fence(i) /\ \E label : Goto(w, label, [NoLocal EXCEPT !.id = i])
    BY <1>4 DEF Delete, DeleteDeployment
  <2>2. local'[w].id = i
    BY <1>0, <2>1, Arrives DEF NoLocal
  <2> QED
    BY <2>1, <2>2 DEF DelStep
<1>5. CASE RegisterProbe(w) \/ RegisterFind(w) \/ RegisterSave(w) \/ Insert(w)
           \/ AssignLoad(w) \/ AssignSave(w) \/ ApplyLoad(w) \/ UpdateProbe(w)
  <2>1. \E label \in {"reg_find", "reg_save", "insert", "assign_load", "assign_save",
                      "apply_load", "apply_save", "upd_save", "idle"} : \E k : Goto(w, label, k)
    BY <1>5 DEF RegisterProbe, RegisterFind, RegisterSave, Insert, AssignLoad, AssignSave,
       ApplyLoad, UpdateProbe, ProbeOr, SaveOr, ToIdle
  <2> QED
    BY <1>1, <2>1 DEF DelPc
<1>6. CASE UpdateSave(w) \/ ApplySave(w) \/ DeleteRefused(w) \/ DeleteRow(w) \/ Crash(w)
  BY <1>2, <1>6 DEF UpdateSave, ApplySave, SaveAndEnd, DeleteRefused, DeleteRow, Crash
<1>7. CASE DeleteName(w) \/ DeleteUsers(w) \/ DeleteCommit(w) \/ RecordFence(w)
           \/ RecordAlerts(w) \/ RecordSave(w) \/ DeleteAlerts(w) \/ RecordUsers(w)
  <2>1. pc[w] \in DelPc
    BY <1>7 DEF DeleteName, DeleteUsers, DeleteCommit, RecordFence, RecordAlerts,
       RecordSave, DeleteAlerts, RecordUsers, At, DelPc
  <2>2. \/ ToIdle(w)
        \/ \E label : Goto(w, label, l)
        \/ \E label, n : Goto(w, label, [l EXCEPT !.name = n])
        \/ \E label, s : Goto(w, label, [l EXCEPT !.list = s])
        \/ \E label, n, s : Goto(w, label, [l EXCEPT !.name = n, !.list = s])
    BY <1>7 DEF DeleteName, DeleteUsers, DeleteCommit, RecordFence, RecordAlerts,
       RecordSave, DeleteAlerts, RecordUsers
  <2>3. \A n, s : /\ [l EXCEPT !.name = n].id = l.id
                  /\ [l EXCEPT !.list = s].id = l.id
                  /\ [l EXCEPT !.name = n, !.list = s].id = l.id
    BY <1>0 DEF Local
  <2>4. \A k : k.id = l.id /\ (\E label : Goto(w, label, k)) => DelStep(w)
    BY <1>0, <2>1, OnOrOff
  <2> QED
    BY <1>2, <2>2, <2>3, <2>4
<1>8. CASE Refresh(w)
  <2>1. \E label \in {"next", "pods", "probe", "load", "save", "reload", "replace", "idle"} : \E k :
          Goto(w, label, k)
    BY <1>8 DEF Refresh, CycleBegin, RefreshRead, RefreshPods, RefreshProbe, RefreshLoad,
       RefreshSave, RefreshReload, ReplaceBegin, ReplaceCommit, ToIdle
  <2> QED
    BY <1>1, <2>1 DEF DelPc
<1> QED
  BY <1>3, <1>4, <1>5, <1>6, <1>7, <1>8 DEF Request, Handle, OtherRequest

(* Every step comes to a deletion's places like that. *)
LEMMA DelSteps == TypeOK /\ [Next]_vars => \A v \in Workers : DelStep(v)
<1> SUFFICES ASSUME TypeOK, [Next]_vars, NEW v \in Workers PROVE DelStep(v)
  OBVIOUS
<1>1. CASE UNCHANGED vars \/ \E u \in Urls : ServerChanges(u)
  BY <1>1 DEF vars, ServerChanges, DelStep
<1>2. ASSUME NEW w \in Workers, Request(w) \/ Handle(w) \/ Refresh(w) \/ Crash(w)
      PROVE  DelStep(v)
  <2>1. CASE v = w
    BY <1>2, <2>1, Mover
  <2>2. CASE v # w
    BY <1>2, <2>2, WorkerGoes, StandStill DEF TypeOK
  <2> QED
    BY <2>1, <2>2
<1> QED
  BY <1>1, <1>2 DEF Next

(* The fence of a row that has existed stays, and such a row never becomes *)
(* unborn again.                                                           *)
LEMMA FenceStays ==
  ASSUME TypeOK, RowStep, NEW i \in Ids, row[i].fenced, row[i].state # "unborn"
  PROVE  row'[i].fenced /\ row'[i].state # "unborn"
<1>0. row \in [Ids -> Row]
  BY DEF TypeOK, RowTypeOK
<1>1. CASE row' = row
  BY <1>1
<1>2. ASSUME NEW j \in Ids, NEW new \in Row, Saved(j, new) \/ Inserted(j, new)
      PROVE  row'[i].fenced /\ row'[i].state # "unborn"
  BY <1>0, <1>2 DEF Saved, Inserted, Named
<1>3. ASSUME NEW j \in Ids, Live(j), Fence(j)
      PROVE  row'[i].fenced /\ row'[i].state # "unborn"
  BY <1>0, <1>3 DEF Fence, Live, Row
<1>4. ASSUME NEW j \in Ids, NEW w \in Workers, Removed(j, w)
      PROVE  row'[i].fenced /\ row'[i].state # "unborn"
  BY <1>0, <1>4 DEF Removed, Live, Row
<1> QED
  BY <1>1, <1>2, <1>3, <1>4 DEF RowStep

(* A deletion in progress keeps its row fenced. *)
LEMMA FencedFirstStep == TypeOK /\ FencedFirst /\ [Next]_vars => FencedFirst'
<1> SUFFICES ASSUME TypeOK, FencedFirst, [Next]_vars,
                    NEW w \in Workers, pc'[w] \in DelPc
             PROVE  row'[local'[w].id].fenced /\ row'[local'[w].id].state # "unborn"
  BY DEF FencedFirst
<1>0. RowStep /\ row \in [Ids -> Row]
  BY RowSteps DEF TypeOK, RowTypeOK
<1>1. CASE pc[w] \in DelPc /\ local'[w].id = local[w].id
  <2>1. local[w].id \in Ids
    BY <1>1, WorkerFacts DEF RowPc
  <2>2. row[local[w].id].fenced /\ row[local[w].id].state # "unborn"
    BY <1>1 DEF FencedFirst
  <2> QED
    BY <1>0, <1>1, <2>1, <2>2, FenceStays
<1>2. CASE \E i \in Ids : Live(i) /\ Fence(i) /\ local'[w].id = i
  BY <1>0, <1>2 DEF Fence, Live, Row
<1> QED
  BY <1>1, <1>2, DelSteps DEF DelStep

(* Names stay unique. *)
LEMMA NamesStep == TypeOK /\ NamesUnique /\ RowStep => NamesUnique'
<1> SUFFICES ASSUME TypeOK, NamesUnique, RowStep PROVE NamesUnique'
  OBVIOUS
<1>0. row \in [Ids -> Row]
  BY DEF TypeOK, RowTypeOK
<1>1. CASE row' = row
  BY <1>1 DEF NamesUnique, Live
<1>2. ASSUME NEW i \in Ids, NEW new \in Row, Saved(i, new) \/ Inserted(i, new)
      PROVE  NamesUnique'
  <2>1. HasName(new.name) \subseteq {i} /\ row' = [row EXCEPT ![i] = new]
    BY <1>2 DEF Saved, Inserted, NameFree
  <2> QED
    BY <1>0, <2>1 DEF NamesUnique, HasName, Live
<1>3. ASSUME NEW i \in Ids, Live(i), Fence(i)
      PROVE  NamesUnique'
  <2>1. \A j \in Ids : row'[j].state = row[j].state /\ row'[j].name = row[j].name
    BY <1>0, <1>3 DEF Fence, Row
  <2> QED
    BY <2>1 DEF NamesUnique, Live
<1>4. ASSUME NEW i \in Ids, NEW w \in Workers, Removed(i, w)
      PROVE  NamesUnique'
  <2>1. \A j \in Ids : row'[j].name = row[j].name /\ (row'[j].state = "live" => row[j].state = "live")
    BY <1>0, <1>4 DEF Removed, Row
  <2> QED
    BY <2>1 DEF NamesUnique, Live
<1> QED
  BY <1>1, <1>2, <1>3, <1>4 DEF RowStep

(* A row stays live unless it is removed, and no alert refers to it then. *)
LEMMA LiveStays ==
  ASSUME TypeOK, RowStep, NEW a \in alerts, Live(a.id)
  PROVE  row'[a.id].state = "live"
<1>0. row \in [Ids -> Row] /\ a.id \in Ids
  BY DEF TypeOK, RowTypeOK, Alert
<1>1. CASE row' = row
  BY <1>1 DEF Live
<1>2. ASSUME NEW i \in Ids, NEW new \in Row, Saved(i, new) \/ Inserted(i, new)
      PROVE  row'[a.id].state = "live"
  BY <1>0, <1>2 DEF Saved, Inserted, Named, Live
<1>3. ASSUME NEW i \in Ids, Live(i), Fence(i)
      PROVE  row'[a.id].state = "live"
  BY <1>0, <1>3 DEF Fence, Row, Live
<1>4. ASSUME NEW i \in Ids, NEW w \in Workers, Removed(i, w)
      PROVE  row'[a.id].state = "live"
  BY <1>0, <1>4 DEF Removed, Referenced, Live
<1> QED
  BY <1>1, <1>2, <1>3, <1>4 DEF RowStep

(* Alerts keep their rows. *)
LEMMA AlertsStep == TypeOK /\ AlertsHaveRows /\ RowStep /\ AlertStep => AlertsHaveRows'
<1> SUFFICES ASSUME TypeOK, AlertsHaveRows, RowStep, AlertStep, NEW a \in alerts'
             PROVE  row'[a.id].state = "live"
  BY DEF AlertsHaveRows, Live
<1>1. CASE a \in alerts
  BY <1>1, LiveStays DEF AlertsHaveRows
<1>2. CASE row' = row /\ Live(a.id)
  BY <1>2 DEF Live
<1> QED
  BY <1>1, <1>2 DEF AlertStep

(* The invariant: types, unique names, alerts of live rows only, and a     *)
(* fence around every row that is being deleted.                           *)
THEOREM Invariant == Spec => []RegistryInv
<1>1. Init => RegistryInv
  <2> SUFFICES ASSUME Init PROVE RegistryInv
    OBVIOUS
  <2>1. \A i \in Ids : row[i].state = "unborn"
    BY DEF Init, NewRow
  <2>2. NamesUnique /\ AlertsHaveRows
    BY <2>1 DEF NamesUnique, AlertsHaveRows, Live, Init
  <2>3. FencedFirst
    BY DEF FencedFirst, Init, DelPc
  <2> QED
    BY <2>2, <2>3, InitType DEF RegistryInv
<1>2. RegistryInv /\ TypeOK' /\ [Next]_vars => RegistryInv'
  BY RowSteps, AlertSteps, FencedFirstStep, NamesStep, AlertsStep DEF RegistryInv
<1> QED
  BY <1>1, <1>2, TypeCorrect, PTL DEF Spec

(* Two instances never have the same name, however many requests look for  *)
(* names and write them in whatever order.                                 *)
THEOREM UniqueNames == Spec => []NamesUnique
<1>1. RegistryInv => NamesUnique
  BY DEF RegistryInv
<1> QED
  BY <1>1, Invariant, PTL

(* No alert of a deleted instance, however many refreshers replace alerts  *)
(* while however many requests delete instances.                           *)
THEOREM NoOrphanAlerts == Spec => []AlertsHaveRows
<1>1. RegistryInv => AlertsHaveRows
  BY DEF RegistryInv
<1> QED
  BY <1>1, Invariant, PTL

-----------------------------------------------------------------------------
(* The rows implement the life cycle of instances. *)

(* A change of one row's phase. *)
LEMMA PhaseOf ==
  ASSUME NEW i \in Ids, NEW from, NEW to, Phase(i) = from, Phase(i)' = to,
         \A j \in Ids \ {i} : row'[j] = row[j]
  PROVE  /\ [k \in Ids |-> Phase(k)][i] = from
         /\ [k \in Ids |-> Phase(k)]' = [[k \in Ids |-> Phase(k)] EXCEPT ![i] = to]
BY DEF Phase, Live

(* Every step is one of the life cycle, or none. *)
LEMMA LifecycleStep ==
  TypeOK /\ FencedFirst /\ RowStep => [Lifecycle!Next]_([i \in Ids |-> Phase(i)])
<1> SUFFICES ASSUME TypeOK, FencedFirst, RowStep
             PROVE  \/ \E i \in Ids : \/ Lifecycle!Step(i, "unborn", "live")
                                      \/ Lifecycle!Step(i, "live", "deleting")
                                      \/ Lifecycle!Step(i, "deleting", "gone")
                    \/ [i \in Ids |-> Phase(i)]' = [i \in Ids |-> Phase(i)]
  BY DEF Lifecycle!Next
<1>0. row \in [Ids -> Row]
  BY DEF TypeOK, RowTypeOK
<1>1. ASSUME \A i \in Ids : Phase(i)' = Phase(i)
      PROVE  [i \in Ids |-> Phase(i)]' = [i \in Ids |-> Phase(i)]
  BY <1>1
<1>2. CASE row' = row
  BY <1>1, <1>2 DEF Phase, Live
<1>3. ASSUME NEW i \in Ids, NEW new \in Row, Saved(i, new)
      PROVE  [k \in Ids |-> Phase(k)]' = [k \in Ids |-> Phase(k)]
  BY <1>0, <1>1, <1>3 DEF Saved, Named, Phase, Live
<1>4. ASSUME NEW i \in Ids, NEW new \in Row, Inserted(i, new)
      PROVE  Lifecycle!Step(i, "unborn", "live")
  <2>1. Phase(i) = "unborn" /\ Phase(i)' = "live" /\ \A j \in Ids \ {i} : row'[j] = row[j]
    BY <1>0, <1>4 DEF Inserted, Named, Phase, Live
  <2> QED
    BY <2>1, PhaseOf DEF Lifecycle!Step
<1>5. ASSUME NEW i \in Ids, Live(i), Fence(i)
      PROVE  \/ Lifecycle!Step(i, "live", "deleting")
             \/ [k \in Ids |-> Phase(k)]' = [k \in Ids |-> Phase(k)]
  <2>1. /\ row'[i].fenced = TRUE /\ row'[i].state = "live"
        /\ \A j \in Ids \ {i} : row'[j] = row[j]
    BY <1>0, <1>5 DEF Fence, Live, Row
  <2>2. Phase(i)' = "deleting"
    BY <2>1 DEF Phase, Live
  <2>3. CASE row[i].fenced
    <3>1. Phase(i) = "deleting"
      BY <1>5, <2>3 DEF Phase
    <3> QED
      BY <1>1, <2>1, <2>2, <3>1 DEF Phase, Live
  <2>4. CASE ~row[i].fenced
    <3>1. Phase(i) = "live"
      BY <1>5, <2>4 DEF Phase
    <3> QED
      BY <2>1, <2>2, <3>1, PhaseOf DEF Lifecycle!Step
  <2> QED
    BY <2>3, <2>4
<1>6. ASSUME NEW i \in Ids, NEW w \in Workers, Removed(i, w)
      PROVE  Lifecycle!Step(i, "deleting", "gone")
  <2>1. row[i].fenced
    BY <1>6 DEF Removed, FencedFirst, DelPc
  <2>2. Phase(i) = "deleting"
    BY <1>6, <2>1 DEF Removed, Phase
  <2>3. row'[i].state = "gone" /\ \A j \in Ids \ {i} : row'[j] = row[j]
    BY <1>0, <1>6 DEF Removed, Row
  <2>4. Phase(i)' = "gone"
    BY <2>3 DEF Phase, Live
  <2> QED
    BY <2>2, <2>3, <2>4, PhaseOf DEF Lifecycle!Step
<1> QED
  BY <1>2, <1>3, <1>4, <1>5, <1>6 DEF RowStep

(* The registry implements the life cycle PerfJobs takes for granted: the  *)
(* fence of a deletion is never lifted by a late save of update_instance() *)
(* or of the refresher, a row goes only from behind its fence, and a       *)
(* removed row never comes back.                                           *)
THEOREM LifecycleImplemented == Spec => ImplementsLifecycle
<1>1. Init => Lifecycle!Init
  BY DEF Init, NewRow, Lifecycle!Init, Phase, Live
<1>2. RegistryInv /\ [Next]_vars => [Lifecycle!Next]_([i \in Ids |-> Phase(i)])
  BY RowSteps, LifecycleStep DEF RegistryInv
<1> QED
  BY <1>1, <1>2, Invariant, PTL DEF Spec, ImplementsLifecycle, Lifecycle!Spec

-----------------------------------------------------------------------------
(* Who writes which columns. *)

(* A step leaves the fence, the owner and the phase of a row alone; and    *)
(* the name, or the URL, or both.                                          *)
Apart(i)      == row'[i].fenced = row[i].fenced /\ row'[i].managed = row[i].managed
                 /\ row'[i].state = row[i].state
NameStands(i) == Apart(i) /\ row'[i].name = row[i].name
UrlStands(i)  == Apart(i) /\ row'[i].url = row[i].url

(* An UPDATE writes no column whose value the handler has not changed,     *)
(* however old the row is that the handler holds.                          *)
LEMMA MergeLeaves ==
  ASSUME NEW cur, NEW base, NEW new,
         new.fenced = base.fenced, new.managed = base.managed
  PROVE  /\ Merge(cur, base, new).fenced = cur.fenced
         /\ Merge(cur, base, new).managed = cur.managed
         /\ Merge(cur, base, new).state = cur.state
         /\ new.name = base.name => Merge(cur, base, new).name = cur.name
         /\ new.url = base.url => Merge(cur, base, new).url = cur.url
BY DEF Merge, Written

(* What a save leaves alone in every row, its own and the others. *)
LEMMA SaveLeaves ==
  ASSUME row \in [Ids -> Row], NEW k \in Ids, NEW base, NEW new,
         new.fenced = base.fenced, new.managed = base.managed,
         row' = row \/ row' = [row EXCEPT ![k] = Merge(row[k], base, new)],
         NEW i \in Ids
  PROVE  /\ new.name = base.name => NameStands(i)
         /\ new.url = base.url => UrlStands(i)
<1>1. CASE row'[i] = row[i]
  BY <1>1 DEF NameStands, UrlStands, Apart
<1>2. CASE i = k /\ row'[i] = Merge(row[i], base, new)
  BY <1>2, MergeLeaves DEF NameStands, UrlStands, Apart
<1> QED
  BY <1>1, <1>2

(* The refresher's save, from the row it loaded. *)
LEMMA RefreshSaveOwn ==
  ASSUME TypeOK, NEW w \in Workers, RefreshSave(w), NEW i \in Ids
  PROVE  NameStands(i) /\ UrlStands(i)
<1> DEFINE l == local[w]
           new == [l.base EXCEPT !.up = Up(l.answer), !.models = Models(l.answer)]
<1>1. l.id \in Ids /\ l.base \in Row /\ row \in [Ids -> Row]
  BY WorkerFacts, WriterPcs DEF RefreshSave, InCycle, At, TypeOK, RowTypeOK
<1>2. /\ new.fenced = l.base.fenced /\ new.managed = l.base.managed
      /\ new.name = l.base.name /\ new.url = l.base.url
  BY <1>1 DEF Row
<1>3. row' = row \/ row' = [row EXCEPT ![l.id] = Merge(row[l.id], l.base, new)]
  BY DEF RefreshSave
<1> HIDE DEF new
<1> QED
  BY <1>1, <1>2, <1>3, SaveLeaves

(* The end of update_instance() and of an apply. *)
LEMMA UrlSaveOwn ==
  ASSUME TypeOK, NEW w \in Workers, UpdateSave(w) \/ ApplySave(w), NEW i \in Ids
  PROVE  NameStands(i)
<1> DEFINE l == local[w]
           upd == [l.base EXCEPT !.url = l.url, !.up = Up(l.answer), !.models = Models(l.answer)]
           app == [l.base EXCEPT !.url = l.url]
<1>1. l.id \in Ids /\ l.base \in Row /\ row \in [Ids -> Row]
  BY WorkerFacts, WriterPcs DEF UpdateSave, ApplySave, At, TypeOK, RowTypeOK
<1>2. /\ upd.fenced = l.base.fenced /\ upd.managed = l.base.managed /\ upd.name = l.base.name
      /\ app.fenced = l.base.fenced /\ app.managed = l.base.managed /\ app.name = l.base.name
  BY <1>1 DEF Row
<1>3. \/ row' = row
      \/ row' = [row EXCEPT ![l.id] = Merge(row[l.id], l.base, upd)]
      \/ row' = [row EXCEPT ![l.id] = Merge(row[l.id], l.base, app)]
  BY DEF UpdateSave, ApplySave, SaveAndEnd
<1> HIDE DEF upd, app
<1> QED
  BY <1>1, <1>2, <1>3, SaveLeaves

(* A registration that finds its URL registered. *)
LEMMA RegisterSaveOwn ==
  ASSUME TypeOK, NEW w \in Workers, RegisterSave(w), NEW i \in Ids
  PROVE  UrlStands(i)
<1> DEFINE l == local[w]
           new == [l.base EXCEPT !.name = l.name, !.up = Up(l.answer), !.models = Models(l.answer)]
<1>1. l.id \in Ids /\ l.base \in Row /\ row \in [Ids -> Row]
  BY WorkerFacts, WriterPcs DEF RegisterSave, At, TypeOK, RowTypeOK
<1>2. new.fenced = l.base.fenced /\ new.managed = l.base.managed /\ new.url = l.base.url
  BY <1>1 DEF Row
<1>3. row' = row \/ row' = [row EXCEPT ![l.id] = Merge(row[l.id], l.base, new)]
  BY DEF RegisterSave, SaveOr
<1> HIDE DEF new
<1> QED
  BY <1>1, <1>2, <1>3, SaveLeaves

(* A worker that is about to save saves, or dies. *)
LEMMA AtSave ==
  ASSUME NEW w \in Workers, Request(w) \/ Handle(w) \/ Refresh(w) \/ Crash(w),
         pc[w] \in {"save", "upd_save", "apply_save", "reg_save"}
  PROVE  \/ Crash(w)
         \/ pc[w] = "save" /\ RefreshSave(w)
         \/ pc[w] \in {"upd_save", "apply_save"} /\ (UpdateSave(w) \/ ApplySave(w))
         \/ pc[w] = "reg_save" /\ RegisterSave(w)
<1>1. CASE Request(w)
  BY <1>1, Zenon DEF Request, Register, Deploy, Update, Delete, DeleteDeployment, Begin, At
<1>2. CASE Handle(w)
  BY <1>2, Zenon DEF Handle, RegisterProbe, RegisterFind, RegisterSave, Insert, AssignLoad, AssignSave,
     ApplyLoad, ApplySave, UpdateProbe, UpdateSave, DeleteRefused, DeleteName, DeleteUsers,
     DeleteCommit, DeleteAlerts, RecordFence, RecordAlerts, RecordUsers, RecordSave, DeleteRow, At
<1>3. CASE Refresh(w)
  BY <1>3, Zenon DEF Refresh, CycleBegin, RefreshRead, RefreshPods, RefreshProbe, RefreshLoad,
     RefreshSave, RefreshReload, ReplaceBegin, ReplaceCommit, InCycle, At
<1> QED
  BY <1>1, <1>2, <1>3

(* What a worker that is about to save may write, when it moves. *)
LEMMA OwnColumns ==
  ASSUME TypeOK, [Next]_vars, NEW w \in Workers, NEW i \in Ids,
         pc[w] \in {"save", "upd_save", "apply_save", "reg_save"}, pc'[w] # pc[w]
  PROVE  \/ pc[w] = "save" /\ NameStands(i) /\ UrlStands(i)
         \/ pc[w] \in {"upd_save", "apply_save"} /\ NameStands(i)
         \/ pc[w] = "reg_save" /\ UrlStands(i)
<1>1. Request(w) \/ Handle(w) \/ Refresh(w) \/ Crash(w)
  <2>1. ASSUME NEW v \in Workers, Request(v) \/ Handle(v) \/ Refresh(v) \/ Crash(v), v # w
        PROVE  pc'[w] = pc[w]
    BY <2>1, WorkerGoes DEF TypeOK, WorkerTypeOK, Goto
  <2> QED
    BY <2>1 DEF Next, vars, ServerChanges
<1>2. CASE Crash(w)
  BY <1>2 DEF Crash, NameStands, UrlStands, Apart
<1> QED
  BY <1>1, <1>2, AtSave, RefreshSaveOwn, UrlSaveOwn, RegisterSaveOwn

(* A save never takes back what another handler has committed meanwhile:   *)
(* the refresher's writes health only, the end of update_instance() and of *)
(* an apply never the name, a registration never the URL, and none of them *)
(* the fence, however old the row is that they hold.                       *)
THEOREM OwnColumnsOnly == Spec => WritesOwnColumns
<1>1. TypeOK /\ [Next]_vars =>
        \A w \in Workers, i \in Ids :
          /\ pc[w] \in {"save", "upd_save", "apply_save", "reg_save"} /\ pc'[w] # pc[w]
          => \/ pc[w] = "save" /\ Untouched(i)' = Untouched(i)
             \/ pc[w] \in {"upd_save", "apply_save"}
                /\ Untouched(i)' = [Untouched(i) EXCEPT !.url = row'[i].url]
             \/ pc[w] = "reg_save" /\ Untouched(i)' = [Untouched(i) EXCEPT !.name = row'[i].name]
  <2> SUFFICES ASSUME TypeOK, [Next]_vars, NEW w \in Workers, NEW i \in Ids,
                      pc[w] \in {"save", "upd_save", "apply_save", "reg_save"}, pc'[w] # pc[w]
               PROVE  \/ pc[w] = "save" /\ Untouched(i)' = Untouched(i)
                      \/ pc[w] \in {"upd_save", "apply_save"}
                         /\ Untouched(i)' = [Untouched(i) EXCEPT !.url = row'[i].url]
                      \/ pc[w] = "reg_save"
                         /\ Untouched(i)' = [Untouched(i) EXCEPT !.name = row'[i].name]
    OBVIOUS
  <2>1. NameStands(i) /\ UrlStands(i) => Untouched(i)' = Untouched(i)
    BY DEF NameStands, UrlStands, Apart, Untouched
  <2>2. NameStands(i) => Untouched(i)' = [Untouched(i) EXCEPT !.url = row'[i].url]
    BY DEF NameStands, Apart, Untouched
  <2>3. UrlStands(i) => Untouched(i)' = [Untouched(i) EXCEPT !.name = row'[i].name]
    BY DEF UrlStands, Apart, Untouched
  <2> QED
    BY <2>1, <2>2, <2>3, OwnColumns
<1> QED
  BY <1>1, TypeCorrect, PTL DEF Spec, WritesOwnColumns
=============================================================================
