-------------------------- MODULE RepositoryProofs --------------------------
(* Theorems about Repository: whatever users, backend, deployment and lost   *)
(* answers do, for any number of users, folders, names and contents.         *)
EXTENDS Repository, TLAPS, FiniteSetTheorems

-----------------------------------------------------------------------------
(* What an operation has in hand where it stands.                            *)

InHand(o) ==
  /\ o \in Operation
  /\ o.move => o.kind = "transfer"
  /\ o.step = "head" => o.kind \in {"transfer", "upload"}
  /\ o.step \in {"fetch", "put", "remove", "open"} => o.key \in Keys
  /\ o.step \in {"put", "remove", "open"} \/ o.kind = "upload" => o.tag \in Contents
  /\ o.step = "open" => o.kind = "write"
  /\ o.kind = "delete" => o.step = "erase"
  /\ o.kind = "upload" => o.step \in {"head", "put"}
  /\ o.step = "remove" => [src |-> o.key, tag |-> o.tag] \in o.made

InHands == op \in [Users -> Operation \cup {None}] /\ \A u \in Users : op[u] # None => InHand(op[u])

ObjectsInv == ObjectTypes /\ InHands

(* An operation that is handed on is in hand, and nobody else's changes.     *)
LEMMA HandedOn ==
  ASSUME InHands, NEW u \in Users, NEW o, o = None \/ InHand(o), op' = [op EXCEPT ![u] = o]
  PROVE  InHands'
BY DEF InHands, InHand

LEMMA Blanks ==
  ASSUME NEW kind \in {"transfer", "upload", "write", "delete"}, NEW step \in {"head", "open", "erase"}, Folders # {}
  PROVE  Blank(kind, step) \in Operation
BY DEF Blank, Operation

LEMMA Targets ==
  ASSUME NEW u \in Users, op[u] \in Operation, NEW k \in Keys
  PROVE  Target(u, k) \in Keys
BY DEF Target, Operation, Keys

LEMMA StartHands ==
  ASSUME ObjectsInv, NEW u \in Users, NEW o, InHand(o), Start(u, o), UNCHANGED <<bucket, forgone, faults>>
  PROVE  ObjectsInv'
<1>1. InHands'
  BY HandedOn DEF Start, ObjectsInv
<1>2. ObjectTypes'
  BY RequestsAssumption DEF Start, Starts, ObjectsInv, ObjectTypes
<1> QED BY <1>1, <1>2 DEF ObjectsInv

LEMMA BeginHands ==
  ASSUME ObjectsInv, NEW u \in Users, Begin(u)
  PROVE  ObjectsInv'
<1>1. CASE BeginTransfer(u)
  <2>1. PICK f \in Folders, g \in Folders, m \in BOOLEAN, K \in SUBSET Existing(Keys) :
          /\ Start(u, [Blank("transfer", "head") EXCEPT !.move = m, !.to = g, !.todo = K])
          /\ UNCHANGED <<bucket, forgone, faults>>
    BY <1>1 DEF BeginTransfer
  <2> DEFINE o == [Blank("transfer", "head") EXCEPT !.move = m, !.to = g, !.todo = K]
  <2>2. Blank("transfer", "head") \in Operation /\ K \subseteq Keys
    BY Blanks DEF Existing
  <2>3. InHand(o)
    BY <2>2 DEF InHand, Operation, Blank
  <2>4. Start(u, o)
    BY <2>1
  <2> HIDE DEF o
  <2> QED BY <2>1, <2>3, <2>4, StartHands
<1>2. CASE BeginUpload(u)
  <2>1. PICK K \in SUBSET Keys, c \in Contents :
          /\ K # {}
          /\ Start(u, [Blank("upload", "head") EXCEPT !.todo = K, !.tag = c])
          /\ UNCHANGED <<bucket, forgone, faults>>
    BY <1>2 DEF BeginUpload
  <2> DEFINE o == [Blank("upload", "head") EXCEPT !.todo = K, !.tag = c]
  <2>2. Blank("upload", "head") \in Operation
    BY <2>1, Blanks DEF Keys
  <2>3. InHand(o)
    BY <2>2 DEF InHand, Operation, Blank
  <2>4. Start(u, o)
    BY <2>1
  <2> HIDE DEF o
  <2> QED BY <2>1, <2>3, <2>4, StartHands
<1>3. CASE BeginWrite(u)
  <2>1. PICK k \in Keys, c \in Contents :
          /\ Start(u, [Blank("write", "open") EXCEPT !.key = k, !.tag = c])
          /\ UNCHANGED <<bucket, forgone, faults>>
    BY <1>3 DEF BeginWrite
  <2> DEFINE o == [Blank("write", "open") EXCEPT !.key = k, !.tag = c]
  <2>2. Blank("write", "open") \in Operation
    BY <2>1, Blanks DEF Keys
  <2>3. InHand(o)
    BY <2>2 DEF InHand, Operation, Blank
  <2>4. Start(u, o)
    BY <2>1
  <2> HIDE DEF o
  <2> QED BY <2>1, <2>3, <2>4, StartHands
<1>4. CASE BeginDelete(u)
  <2>1. PICK K \in SUBSET Existing(Keys) :
          /\ K # {}
          /\ Start(u, [Blank("delete", "erase") EXCEPT !.todo = K])
          /\ UNCHANGED <<bucket, forgone, faults>>
    BY <1>4 DEF BeginDelete
  <2> DEFINE o == [Blank("delete", "erase") EXCEPT !.todo = K]
  <2>2. Blank("delete", "erase") \in Operation /\ K \subseteq Keys
    BY <2>1, Blanks DEF Keys, Existing
  <2>3. InHand(o)
    BY <2>2 DEF InHand, Operation, Blank
  <2>4. Start(u, o)
    BY <2>1
  <2> HIDE DEF o
  <2> QED BY <2>1, <2>3, <2>4, StartHands
<1> QED BY <1>1, <1>2, <1>3, <1>4 DEF Begin

(* Work hands on what it writes, and stores contents.                        *)
LEMMA Stored ==
  ASSUME ObjectTypes, NEW k \in Keys, NEW c \in Contents \cup {None}, bucket' = [bucket EXCEPT ![k] = c],
         forgone' \in {forgone, Giving(k)}, begun' = begun
  PROVE  ObjectTypes'
BY DEF ObjectTypes, Giving

LEMMA WorkHands ==
  ASSUME ObjectsInv, NEW u \in Users, Work(u)
  PROVE  ObjectsInv'
<1> USE DEF ObjectsInv
<1>a. op[u] \in Operation \/ op[u] = None
  BY DEF InHands
<1>1. CASE Head(u)
  <2>1. PICK k \in op[u].todo :
       LET there == bucket[Target(u, k)]
           next  == IF op[u].kind = "transfer" THEN "fetch" ELSE "put"
           taken == [op[u] EXCEPT !.step = next, !.key = k, !.seen = there]
       IN \/ there = None /\ Goes(u, taken) /\ UNCHANGED forgone
          \/ there # None /\ Goes(u, taken) /\ forgone' = forgone \cup {there}
          \/ /\ there # None /\ op[u].kind = "upload" /\ ~op[u].all
             /\ Goes(u, [taken EXCEPT !.all = TRUE]) /\ forgone' = forgone \cup {there}
          \/ there # None /\ ~op[u].all /\ Goes(u, [op[u] EXCEPT !.todo = @ \ {k}]) /\ UNCHANGED forgone
    BY <1>1 DEF Head
  <2> DEFINE there == bucket[Target(u, k)]
             next  == IF op[u].kind = "transfer" THEN "fetch" ELSE "put"
             taken == [op[u] EXCEPT !.step = next, !.key = k, !.seen = there]
             asked == [taken EXCEPT !.all = TRUE]
             left  == [op[u] EXCEPT !.todo = @ \ {k}]
  <2>2. InHand(op[u]) /\ op[u].step = "head"
    BY <1>1 DEF Head, Busy, InHands
  <2>3. k \in Keys /\ Target(u, k) \in Keys
    BY <2>2, Targets DEF InHand, Operation
  <2>4. there \in Contents \cup {None}
    BY <2>3 DEF ObjectTypes
  <2>5. InHand(taken) /\ InHand(left)
    BY <2>2, <2>3, <2>4 DEF InHand, Operation
  <2>6. InHand(asked)
    <3>1. ASSUME NEW o, InHand(o) PROVE InHand([o EXCEPT !.all = TRUE])
      BY <3>1 DEF InHand, Operation
    <3> HIDE DEF taken
    <3> QED BY <2>5, <3>1
  <2>7. Goes(u, taken) \/ Goes(u, asked) \/ Goes(u, left)
    BY <2>1
  <2>8. forgone' = forgone \/ (there # None /\ forgone' = forgone \cup {there})
    BY <2>1
  <2> HIDE DEF taken, asked, left, there
  <2>9. InHands'
    BY <2>5, <2>6, <2>7, HandedOn DEF Goes
  <2>10. ObjectTypes'
    BY <1>1, <2>4, <2>8 DEF ObjectTypes, Head
  <2> QED BY <2>9, <2>10
<1>2. CASE Copied(u)
  <2> DEFINE o == [op[u] EXCEPT !.step = "check"]
  <2>1. InHand(op[u]) /\ op[u].step = "head"
    BY <1>2 DEF Copied, Busy, InHands
  <2>2. op[u].move => InHand(o)
    BY <2>1 DEF InHand, Operation
  <2>3. (op[u].move /\ Goes(u, o)) \/ Ends(u)
    BY <1>2 DEF Copied
  <2> HIDE DEF o
  <2> QED BY <1>2, <2>2, <2>3, HandedOn DEF Copied, Goes, Ends, objectVars, ObjectTypes
<1>3. CASE Fetch(u)
  <2> DEFINE o == [op[u] EXCEPT !.step = "put", !.tag = bucket[op[u].key]]
  <2>1. InHand(op[u]) /\ op[u].step = "fetch" /\ bucket[op[u].key] # None
    BY <1>3 DEF Fetch, Busy, InHands
  <2>2. bucket[op[u].key] \in Contents
    BY <2>1 DEF InHand, ObjectTypes
  <2>3. InHand(o)
    BY <2>1, <2>2 DEF InHand, Operation
  <2>4. Goes(u, o)
    BY <1>3 DEF Fetch
  <2> HIDE DEF o
  <2> QED BY <1>3, <2>3, <2>4, HandedOn DEF Fetch, Goes, objectVars, ObjectTypes
<1>4. CASE Open(u)
  <2> DEFINE o == [op[u] EXCEPT !.step = "put", !.seen = bucket[op[u].key]]
  <2>1. InHand(op[u]) /\ op[u].step = "open"
    BY <1>4 DEF Open, Busy, InHands
  <2>2. bucket[op[u].key] \in Contents \cup {None}
    BY <2>1 DEF InHand, ObjectTypes
  <2>3. InHand(o)
    BY <2>1, <2>2 DEF InHand, Operation
  <2>4. Goes(u, o)
    BY <1>4 DEF Open
  <2> HIDE DEF o
  <2>5. InHands'
    BY <2>3, <2>4, HandedOn DEF Goes
  <2> QED BY <1>4, <2>2, <2>5 DEF Open, ObjectTypes, Giving
<1>5. CASE Upload(u)
  <2>1. InHand(op[u]) /\ op[u].step = "put"
    BY <1>5 DEF Upload, Busy, InHands
  <2>2. op[u].kind \in {"transfer", "upload"} => InHand(Written(u))
    <3> DEFINE m == [src |-> op[u].key, tag |-> op[u].tag]
               made == IF op[u].move THEN op[u].made \cup {m} ELSE op[u].made
               tag == IF op[u].kind = "transfer" THEN None ELSE op[u].tag
    <3>1. m \in [src : Keys, tag : Contents]
      BY <2>1 DEF InHand
    <3>2. made \in SUBSET [src : Keys, tag : Contents] /\ tag \in Contents \cup {None}
      BY <2>1, <3>1 DEF InHand, Operation
    <3>3. Written(u) = [op[u] EXCEPT !.step = "head", !.todo = @ \ {op[u].key}, !.made = made, !.key = None, !.seen = None, !.tag = tag]
      BY DEF Written
    <3>4. op[u].kind = "upload" => tag \in Contents
      BY <2>1 DEF InHand
    <3> HIDE DEF made, tag
    <3>5. op[u] \in Operation /\ op[u].todo \ {op[u].key} \in SUBSET Keys
      BY <2>1 DEF InHand, Operation
    <3>6. Written(u) \in Operation
      BY <3>2, <3>3, <3>5 DEF Operation
    <3>7. /\ Written(u).step = "head" /\ Written(u).kind = op[u].kind /\ Written(u).move = op[u].move
          /\ Written(u).tag = tag
      BY <3>3, <3>5 DEF Operation
    <3> QED BY <2>1, <3>4, <3>6, <3>7 DEF InHand
  <2>3. InHands'
    <3>1. CASE op[u].kind = "write"
      BY <1>5, <3>1, HandedOn DEF Ends, Upload
    <3>2. CASE op[u].kind # "write"
      <4>1. Goes(u, Written(u)) /\ op[u].kind \in {"transfer", "upload", "delete"}
        BY <1>5, <2>1, <3>2 DEF Upload, InHand, Operation
      <4>2. op[u].kind # "delete"
        BY <2>1 DEF InHand
      <4> QED BY <2>2, <4>1, <4>2, HandedOn DEF Goes
    <3> QED BY <3>1, <3>2
  <2>4. Target(u, op[u].key) \in Keys /\ op[u].tag \in Contents
    BY <2>1, Targets DEF InHand
  <2>5. ObjectTypes'
    BY <1>5, <2>4, Stored DEF Upload, Put
  <2> QED BY <2>3, <2>5
<1>6. CASE Check(u)
  <2>1. PICK m \in op[u].made :
          /\ bucket[Target(u, m.src)] = m.tag
          /\ Goes(u, [op[u] EXCEPT !.step = "remove", !.key = m.src, !.tag = m.tag])
    BY <1>6 DEF Check
  <2> DEFINE o == [op[u] EXCEPT !.step = "remove", !.key = m.src, !.tag = m.tag]
  <2>2. InHand(op[u]) /\ op[u].step = "check"
    BY <1>6 DEF Check, Busy, InHands
  <2>3. m \in [src : Keys, tag : Contents]
    BY <2>2 DEF InHand, Operation
  <2>4. InHand(o)
    BY <2>2, <2>3 DEF InHand, Operation
  <2>5. Goes(u, o)
    BY <2>1
  <2> HIDE DEF o
  <2> QED BY <1>6, <2>4, <2>5, HandedOn DEF Check, Goes, objectVars, ObjectTypes
<1>7. CASE RemoveSource(u)
  <2> DEFINE left == {m \in op[u].made : m.src # op[u].key}
             o == [op[u] EXCEPT !.step = "check", !.made = left, !.key = None, !.tag = None]
  <2>1. InHand(op[u]) /\ op[u].step = "remove"
    BY <1>7 DEF RemoveSource, Busy, InHands
  <2>2. InHand(o)
    BY <2>1 DEF InHand, Operation
  <2>3. Goes(u, o) \/ Ends(u)
    BY <1>7 DEF RemoveSource
  <2> HIDE DEF o
  <2>4. InHands'
    BY <2>2, <2>3, HandedOn DEF Goes, Ends
  <2> QED BY <1>7, <2>1, <2>4, Stored DEF RemoveSource, Remove, InHand
<1>8. CASE Erase(u)
  <2>1. PICK k \in op[u].todo :
          /\ forgone' = Giving(k)
          /\ bucket' = [bucket EXCEPT ![k] = None]
          /\ IF op[u].todo = {k} THEN Ends(u) ELSE Goes(u, [op[u] EXCEPT !.todo = @ \ {k}])
    BY <1>8 DEF Erase
  <2> DEFINE o == [op[u] EXCEPT !.todo = @ \ {k}]
  <2>2. InHand(op[u]) /\ op[u].step = "erase"
    BY <1>8 DEF Erase, Busy, InHands
  <2>3. InHand(o) /\ k \in Keys
    BY <2>2 DEF InHand, Operation
  <2>4. Goes(u, o) \/ Ends(u)
    BY <2>1
  <2> HIDE DEF o
  <2> QED BY <1>8, <2>1, <2>3, <2>4, HandedOn, Stored DEF Erase, Goes, Ends
<1> QED BY <1>1, <1>2, <1>3, <1>4, <1>5, <1>6, <1>7, <1>8 DEF Work

LEMMA OthersHands ==
  ASSUME ObjectsInv, NEW u \in Users, Stop(u) \/ AnswerLost(u)
  PROVE  ObjectsInv'
<1>1. InHands'
  BY HandedOn DEF Stop, AnswerLost, Ends, ObjectsInv
<1>2. CASE Stop(u)
  BY <1>1, <1>2 DEF Stop, objectVars, ObjectsInv, ObjectTypes
<1>3. CASE AnswerLost(u)
  <2>1. InHand(op[u]) /\ op[u].step \in {"put", "remove"}
    BY <1>3 DEF AnswerLost, Busy, ObjectsInv, InHands
  <2>2. Target(u, op[u].key) \in Keys /\ op[u].key \in Keys /\ op[u].tag \in Contents
    BY <2>1, Targets DEF InHand
  <2>3. ObjectTypes'
    BY <1>3, <2>2, Stored DEF AnswerLost, Put, Remove, ObjectsInv
  <2> QED BY <1>1, <2>3 DEF ObjectsInv
<1> QED BY <1>2, <1>3

(* The backend's browser.                                                    *)
LEMMA BackendHands ==
  ASSUME ObjectsInv, UNCHANGED transferVars, NEW k \in Keys,
         BackendDelete(k) \/ \E c \in Contents : BackendPut(k, c)
  PROVE  ObjectsInv'
<1>1. InHands'
  BY DEF ObjectsInv, InHands, transferVars
<1>2. ObjectTypes'
  BY RequestsAssumption DEF ObjectsInv, ObjectTypes, BackendDelete, BackendPut, Giving, Starts
<1> QED BY <1>1, <1>2 DEF ObjectsInv

LEMMA ObjectsStep ==
  ASSUME ObjectsInv, [Next]_vars
  PROVE  ObjectsInv'
<1>1. ASSUME NEW u \in Users, Begin(u) \/ Work(u) \/ Stop(u) \/ AnswerLost(u) PROVE ObjectsInv'
  BY <1>1, BeginHands, WorkHands, OthersHands
<1>2. ASSUME NEW k \in Keys, BackendDelete(k) \/ \E c \in Contents : BackendPut(k, c), UNCHANGED transferVars
      PROVE  ObjectsInv'
  BY <1>2, BackendHands
<1>3. ASSUME UNCHANGED <<objectVars, op>> PROVE ObjectsInv'
  BY <1>3 DEF ObjectsInv, ObjectTypes, InHands, objectVars
<1> QED BY <1>1, <1>2, <1>3 DEF Next, Objects, Sync, vars, transferVars

LEMMA ObjectsStart == Init => ObjectsInv
BY SeedsAssumption DEF Init, ObjectsInv, ObjectTypes, InHands

(* Types of all variables.                                                   *)
LEMMA FaultsCounted ==
  ASSUME faults \in 0..MaxFaults, [Next]_vars
  PROVE  faults' \in 0..MaxFaults
<1>1. ASSUME NEW u \in Users, Begin(u) \/ Work(u) \/ Stop(u) PROVE faults' = faults
  <2>1. Begin(u) => faults' = faults
    BY DEF Begin, BeginTransfer, BeginUpload, BeginWrite, BeginDelete
  <2>2. Work(u) => faults' = faults
    BY DEF Work, Head, Copied, Fetch, Open, Upload, Check, RemoveSource, Erase
  <2> QED BY <1>1, <2>1, <2>2 DEF Stop
<1>2. ASSUME NEW u \in Users, AnswerLost(u) PROVE faults < MaxFaults /\ faults' = faults + 1
  BY <1>2 DEF AnswerLost
<1> QED BY <1>1, <1>2, FaultsAssumption DEF Next, Objects, Sync, vars, transferVars

LEMMA SyncTyped ==
  ASSUME SyncTypes, ObjectTypes, [Next]_vars
  PROVE  SyncTypes'
<1>1. ASSUME UNCHANGED syncVars PROVE SyncTypes'
  BY <1>1 DEF SyncTypes, syncVars
<1>2. ASSUME Script PROVE SyncTypes'
  <2> USE DEF SyncTypes
  <2>a. \A n \in Names : InBucket(n) \in Contents \cup {None}
    BY RepoAssumption DEF InBucket, ObjectTypes, Keys
  <2>1. CASE List
    BY <2>1 DEF List, Phase, Entries
  <2>2. CASE SyncFile
    BY <2>2, <2>a DEF SyncFile, Entries
  <2>3. CASE Prepare
    BY <2>3, RepoAssumption DEF Prepare, Phase
  <2>4. CASE Compare
    BY <2>4 DEF Compare, Placed, Entries
  <2>5. CASE Wipe
    BY <2>5 DEF Wipe, Entries
  <2>6. CASE Wiped
    BY <2>6 DEF Wiped, Phase, Entries
  <2>7. CASE Copy
    BY <2>7 DEF Copy, Entries
  <2>8. CASE Placing
    BY <2>8 DEF Placing, Phase
  <2>9. CASE Touch
    BY <2>9 DEF Touch, Phase
  <2>10. CASE Poll
    BY <2>10 DEF Poll, Phase
  <2> QED BY <1>2, <2>1, <2>2, <2>3, <2>4, <2>5, <2>6, <2>7, <2>8, <2>9, <2>10 DEF Script
<1>3. ASSUME TritonStarts \/ ScriptRestarts PROVE SyncTypes'
  BY <1>3 DEF SyncTypes, TritonStarts, ScriptRestarts, Entries
<1> QED BY <1>1, <1>2, <1>3 DEF Next, Objects, Sync, vars

(* Every variable has its type, for any number of users, folders, names and  *)
(* contents, and whatever is in the bucket at the beginning.                 *)
THEOREM TypeCorrect == Spec => []TypeOK
<1> DEFINE Typed == ObjectsInv /\ faults \in 0..MaxFaults /\ SyncTypes
<1>1. Init => Typed
  BY ObjectsStart, SeedsAssumption DEF Init, SyncTypes, Entries
<1>2. Typed /\ [Next]_vars => Typed'
  BY ObjectsStep, FaultsCounted, SyncTyped DEF ObjectsInv
<1>3. Typed => TypeOK
  BY DEF TypeOK, ObjectsInv, InHands, InHand, TransferTypes
<1> QED BY <1>1, <1>2, <1>3, PTL DEF Spec

-----------------------------------------------------------------------------
(* A content is nowhere lost while nobody forgoes it, although every move    *)
(* under way will remove its sources: it has made a copy of each, beside the *)
(* one it was copied from.                                                   *)

Copies(c) == {k \in Keys : bucket[k] = c}
Owed(c) == {x \in Users \X Keys : op[x[1]] # None /\ \E m \in op[x[1]].made : m.src = x[2] /\ m.tag = c}

Covered(c) ==
  \/ c \in forgone
  \/ Copies(c) = {} /\ Owed(c) = {}
  \/ Cardinality(Owed(c)) < Cardinality(Copies(c))

(* Who writes over an object has been told to; what is copied is still there.*)
Agreed(o) ==
  /\ o.step \in {"fetch", "put"} => o.seen \in {None} \cup forgone
  /\ o.step = "put" /\ o.kind = "transfer" => o.tag \in forgone \/ Copies(o.tag) # {}

CoverInv ==
  /\ ObjectsInv
  /\ \A c \in Contents : Covered(c)
  /\ \A u \in Users : op[u] # None => Agreed(op[u])

(* What a step may do to the copies of a content that is not forgone.        *)
Spares(c) == Copies(c) \subseteq Copies(c)' /\ Owed(c)' \subseteq Owed(c)
Doubles(c) == /\ Copies(c) # {}
              /\ \E k \in Keys \ Copies(c), x \in Users \X Keys :
                   Copies(c)' = Copies(c) \cup {k} /\ Owed(c)' \subseteq Owed(c) \cup {x}
Settles(c) == \E k \in Copies(c), x \in Owed(c) :
                Copies(c)' = Copies(c) \ {k} /\ Owed(c)' \subseteq Owed(c) \ {x}
Fair(c) == c \in forgone' \/ Spares(c) \/ Doubles(c) \/ Settles(c)
Keeps(c) == Copies(c) # {} => c \in forgone' \/ Copies(c)' # {}

LEMMA CountsFinite ==
  ASSUME NEW c
  PROVE  /\ IsFiniteSet(Copies(c)) /\ IsFiniteSet(Owed(c))
         /\ IsFiniteSet(Copies(c)') /\ IsFiniteSet(Owed(c)')
         /\ Cardinality(Copies(c)) \in Nat /\ Cardinality(Owed(c)) \in Nat
         /\ Cardinality(Copies(c)') \in Nat /\ Cardinality(Owed(c)') \in Nat
<1>1. IsFiniteSet(Keys) /\ IsFiniteSet(Users \X Keys)
  BY FS_Product, FiniteAssumption DEF Keys
<1>2. /\ Copies(c) \subseteq Keys /\ Owed(c) \subseteq Users \X Keys
      /\ Copies(c)' \subseteq Keys /\ Owed(c)' \subseteq Users \X Keys
  BY DEF Copies, Owed
<1>3. IsFiniteSet(Copies(c)) /\ IsFiniteSet(Owed(c)) /\ IsFiniteSet(Copies(c)') /\ IsFiniteSet(Owed(c)')
  BY <1>1, <1>2, FS_Subset
<1> QED BY <1>3, FS_CardinalityType

(* Whatever a fair step does, a content that is not forgone stays covered,   *)
(* and is not lost.                                                          *)
LEMMA FairCovers ==
  ASSUME NEW c, Covered(c), Fair(c), forgone \subseteq forgone'
  PROVE  Covered(c)' /\ Keeps(c)
<1>f. /\ IsFiniteSet(Copies(c)) /\ IsFiniteSet(Owed(c))
      /\ IsFiniteSet(Copies(c)') /\ IsFiniteSet(Owed(c)')
      /\ Cardinality(Copies(c)) \in Nat /\ Cardinality(Owed(c)) \in Nat
      /\ Cardinality(Copies(c)') \in Nat /\ Cardinality(Owed(c)') \in Nat
  BY CountsFinite
<1>1. CASE c \in forgone'
  BY <1>1 DEF Covered, Keeps
<1>2. CASE c \notin forgone' /\ Spares(c)
  <2>1. Cardinality(Copies(c)) <= Cardinality(Copies(c)') /\ Cardinality(Owed(c)') <= Cardinality(Owed(c))
    BY <1>2, <1>f, FS_Subset DEF Spares
  <2>2. CASE Copies(c) = {} /\ Owed(c) = {}
    <3>1. Owed(c)' = {} /\ Cardinality(Owed(c)') = 0
      BY <1>2, <2>2, FS_EmptySet DEF Spares
    <3>2. Copies(c)' = {} \/ Cardinality(Copies(c)') > 0
      BY <1>f, FS_EmptySet
    <3> QED BY <2>2, <3>1, <3>2 DEF Covered, Keeps
  <2>3. CASE Cardinality(Owed(c)) < Cardinality(Copies(c))
    BY <1>2, <1>f, <2>1, <2>3 DEF Covered, Keeps, Spares
  <2> QED BY <1>2, <2>2, <2>3 DEF Covered
<1>3. CASE c \notin forgone' /\ Doubles(c)
  <2>1. PICK k \in Keys \ Copies(c), x \in Users \X Keys :
               Copies(c)' = Copies(c) \cup {k} /\ Owed(c)' \subseteq Owed(c) \cup {x}
    BY <1>3 DEF Doubles
  <2>2. Cardinality(Owed(c)) < Cardinality(Copies(c))
    BY <1>3 DEF Covered, Doubles
  <2>3. Cardinality(Copies(c)') = Cardinality(Copies(c)) + 1
    BY <1>f, <2>1, FS_AddElement
  <2>4. IsFiniteSet(Owed(c) \cup {x}) /\ Cardinality(Owed(c) \cup {x}) <= Cardinality(Owed(c)) + 1
    <3>1. /\ IsFiniteSet(Owed(c) \cup {x})
          /\ Cardinality(Owed(c) \cup {x}) = IF x \in Owed(c) THEN Cardinality(Owed(c)) ELSE Cardinality(Owed(c)) + 1
      BY <1>f, FS_AddElement, Zenon
    <3> QED BY <1>f, <3>1
  <2>5. Cardinality(Owed(c)') <= Cardinality(Owed(c)) + 1
    BY <1>f, <2>1, <2>4, FS_Subset, FS_CardinalityType
  <2> QED BY <1>f, <2>1, <2>2, <2>3, <2>5 DEF Covered, Keeps
<1>4. CASE c \notin forgone' /\ Settles(c)
  <2>1. PICK k \in Copies(c), x \in Owed(c) :
               Copies(c)' = Copies(c) \ {k} /\ Owed(c)' \subseteq Owed(c) \ {x}
    BY <1>4 DEF Settles
  <2>2. Cardinality(Owed(c)) < Cardinality(Copies(c))
    BY <1>4, <2>1 DEF Covered
  <2>3. Cardinality(Copies(c)') = Cardinality(Copies(c)) - 1
    BY <1>f, <2>1, FS_RemoveElement
  <2>4. IsFiniteSet(Owed(c) \ {x}) /\ Cardinality(Owed(c) \ {x}) = Cardinality(Owed(c)) - 1
    BY <1>f, <2>1, FS_RemoveElement
  <2>5. Cardinality(Owed(c)') <= Cardinality(Owed(c)) - 1
    BY <1>f, <2>1, <2>4, FS_Subset, FS_CardinalityType
  <2>6. Cardinality(Owed(c)') < Cardinality(Copies(c)') /\ Cardinality(Copies(c)') > 0
    BY <1>f, <2>2, <2>3, <2>5
  <2>7. Copies(c)' # {}
    BY <2>6, FS_EmptySet
  <2> QED BY <2>6, <2>7 DEF Covered, Keeps
<1> QED BY <1>1, <1>2, <1>3, <1>4 DEF Fair

(* The debts of an operation: nobody else's change with it.                  *)
LEMMA OwedFewer ==
  ASSUME InHands, NEW u \in Users, NEW o, op' = [op EXCEPT ![u] = o],
         o = None \/ o.made = {} \/ (op[u] # None /\ o.made \subseteq op[u].made), NEW c
  PROVE  Owed(c)' \subseteq Owed(c)
BY DEF Owed, InHands

LEMMA CopiesOf ==
  ASSUME ObjectTypes, NEW k \in Keys, NEW d, bucket' = [bucket EXCEPT ![k] = d], NEW c
  PROVE  Copies(c)' = IF d = c THEN Copies(c) \cup {k} ELSE Copies(c) \ {k}
BY DEF Copies, ObjectTypes

LEMMA SparesSame ==
  ASSUME InHands, NEW u \in Users, NEW o, op' = [op EXCEPT ![u] = o], bucket' = bucket,
         o = None \/ o.made = {} \/ (op[u] # None /\ o.made \subseteq op[u].made), NEW c
  PROVE  Spares(c)
BY OwedFewer DEF Spares, Copies

LEMMA ReplacesFairly ==
  ASSUME ObjectTypes, NEW k \in Keys, NEW d, bucket' = [bucket EXCEPT ![k] = d], bucket[k] \in {None} \cup forgone',
         NEW c \in Contents, c \notin forgone', Owed(c)' \subseteq Owed(c)
  PROVE  Spares(c)
BY CopiesOf, ContentsAssumption DEF Spares, Copies

LEMMA BeginFair ==
  ASSUME CoverInv, NEW u \in Users, Begin(u), NEW c \in Contents
  PROVE  Fair(c)
<1>1. PICK o : op' = [op EXCEPT ![u] = o] /\ o.made = {}
  <2>1. ASSUME NEW f, NEW g, NEW m, NEW K, Start(u, [Blank("transfer", "head") EXCEPT !.move = m, !.to = g, !.todo = K])
        PROVE  \E o : op' = [op EXCEPT ![u] = o] /\ o.made = {}
    <3> DEFINE o == [Blank("transfer", "head") EXCEPT !.move = m, !.to = g, !.todo = K]
    <3>1. o.made = {}
      BY DEF Blank
    <3>2. op' = [op EXCEPT ![u] = o]
      BY <2>1 DEF Start
    <3> HIDE DEF o
    <3> QED BY <3>1, <3>2
  <2>2. ASSUME NEW K, NEW d, Start(u, [Blank("upload", "head") EXCEPT !.todo = K, !.tag = d])
        PROVE  \E o : op' = [op EXCEPT ![u] = o] /\ o.made = {}
    <3> DEFINE o == [Blank("upload", "head") EXCEPT !.todo = K, !.tag = d]
    <3>1. o.made = {}
      BY DEF Blank
    <3>2. op' = [op EXCEPT ![u] = o]
      BY <2>2 DEF Start
    <3> HIDE DEF o
    <3> QED BY <3>1, <3>2
  <2>3. ASSUME NEW k, NEW d, Start(u, [Blank("write", "open") EXCEPT !.key = k, !.tag = d])
        PROVE  \E o : op' = [op EXCEPT ![u] = o] /\ o.made = {}
    <3> DEFINE o == [Blank("write", "open") EXCEPT !.key = k, !.tag = d]
    <3>1. o.made = {}
      BY DEF Blank
    <3>2. op' = [op EXCEPT ![u] = o]
      BY <2>3 DEF Start
    <3> HIDE DEF o
    <3> QED BY <3>1, <3>2
  <2>4. ASSUME NEW K, Start(u, [Blank("delete", "erase") EXCEPT !.todo = K])
        PROVE  \E o : op' = [op EXCEPT ![u] = o] /\ o.made = {}
    <3> DEFINE o == [Blank("delete", "erase") EXCEPT !.todo = K]
    <3>1. o.made = {}
      BY DEF Blank
    <3>2. op' = [op EXCEPT ![u] = o]
      BY <2>4 DEF Start
    <3> HIDE DEF o
    <3> QED BY <3>1, <3>2
  <2> QED BY <2>1, <2>2, <2>3, <2>4 DEF Begin, BeginTransfer, BeginUpload, BeginWrite, BeginDelete
<1>2. bucket' = bucket
  BY DEF Begin, BeginTransfer, BeginUpload, BeginWrite, BeginDelete
<1> QED BY <1>1, <1>2, SparesSame DEF Fair, CoverInv, ObjectsInv

(* A PUT that is accepted, and what the operation owes for it.               *)
LEMMA PutFair ==
  ASSUME CoverInv, NEW u \in Users, Busy(u, "put"), Put(Target(u, op[u].key), op[u].tag, op[u].seen), forgone' = forgone,
         op' = [op EXCEPT ![u] = None] \/ op' = [op EXCEPT ![u] = Written(u)],
         NEW c \in Contents
  PROVE  Fair(c)
<1>1. InHand(op[u]) /\ op[u] # None /\ Agreed(op[u]) /\ ObjectTypes /\ InHands /\ op[u].step = "put"
  BY DEF CoverInv, ObjectsInv, InHands, Busy
<1> DEFINE k == Target(u, op[u].key)
<1>2. k \in Keys /\ op[u].key \in Keys /\ op[u].tag \in Contents
  BY <1>1, Targets DEF InHand
<1>3. bucket[k] \in {None} \cup forgone /\ bucket' = [bucket EXCEPT ![k] = op[u].tag]
  BY <1>1 DEF Put, Agreed
<1> HIDE DEF k
<1>4. CASE op' = [op EXCEPT ![u] = None] \/ ~op[u].move \/ op[u].tag # c
  <2>1. Owed(c)' \subseteq Owed(c)
    <3>1. CASE op' = [op EXCEPT ![u] = None]
      BY <1>1, <3>1, OwedFewer
    <3>2. CASE op' = [op EXCEPT ![u] = Written(u)] /\ ~op[u].move
      <4>1. Written(u).made = op[u].made
        BY <1>1, <3>2 DEF Written, InHand, Operation
      <4> QED BY <1>1, <3>2, <4>1, OwedFewer
    <3>3. CASE op' = [op EXCEPT ![u] = Written(u)] /\ op[u].tag # c
      <4>1. \A m \in Written(u).made : m \in op[u].made \/ m.tag # c
        BY <1>1, <3>3 DEF Written, InHand, Operation
      <4>2. ASSUME NEW x \in Owed(c)' PROVE x \in Owed(c)
        BY <1>1, <3>3, <4>1 DEF Owed, InHands
      <4> QED BY <4>2
    <3> QED BY <1>4, <3>1, <3>2, <3>3
  <2> QED BY <1>1, <1>2, <1>3, <2>1, ReplacesFairly DEF Fair
<1>5. CASE op' = [op EXCEPT ![u] = Written(u)] /\ op[u].move /\ op[u].tag = c /\ c \notin forgone
  <2>1. Copies(c) # {}
    BY <1>1, <1>5 DEF InHand, Agreed
  <2>2. k \notin Copies(c)
    BY <1>3, <1>5, ContentsAssumption DEF Copies
  <2>3. Copies(c)' = Copies(c) \cup {k}
    BY <1>1, <1>2, <1>3, <1>5, CopiesOf
  <2>4. \A m \in Written(u).made : m \in op[u].made \/ m.src = op[u].key
    BY <1>1, <1>5 DEF Written, InHand, Operation
  <2>5. ASSUME NEW x \in Owed(c)' PROVE x \in Owed(c) \cup {<<u, op[u].key>>}
    BY <1>1, <1>5, <2>4 DEF Owed, InHands
  <2>6. Doubles(c)
    BY <1>2, <2>1, <2>2, <2>3, <2>5 DEF Doubles
  <2> QED BY <2>6 DEF Fair
<1> QED BY <1>4, <1>5 DEF Fair

(* The source of a copy goes: a debt less.                                   *)
LEMMA RemoveFair ==
  ASSUME CoverInv, NEW u \in Users, Busy(u, "remove"), Remove(op[u].key, op[u].tag), forgone' = forgone,
         NEW o, op' = [op EXCEPT ![u] = o],
         o = None \/ o.made \subseteq {m \in op[u].made : m.src # op[u].key},
         NEW c \in Contents
  PROVE  Fair(c)
<1>1. InHand(op[u]) /\ op[u] # None /\ ObjectTypes /\ InHands /\ op[u].step = "remove"
  BY DEF CoverInv, ObjectsInv, InHands, Busy
<1>2. op[u].key \in Keys /\ op[u].tag \in Contents /\ [src |-> op[u].key, tag |-> op[u].tag] \in op[u].made
  BY <1>1 DEF InHand
<1>3. Owed(c)' \subseteq Owed(c)
  BY <1>1, OwedFewer
<1>4. bucket[op[u].key] = op[u].tag /\ bucket' = [bucket EXCEPT ![op[u].key] = None]
  BY DEF Remove
<1>5. CASE op[u].tag # c
  <2>1. Copies(c)' = Copies(c)
    BY <1>1, <1>2, <1>4, <1>5, CopiesOf, ContentsAssumption DEF Copies
  <2> QED BY <1>3, <2>1 DEF Fair, Spares
<1>6. CASE op[u].tag = c
  <2> DEFINE x == <<u, op[u].key>>
  <2>1. op[u].key \in Copies(c)
    BY <1>2, <1>4, <1>6 DEF Copies
  <2>4. Copies(c)' = Copies(c) \ {op[u].key}
    BY <1>1, <1>2, <1>4, CopiesOf, ContentsAssumption
  <2>2. x \in Owed(c)
    BY <1>1, <1>2, <1>6 DEF Owed
  <2>3. x \notin Owed(c)'
    BY <1>1 DEF Owed, InHands
  <2> QED BY <1>3, <2>1, <2>2, <2>3, <2>4 DEF Fair, Settles
<1> QED BY <1>5, <1>6

LEMMA WorkFair ==
  ASSUME CoverInv, NEW u \in Users, Work(u), NEW c \in Contents
  PROVE  Fair(c)
<1>a. ObjectTypes /\ InHands /\ (op[u] # None => InHand(op[u]) /\ Agreed(op[u]))
  BY DEF CoverInv, ObjectsInv, InHands
<1>s. ASSUME NEW o, Goes(u, o) \/ Ends(u), bucket' = bucket, op[u] # None, o.made = op[u].made PROVE Fair(c)
  <2>1. CASE Goes(u, o)
    BY <1>a, <1>s, <2>1, SparesSame DEF Goes, Fair
  <2>2. CASE Ends(u)
    BY <1>a, <1>s, <2>2, SparesSame DEF Ends, Fair
  <2> QED BY <1>s, <2>1, <2>2
<1>1. CASE Head(u)
  <2>1. PICK k \in op[u].todo :
       LET there == bucket[Target(u, k)]
           next  == IF op[u].kind = "transfer" THEN "fetch" ELSE "put"
           taken == [op[u] EXCEPT !.step = next, !.key = k, !.seen = there]
       IN Goes(u, taken) \/ Goes(u, [taken EXCEPT !.all = TRUE]) \/ Goes(u, [op[u] EXCEPT !.todo = @ \ {k}])
    BY <1>1 DEF Head
  <2>2. op[u] # None /\ op[u] \in Operation /\ bucket' = bucket
    BY <1>1, <1>a DEF Head, Busy, InHand
  <2>3. PICK o : Goes(u, o) /\ o.made = op[u].made
    <3> DEFINE there == bucket[Target(u, k)]
               next  == IF op[u].kind = "transfer" THEN "fetch" ELSE "put"
               taken == [op[u] EXCEPT !.step = next, !.key = k, !.seen = there]
               asked == [taken EXCEPT !.all = TRUE]
               left  == [op[u] EXCEPT !.todo = @ \ {k}]
    <3>1. taken.made = op[u].made /\ left.made = op[u].made
      BY <2>2 DEF Operation
    <3>2. asked.made = op[u].made
      BY <2>2 DEF Operation
    <3>3. Goes(u, taken) \/ Goes(u, asked) \/ Goes(u, left)
      BY <2>1
    <3> HIDE DEF taken, asked, left
    <3> QED BY <3>1, <3>2, <3>3
  <2> QED BY <1>s, <2>2, <2>3
<1>2. CASE Copied(u)
  <2> DEFINE o == [op[u] EXCEPT !.step = "check"]
  <2>1. op[u] # None /\ (Goes(u, o) \/ Ends(u)) /\ bucket' = bucket
    BY <1>2 DEF Copied, Busy, objectVars
  <2>2. o.made = op[u].made
    BY <1>a, <2>1 DEF InHand, Operation
  <2> HIDE DEF o
  <2> QED BY <1>s, <2>1, <2>2
<1>3. CASE Fetch(u)
  <2> DEFINE o == [op[u] EXCEPT !.step = "put", !.tag = bucket[op[u].key]]
  <2>1. op[u] # None /\ Goes(u, o) /\ bucket' = bucket
    BY <1>3 DEF Fetch, Busy, objectVars
  <2>2. o.made = op[u].made
    BY <1>a, <2>1 DEF InHand, Operation
  <2> HIDE DEF o
  <2> QED BY <1>s, <2>1, <2>2
<1>4. CASE Open(u)
  <2> DEFINE o == [op[u] EXCEPT !.step = "put", !.seen = bucket[op[u].key]]
  <2>1. op[u] # None /\ Goes(u, o) /\ bucket' = bucket
    BY <1>4 DEF Open, Busy
  <2>2. o.made = op[u].made
    BY <1>a, <2>1 DEF InHand, Operation
  <2> HIDE DEF o
  <2> QED BY <1>s, <2>1, <2>2
<1>5. CASE Upload(u)
  BY <1>5, PutFair DEF Upload, Goes, Ends
<1>6. CASE Check(u)
  <2>1. PICK m \in op[u].made : Goes(u, [op[u] EXCEPT !.step = "remove", !.key = m.src, !.tag = m.tag])
    BY <1>6 DEF Check
  <2> DEFINE o == [op[u] EXCEPT !.step = "remove", !.key = m.src, !.tag = m.tag]
  <2>2. op[u] # None /\ Goes(u, o) /\ bucket' = bucket
    BY <1>6, <2>1 DEF Check, Busy, objectVars
  <2>3. o.made = op[u].made
    BY <1>a, <2>2 DEF InHand, Operation
  <2> HIDE DEF o
  <2> QED BY <1>s, <2>2, <2>3
<1>7. CASE RemoveSource(u)
  <2> DEFINE left == {m \in op[u].made : m.src # op[u].key}
             o == [op[u] EXCEPT !.step = "check", !.made = left, !.key = None, !.tag = None]
  <2>1. op[u] # None /\ (Goes(u, o) \/ Ends(u))
    BY <1>7 DEF RemoveSource, Busy
  <2>2. o.made = left
    BY <1>a, <2>1 DEF InHand, Operation
  <2>3. Busy(u, "remove") /\ Remove(op[u].key, op[u].tag) /\ forgone' = forgone
    BY <1>7 DEF RemoveSource
  <2> HIDE DEF o
  <2>4. CASE Goes(u, o)
    BY <2>2, <2>3, <2>4, RemoveFair DEF Goes
  <2>5. CASE Ends(u)
    BY <2>3, <2>5, RemoveFair DEF Ends
  <2> QED BY <2>1, <2>4, <2>5
<1>8. CASE Erase(u)
  <2>1. PICK k \in op[u].todo :
          /\ forgone' = Giving(k)
          /\ bucket' = [bucket EXCEPT ![k] = None]
          /\ Ends(u) \/ Goes(u, [op[u] EXCEPT !.todo = @ \ {k}])
    BY <1>8 DEF Erase
  <2> DEFINE o == [op[u] EXCEPT !.todo = @ \ {k}]
  <2>2. op[u] # None /\ op[u] \in Operation /\ k \in Keys
    BY <1>8, <1>a DEF Erase, Busy, InHand, Operation
  <2>3. o.made = op[u].made
    BY <2>2 DEF Operation
  <2>4. Ends(u) \/ Goes(u, o)
    BY <2>1
  <2> HIDE DEF o
  <2>5. Owed(c)' \subseteq Owed(c)
    BY <1>a, <2>2, <2>3, <2>4, OwedFewer DEF Goes, Ends
  <2>6. c \in forgone' \/ Copies(c) \subseteq Copies(c)'
    BY <1>a, <2>1, <2>2, CopiesOf, ContentsAssumption DEF Giving, Copies
  <2> QED BY <2>5, <2>6 DEF Fair, Spares
<1> QED BY <1>1, <1>2, <1>3, <1>4, <1>5, <1>6, <1>7, <1>8 DEF Work

LEMMA StepFair ==
  ASSUME CoverInv, [Next]_vars, NEW c \in Contents
  PROVE  Fair(c)
<1>1. ASSUME NEW u \in Users, Stop(u) PROVE Fair(c)
  BY <1>1, SparesSame DEF Stop, Ends, objectVars, CoverInv, ObjectsInv, Fair
<1>2. ASSUME NEW u \in Users, AnswerLost(u) PROVE Fair(c)
  <2>1. CASE Busy(u, "put") /\ Put(Target(u, op[u].key), op[u].tag, op[u].seen)
    BY <1>2, <2>1, PutFair DEF AnswerLost, Ends
  <2>2. CASE Busy(u, "remove") /\ Remove(op[u].key, op[u].tag)
    BY <1>2, <2>2, RemoveFair DEF AnswerLost, Ends
  <2> QED BY <1>2, <2>1, <2>2 DEF AnswerLost
<1>3. ASSUME NEW k \in Keys, BackendDelete(k) \/ \E d \in Contents : BackendPut(k, d), UNCHANGED transferVars
      PROVE  Fair(c)
  <2>1. PICK d : bucket' = [bucket EXCEPT ![k] = d] /\ forgone' = Giving(k)
    BY <1>3 DEF BackendDelete, BackendPut
  <2>2. Owed(c)' = Owed(c)
    BY <1>3 DEF Owed, transferVars
  <2>3. c \in forgone' \/ Copies(c) \subseteq Copies(c)'
    BY <1>3, <2>1, CopiesOf, ContentsAssumption DEF Giving, Copies, CoverInv, ObjectsInv
  <2> QED BY <2>2, <2>3 DEF Fair, Spares
<1>4. ASSUME UNCHANGED <<objectVars, op>> PROVE Fair(c)
  BY <1>4 DEF Fair, Spares, Copies, Owed, objectVars
<1> QED BY <1>1, <1>2, <1>3, <1>4, BeginFair, WorkFair DEF Next, Objects, Sync, vars, transferVars

LEMMA ForgoneGrows ==
  ASSUME [Next]_vars
  PROVE  forgone \subseteq forgone'
<1>1. ASSUME NEW u \in Users, Begin(u) PROVE forgone \subseteq forgone'
  BY <1>1 DEF Begin, BeginTransfer, BeginUpload, BeginWrite, BeginDelete
<1>2. ASSUME NEW u \in Users, Work(u) PROVE forgone \subseteq forgone'
  BY <1>2 DEF Work, Head, Copied, Fetch, Open, Upload, Check, RemoveSource, Erase, objectVars, Giving
<1>3. ASSUME NEW u \in Users, Stop(u) \/ AnswerLost(u) PROVE forgone \subseteq forgone'
  BY <1>3 DEF Stop, AnswerLost, objectVars
<1>4. ASSUME NEW k \in Keys, BackendDelete(k) \/ \E c \in Contents : BackendPut(k, c) PROVE forgone \subseteq forgone'
  BY <1>4 DEF BackendDelete, BackendPut, Giving
<1> QED BY <1>1, <1>2, <1>3, <1>4 DEF Next, Objects, Sync, vars, objectVars

(* What is agreed stays so while others work: what is there is not lost.     *)
LEMMA AgreedStays ==
  ASSUME CoverInv, [Next]_vars, NEW o, InHand(o), Agreed(o)
  PROVE  Agreed(o)'
<1>1. o.step = "put" /\ o.kind = "transfer" => o.tag \in Contents
  BY DEF InHand
<1>2. \A c \in Contents : Keeps(c)
  BY StepFair, FairCovers, ForgoneGrows DEF CoverInv
<1> QED BY <1>1, <1>2, ForgoneGrows DEF Agreed, Keeps

(* What the one who acts has in hand next is agreed, too.                    *)
Agrees == \A u \in Users : op[u] # None => Agreed(op[u])

LEMMA AgreedOn ==
  ASSUME CoverInv, [Next]_vars, NEW u \in Users, NEW o, op' = [op EXCEPT ![u] = o], o = None \/ Agreed(o)'
  PROVE  Agrees'
<1>1. ASSUME NEW v \in Users, op[v] # None PROVE Agreed(op[v])'  \/ v = u
  <2>1. PICK p : p = op[v]
    OBVIOUS
  <2>2. v # u => op'[v] = p
    BY <2>1 DEF CoverInv, ObjectsInv, InHands
  <2>3. Agreed(p)'
    BY <1>1, <2>1, AgreedStays DEF CoverInv, ObjectsInv, InHands
  <2> QED BY <2>2, <2>3 DEF Agreed
<1> QED BY <1>1 DEF Agrees, CoverInv, ObjectsInv, InHands

LEMMA WorkAgreed ==
  ASSUME CoverInv, [Next]_vars, NEW u \in Users, Work(u)
  PROVE  Agrees'
<1>a. ObjectTypes /\ InHands /\ (op[u] # None => InHand(op[u]) /\ op[u] \in Operation /\ Agreed(op[u]))
  BY DEF CoverInv, ObjectsInv, InHands, InHand
<1>e. Ends(u) => Agrees'
  BY AgreedOn DEF Ends
<1>s. ASSUME NEW o, Goes(u, o), o.step \notin {"fetch", "put"} PROVE Agrees'
  BY <1>s, AgreedOn DEF Goes, Agreed
<1>f. forgone \subseteq forgone'
  BY ForgoneGrows
<1>1. CASE Head(u)
  <2>1. PICK k \in op[u].todo :
       LET there == bucket[Target(u, k)]
           next  == IF op[u].kind = "transfer" THEN "fetch" ELSE "put"
           taken == [op[u] EXCEPT !.step = next, !.key = k, !.seen = there]
       IN \/ (there = None \/ there \in forgone') /\ (Goes(u, taken) \/ Goes(u, [taken EXCEPT !.all = TRUE]))
          \/ Goes(u, [op[u] EXCEPT !.todo = @ \ {k}])
    BY <1>1 DEF Head
  <2> DEFINE there == bucket[Target(u, k)]
             next  == IF op[u].kind = "transfer" THEN "fetch" ELSE "put"
             taken == [op[u] EXCEPT !.step = next, !.key = k, !.seen = there]
             asked == [taken EXCEPT !.all = TRUE]
             left  == [op[u] EXCEPT !.todo = @ \ {k}]
  <2>2. op[u] # None /\ op[u] \in Operation /\ op[u].step = "head"
    BY <1>1, <1>a DEF Head, Busy
  <2>3. CASE Goes(u, left)
    <3>1. left.step = "head"
      BY <2>2 DEF Operation
    <3> HIDE DEF left
    <3> QED BY <1>s, <2>3, <3>1
  <2>4. CASE (there = None \/ there \in forgone') /\ (Goes(u, taken) \/ Goes(u, asked))
    <3>1. PICK o : Goes(u, o) /\ o.seen = there /\ (o.step = "put" => o.kind # "transfer")
      <4>1. taken.seen = there /\ taken.step = next /\ taken.kind = op[u].kind
        BY <2>2 DEF Operation
      <4>2. asked.seen = there /\ asked.step = next /\ asked.kind = op[u].kind
        BY <2>2 DEF Operation
      <4> HIDE DEF taken, asked
      <4> QED BY <2>4, <4>1, <4>2
    <3>2. Agreed(o)'
      BY <2>4, <3>1 DEF Agreed
    <3> QED BY <3>1, <3>2, AgreedOn DEF Goes
  <2> QED BY <2>1, <2>3, <2>4
<1>2. CASE Copied(u)
  <2> DEFINE o == [op[u] EXCEPT !.step = "check"]
  <2>1. op[u] # None /\ (Goes(u, o) \/ Ends(u))
    BY <1>2 DEF Copied, Busy
  <2>2. o.step = "check"
    BY <1>a, <2>1 DEF Operation
  <2> HIDE DEF o
  <2> QED BY <1>e, <1>s, <2>1, <2>2
<1>3. CASE Fetch(u)
  <2> DEFINE x == [op[u] EXCEPT !.step = "put", !.tag = bucket[op[u].key]]
  <2>1. op[u] # None /\ Goes(u, x) /\ op[u].step = "fetch" /\ bucket' = bucket
    BY <1>3 DEF Fetch, Busy, objectVars
  <2>2. x.seen = op[u].seen /\ x.tag = bucket[op[u].key] /\ op[u].key \in Copies(x.tag)
    BY <1>a, <2>1 DEF Operation, InHand, Copies
  <2> HIDE DEF x
  <2>3. PICK o : o = x
    OBVIOUS
  <2>4. Copies(o.tag)' # {} /\ o.seen \in {None} \cup forgone
    BY <1>a, <2>1, <2>2, <2>3 DEF Copies, Agreed
  <2>5. Agreed(o)'
    BY <1>f, <2>4 DEF Agreed
  <2> QED BY <2>1, <2>3, <2>5, AgreedOn DEF Goes
<1>4. CASE Open(u)
  <2> DEFINE x == [op[u] EXCEPT !.step = "put", !.seen = bucket[op[u].key]]
  <2>1. op[u] # None /\ Goes(u, x) /\ op[u].step = "open" /\ forgone' = Giving(op[u].key)
    BY <1>4 DEF Open, Busy
  <2>2. x.seen = bucket[op[u].key] /\ x.kind = op[u].kind /\ op[u].kind # "transfer"
    BY <1>a, <2>1 DEF Operation, InHand
  <2> HIDE DEF x
  <2>3. PICK o : o = x
    OBVIOUS
  <2>4. Agreed(o)'
    BY <2>1, <2>2, <2>3 DEF Agreed, Giving
  <2> QED BY <2>1, <2>3, <2>4, AgreedOn DEF Goes
<1>5. CASE Upload(u)
  <2>1. op[u] # None /\ (Ends(u) \/ Goes(u, Written(u)))
    BY <1>5 DEF Upload, Busy
  <2>2. Written(u).step = "head"
    BY <1>a, <2>1 DEF Operation, Written
  <2>3. PICK o : o = Written(u)
    OBVIOUS
  <2> QED BY <1>e, <1>s, <2>1, <2>2, <2>3
<1>6. CASE Check(u)
  <2>1. PICK m \in op[u].made : Goes(u, [op[u] EXCEPT !.step = "remove", !.key = m.src, !.tag = m.tag])
    BY <1>6 DEF Check
  <2> DEFINE o == [op[u] EXCEPT !.step = "remove", !.key = m.src, !.tag = m.tag]
  <2>2. op[u] # None /\ Goes(u, o)
    BY <1>6, <2>1 DEF Check, Busy
  <2>3. o.step = "remove"
    BY <1>a, <2>2 DEF Operation
  <2> HIDE DEF o
  <2> QED BY <1>s, <2>2, <2>3
<1>7. CASE RemoveSource(u)
  <2> DEFINE left == {m \in op[u].made : m.src # op[u].key}
             o == [op[u] EXCEPT !.step = "check", !.made = left, !.key = None, !.tag = None]
  <2>1. op[u] # None /\ (Goes(u, o) \/ Ends(u))
    BY <1>7 DEF RemoveSource, Busy
  <2>2. o.step = "check"
    BY <1>a, <2>1 DEF Operation
  <2> HIDE DEF o
  <2> QED BY <1>e, <1>s, <2>1, <2>2
<1>8. CASE Erase(u)
  <2>1. PICK k \in op[u].todo : Ends(u) \/ Goes(u, [op[u] EXCEPT !.todo = @ \ {k}])
    BY <1>8 DEF Erase
  <2> DEFINE o == [op[u] EXCEPT !.todo = @ \ {k}]
  <2>2. op[u] # None /\ op[u].step = "erase" /\ (Ends(u) \/ Goes(u, o))
    BY <1>8, <2>1 DEF Erase, Busy
  <2>3. o.step = "erase"
    BY <1>a, <2>2 DEF Operation
  <2> HIDE DEF o
  <2> QED BY <1>e, <1>s, <2>2, <2>3
<1> QED BY <1>1, <1>2, <1>3, <1>4, <1>5, <1>6, <1>7, <1>8 DEF Work

LEMMA BeginAgreed ==
  ASSUME CoverInv, [Next]_vars, NEW u \in Users, Begin(u)
  PROVE  Agrees'
<1>s. ASSUME NEW o, Start(u, o), o.step \notin {"fetch", "put"} PROVE Agrees'
  BY <1>s, AgreedOn DEF Start, Agreed
<1>1. ASSUME NEW f, NEW g, NEW m, NEW K, Start(u, [Blank("transfer", "head") EXCEPT !.move = m, !.to = g, !.todo = K])
      PROVE  Agrees'
  <2> DEFINE o == [Blank("transfer", "head") EXCEPT !.move = m, !.to = g, !.todo = K]
  <2>1. o.step = "head" /\ Start(u, o)
    BY <1>1 DEF Blank
  <2> HIDE DEF o
  <2> QED BY <1>s, <2>1
<1>2. ASSUME NEW K, NEW d, Start(u, [Blank("upload", "head") EXCEPT !.todo = K, !.tag = d])
      PROVE  Agrees'
  <2> DEFINE o == [Blank("upload", "head") EXCEPT !.todo = K, !.tag = d]
  <2>1. o.step = "head" /\ Start(u, o)
    BY <1>2 DEF Blank
  <2> HIDE DEF o
  <2> QED BY <1>s, <2>1
<1>3. ASSUME NEW k, NEW d, Start(u, [Blank("write", "open") EXCEPT !.key = k, !.tag = d])
      PROVE  Agrees'
  <2> DEFINE o == [Blank("write", "open") EXCEPT !.key = k, !.tag = d]
  <2>1. o.step = "open" /\ Start(u, o)
    BY <1>3 DEF Blank
  <2> HIDE DEF o
  <2> QED BY <1>s, <2>1
<1>4. ASSUME NEW K, Start(u, [Blank("delete", "erase") EXCEPT !.todo = K])
      PROVE  Agrees'
  <2> DEFINE o == [Blank("delete", "erase") EXCEPT !.todo = K]
  <2>1. o.step = "erase" /\ Start(u, o)
    BY <1>4 DEF Blank
  <2> HIDE DEF o
  <2> QED BY <1>s, <2>1
<1> QED BY <1>1, <1>2, <1>3, <1>4 DEF Begin, BeginTransfer, BeginUpload, BeginWrite, BeginDelete

LEMMA CoverKept ==
  ASSUME CoverInv, [Next]_vars
  PROVE  CoverInv'
<1>1. ASSUME NEW u \in Users, Stop(u) \/ AnswerLost(u) PROVE Agrees'
  BY <1>1, AgreedOn DEF Stop, AnswerLost, Ends
<1>2. ASSUME op' = op PROVE Agrees'
  <2>1. ASSUME NEW v \in Users, op[v] # None PROVE Agreed(op[v])'
    <3>1. PICK p : p = op[v]
      OBVIOUS
    <3>2. Agreed(p)'
      BY <2>1, <3>1, AgreedStays DEF CoverInv, ObjectsInv, InHands
    <3> QED BY <1>2, <3>1, <3>2 DEF Agreed
  <2> QED BY <1>2, <2>1 DEF Agrees
<1>3. Agrees'
  BY <1>1, <1>2, BeginAgreed, WorkAgreed DEF Next, Objects, Sync, vars, transferVars
<1>4. \A c \in Contents : Covered(c)'
  BY StepFair, FairCovers, ForgoneGrows DEF CoverInv
<1>5. ObjectsInv'
  BY ObjectsStep DEF CoverInv
<1> QED BY <1>3, <1>4, <1>5 DEF CoverInv, Agrees

LEMMA CoverStarts == Init => CoverInv
<1> SUFFICES ASSUME Init PROVE CoverInv
  OBVIOUS
<1>1. \A u \in Users : op[u] = None
  BY DEF Init
<1>2. \A c \in Contents : Owed(c) = {}
  BY <1>1 DEF Owed
<1>3. ASSUME NEW c \in Contents PROVE Covered(c)
  <2>1. Cardinality(Owed(c)) = 0
    BY <1>2, FS_EmptySet
  <2>2. Copies(c) = {} \/ Cardinality(Copies(c)) > 0
    BY CountsFinite, FS_EmptySet
  <2> QED BY <1>2, <2>1, <2>2 DEF Covered
<1> QED BY <1>1, <1>3, ObjectsStart DEF CoverInv

(* A content leaves the bucket only if somebody has forgone it: no copy,     *)
(* move or upload loses what another user has put there, in whatever phase   *)
(* it fails or its answer is lost, and no two moves lose it between them;    *)
(* for any number of users, folders, names and contents (s3-transfers.js,    *)
(* s3-browser.js, s3-filesystem.js).                                         *)
THEOREM NothingLost == Spec => NothingLostUnasked
<1>1. Init => CoverInv
  BY CoverStarts
<1>2. CoverInv /\ [Next]_vars => CoverInv'
  BY CoverKept
<1>3. CoverInv /\ [Next]_vars => [Held \ Held' \subseteq forgone']_<<objectVars, transferVars>>
  <2> SUFFICES ASSUME CoverInv, [Next]_vars, NEW c \in Held \ Held' PROVE c \in forgone'
    OBVIOUS
  <2>1. c \in Contents /\ Copies(c) # {}
    BY DEF Held, Copies, CoverInv, ObjectsInv, ObjectTypes
  <2>2. Keeps(c)
    BY <2>1, StepFair, FairCovers, ForgoneGrows DEF CoverInv
  <2>3. Copies(c)' = {}
    BY <2>1, ContentsAssumption DEF Held, Copies
  <2> QED BY <2>1, <2>2, <2>3 DEF Keeps
<1> QED BY <1>1, <1>2, <1>3, PTL DEF Spec, NothingLostUnasked
=============================================================================
