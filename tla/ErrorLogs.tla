----------------------------- MODULE ErrorLogs -----------------------------
(* The error log (services/error_logs.py): every report inserts its event   *)
(* and then deletes whatever is not among the newest ones, as it saw them.  *)
(* Reports come from the log handler, from requests that raised and from    *)
(* tabs; events are known by the moment they were made.                     *)
EXTENDS Browser

CONSTANTS Reporters,  \* threads that report errors
          Keep,       \* how many events the log is to keep
          MaxEvents   \* events made

ASSUME ReportersAssumption == IsFiniteSet(Reporters) /\ Keep \in Nat

VARIABLES events,    \* rows of the log
          reports,   \* [reporter]: where it is, with its event and the ids it keeps
          loggedIn,  \* the tab whose errors are reported
          made,      \* events made
          inserted,  \* ghost: events that were ever in the log
          exposed,   \* ghost: events inserted while another report was about to delete
          abandoned  \* ghost: reports that inserted and did not prune

errorVars == <<events, reports, loggedIn, made, inserted, exposed, abandoned>>

Idle == [at |-> "idle", event |-> 0, kept |-> {}, tab |-> FALSE]

Newest(S) == {e \in S : Cardinality({x \in S : x > e}) < Keep}

Proceeds(r, at) == reports' = [reports EXCEPT ![r].at = at]
Stops(r) == reports' = [reports EXCEPT ![r] = Idle]

-----------------------------------------------------------------------------
(* A tab reports while it is logged in.                                     *)
Reports(tab) == tab => loggedIn

(* The entity draws its time when it is made.                               *)
MakeEvent(r, tab) ==
  /\ reports[r].at = "idle" /\ made < MaxEvents
  /\ Reports(tab)
  /\ made' = made + 1
  /\ reports' = [reports EXCEPT ![r] = [at |-> "insert", event |-> made + 1, kept |-> {}, tab |-> tab]]
  /\ UNCHANGED <<browserVars, events, loggedIn, inserted, exposed, abandoned>>

LogOut ==
  /\ loggedIn
  /\ loggedIn' = FALSE
  /\ UNCHANGED <<browserVars, events, reports, made, inserted, exposed, abandoned>>

InsertEvent(r) ==
  /\ reports[r].at = "insert"
  /\ events' = events \cup {reports[r].event}
  /\ inserted' = inserted \cup {reports[r].event}
  /\ exposed' = IF \E q \in Reporters : reports[q].at = "delete"
                THEN exposed \cup {reports[r].event} ELSE exposed
  /\ Proceeds(r, IF reports[r].tab THEN "refresh" ELSE "select")
  /\ UNCHANGED <<browserVars, loggedIn, made, abandoned>>

(* session.refresh() raises where the row is gone.                          *)
RefreshEvent(r) ==
  /\ reports[r].at = "refresh"
  /\ IF reports[r].event \in events THEN Proceeds(r, "select") ELSE Stops(r)
  /\ UNCHANGED <<browserVars, events, loggedIn, made, inserted, exposed, abandoned>>

(* Mutant: ordered by created_at without desc().                            *)
BadSelectKept_Oldest(r) ==
  /\ reports[r].at = "select"
  /\ reports' = [reports EXCEPT ![r].at = "delete",
                   ![r].kept = {e \in events : Cardinality({x \in events : x < e}) < Keep}]
  /\ UNCHANGED <<browserVars, events, loggedIn, made, inserted, exposed, abandoned>>

SelectKept(r) ==
  /\ reports[r].at = "select"
  /\ reports' = [reports EXCEPT ![r].at = IF events = {} THEN "answer" ELSE "delete",
                                ![r].kept = Newest(events)]
  /\ UNCHANGED <<browserVars, events, loggedIn, made, inserted, exposed, abandoned>>

(* DELETE ... NOT IN reaches rows that came after the SELECT.               *)
DeleteOthers(r) ==
  /\ reports[r].at = "delete"
  /\ events' = events \cap reports[r].kept
  /\ Proceeds(r, "answer")
  /\ UNCHANGED <<browserVars, loggedIn, made, inserted, exposed, abandoned>>

(* The answer reads the row again; a tab ignores what becomes of a report.  *)
AnswerReport(r) ==
  /\ reports[r].at = "answer"
  /\ Stops(r)
  /\ UNCHANGED <<browserVars, events, loggedIn, made, inserted, exposed, abandoned>>

(* The database is away, or the process dies: nobody is told of an error in *)
(* reporting errors.                                                        *)
ReportFails(r) ==
  /\ reports[r].at \notin {"idle", "answer"}
  /\ Act
  /\ Stops(r)
  /\ abandoned' = IF reports[r].at = "insert" THEN abandoned ELSE abandoned + 1
  /\ UNCHANGED <<page, flights, events, loggedIn, made, inserted, exposed>>

-----------------------------------------------------------------------------
ErrorInit ==
  /\ events = {} /\ inserted = {} /\ exposed = {} /\ made = 0 /\ abandoned = 0
  /\ reports = [r \in Reporters |-> Idle]
  /\ loggedIn = TRUE
  /\ page = [at |-> "none", of |-> None, no |-> 0] /\ flights = {} /\ acts = 0

ErrorNext ==
  \/ LogOut
  \/ \E r \in Reporters :
       \/ \E tab \in BOOLEAN : MakeEvent(r, tab)
       \/ InsertEvent(r) \/ RefreshEvent(r) \/ SelectKept(r) \/ DeleteOthers(r)
       \/ AnswerReport(r) \/ ReportFails(r)
=============================================================================
