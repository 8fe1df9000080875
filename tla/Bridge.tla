------------------------------- MODULE Bridge -------------------------------
(* A WebSocket of the Development page, bridged to the workspace it belongs  *)
(* to (development/proxy.py): one task for each direction, and the handler   *)
(* that waits for the first of them to end.                                  *)
EXTENDS Browser

CONSTANTS MaxMessages  \* messages in each direction

VARIABLES handler,    \* where proxy_websocket() is
          upTask,     \* where _browser_to_upstream() is
          downTask,   \* where _upstream_to_browser() is
          browserEnd, \* "open", "left" by the browser, "closed" by the backend
          spaceEnd,   \* the same of the workspace; "none" before it is there
          seenLeft,   \* client_state: the disconnection was received
          upward,     \* messages of the browser: sent, taken and given
          downward    \* messages of the workspace

bridgeVars == <<handler, upTask, downTask, browserEnd, spaceEnd, seenLeft, upward, downward>>

Ended == {"done", "failed", "refused"}

-----------------------------------------------------------------------------
(* The two ends                                                             *)

Types ==
  /\ browserEnd = "open" /\ upward.sent < MaxMessages
  /\ upward' = [upward EXCEPT !.sent = @ + 1]
  /\ UNCHANGED <<browserVars, handler, upTask, downTask, browserEnd, spaceEnd, seenLeft, downward>>

BrowserLeaves ==
  /\ browserEnd = "open"
  /\ browserEnd' = "left"
  /\ UNCHANGED <<browserVars, handler, upTask, downTask, spaceEnd, seenLeft, upward, downward>>

PrintsText ==
  /\ spaceEnd = "open" /\ downward.sent < MaxMessages
  /\ downward' = [downward EXCEPT !.sent = @ + 1]
  /\ UNCHANGED <<browserVars, handler, upTask, downTask, browserEnd, spaceEnd, seenLeft, upward>>

SpaceLeaves ==
  /\ spaceEnd = "open"
  /\ spaceEnd' = "left"
  /\ UNCHANGED <<browserVars, handler, upTask, downTask, browserEnd, seenLeft, upward, downward>>

-----------------------------------------------------------------------------
(* The handler                                                              *)

(* Nobody logged in, or a workspace that is not the user's; the target is   *)
(* resolved before, in a session that is closed.                            *)
Refuse ==
  /\ handler = "resolve"
  /\ handler' = "ended"
  /\ browserEnd' = IF browserEnd = "open" THEN "closed" ELSE browserEnd
  /\ UNCHANGED <<browserVars, upTask, downTask, spaceEnd, seenLeft, upward, downward>>

Resolve ==
  /\ handler = "resolve"
  /\ handler' = "connect"
  /\ UNCHANGED <<browserVars, upTask, downTask, browserEnd, spaceEnd, seenLeft, upward, downward>>

Connect ==
  /\ handler = "connect"
  /\ \/ handler' = "accept" /\ spaceEnd' = "open"
     \/ handler' = "fail" /\ UNCHANGED spaceEnd
  /\ UNCHANGED <<browserVars, upTask, downTask, browserEnd, seenLeft, upward, downward>>

(* accept() raises where the browser has left; else both tasks are created. *)
Accept ==
  /\ handler = "accept"
  /\ IF browserEnd = "open"
     THEN handler' = "bridge" /\ upTask' = "receive" /\ downTask' = "next"
     ELSE handler' = "fail" /\ UNCHANGED <<upTask, downTask>>
  /\ UNCHANGED <<browserVars, browserEnd, spaceEnd, seenLeft, upward, downward>>

(* asyncio.wait(FIRST_COMPLETED), then the other task is cancelled.          *)
Settle ==
  /\ handler = "bridge"
  /\ upTask \in Ended \/ downTask \in Ended
  /\ upTask' = IF upTask \in Ended THEN upTask ELSE "cancelled"
  /\ downTask' = IF downTask \in Ended THEN downTask ELSE "cancelled"
  /\ handler' = IF upTask = "failed" THEN "fail"
                ELSE IF downTask \in Ended /\ ~seenLeft THEN "close"
                ELSE "finally"
  /\ UNCHANGED <<browserVars, browserEnd, spaceEnd, seenLeft, upward, downward>>

(* websocket.close() raises where the browser has left unnoticed.           *)
CloseBrowser ==
  /\ handler = "close"
  /\ IF browserEnd = "open"
     THEN handler' = "finally" /\ browserEnd' = "closed"
     ELSE handler' = "fail" /\ UNCHANGED browserEnd
  /\ UNCHANGED <<browserVars, upTask, downTask, spaceEnd, seenLeft, upward, downward>>

(* _close_websocket(1011), which swallows the error of an end that is gone. *)
Fail ==
  /\ handler = "fail"
  /\ handler' = "finally"
  /\ browserEnd' = IF browserEnd = "open" /\ ~seenLeft THEN "closed" ELSE browserEnd
  /\ UNCHANGED <<browserVars, upTask, downTask, spaceEnd, seenLeft, upward, downward>>

Finally ==
  /\ handler = "finally"
  /\ handler' = "ended"
  /\ spaceEnd' = IF spaceEnd = "open" THEN "closed" ELSE spaceEnd
  /\ UNCHANGED <<browserVars, upTask, downTask, browserEnd, seenLeft, upward, downward>>

-----------------------------------------------------------------------------
(* The tasks                                                                *)

(* Mutant: a disconnection is looked for before the messages.               *)
BadReceive_LeftFirst ==
  /\ upTask = "receive"
  /\ \/ /\ upward.taken < upward.sent
        /\ upward' = [upward EXCEPT !.taken = @ + 1]
        /\ upTask' = "send" /\ UNCHANGED seenLeft
     \/ /\ browserEnd = "left"
        /\ upTask' = "leave" /\ seenLeft' = TRUE /\ UNCHANGED upward
  /\ UNCHANGED <<browserVars, handler, downTask, browserEnd, spaceEnd, downward>>

(* websocket.receive(): the disconnection comes after the messages.         *)
Receives ==
  /\ upTask = "receive"
  /\ \/ /\ upward.taken < upward.sent
        /\ upward' = [upward EXCEPT !.taken = @ + 1]
        /\ upTask' = "send" /\ UNCHANGED seenLeft
     \/ /\ browserEnd = "left" /\ upward.taken = upward.sent
        /\ upTask' = "leave" /\ seenLeft' = TRUE /\ UNCHANGED upward
  /\ UNCHANGED <<browserVars, handler, downTask, browserEnd, spaceEnd, downward>>

SendUp ==
  /\ upTask = "send"
  /\ IF spaceEnd = "open"
     THEN upward' = [upward EXCEPT !.given = @ + 1] /\ upTask' = "receive"
     ELSE upTask' = "failed" /\ UNCHANGED upward
  /\ UNCHANGED <<browserVars, handler, downTask, browserEnd, spaceEnd, seenLeft, downward>>

CloseSpace ==
  /\ upTask = "leave"
  /\ upTask' = "done"
  /\ spaceEnd' = IF spaceEnd = "open" THEN "closed" ELSE spaceEnd
  /\ UNCHANGED <<browserVars, handler, downTask, browserEnd, seenLeft, upward, downward>>

(* async for: what was received is handed out before the end.               *)
NextMessage ==
  /\ downTask = "next"
  /\ \/ /\ downward.taken < downward.sent
        /\ downward' = [downward EXCEPT !.taken = @ + 1] /\ downTask' = "send"
     \/ /\ downward.taken = downward.sent /\ spaceEnd # "open"
        /\ downTask' = "done" /\ UNCHANGED downward
  /\ UNCHANGED <<browserVars, handler, upTask, browserEnd, spaceEnd, seenLeft, upward>>

SendDown ==
  /\ downTask = "send"
  /\ IF browserEnd = "open"
     THEN downward' = [downward EXCEPT !.given = @ + 1] /\ downTask' = "next"
     ELSE downTask' = "refused" /\ UNCHANGED downward
  /\ UNCHANGED <<browserVars, handler, upTask, browserEnd, spaceEnd, seenLeft, upward>>

-----------------------------------------------------------------------------
BridgeInit ==
  /\ handler = "resolve" /\ upTask = "none" /\ downTask = "none"
  /\ browserEnd = "open" /\ spaceEnd = "none" /\ seenLeft = FALSE
  /\ upward = [sent |-> 0, taken |-> 0, given |-> 0]
  /\ downward = [sent |-> 0, taken |-> 0, given |-> 0]
  /\ page = [at |-> "none", of |-> None, no |-> 0] /\ flights = {} /\ acts = 0

BridgeNext ==
  \/ Types \/ BrowserLeaves \/ PrintsText \/ SpaceLeaves
  \/ Refuse \/ Resolve \/ Connect \/ Accept \/ Settle \/ CloseBrowser \/ Fail \/ Finally
  \/ Receives \/ SendUp \/ CloseSpace \/ NextMessage \/ SendDown
=============================================================================
