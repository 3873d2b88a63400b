-------------------------- MODULE WebsocketBridge ---------------------------
(***************************************************************************)
(* One websocket connection in the gateway: HandleWebsocket in             *)
(* gateway/internal/handler/agent.go.  A receiver goroutine copies from    *)
(* the gRPC stream to the websocket, a reader goroutine the other way;     *)
(* the channel done tells each to stop, but only between two iterations,   *)
(* never while it is blocked.  The handler waits for both, then its        *)
(* deferred calls cancel the stream and close the websocket.               *)
(*                                                                         *)
(* The agent's end of the stream is what agent/service/service.py does     *)
(* with it: one response to each request, in order, and the end of the     *)
(* stream after the response to CLOSE.                                     *)
(***************************************************************************)
EXTENDS Naturals, Sequences

CONSTANT MaxMessages  \* bound: messages the browser sends

ASSUME MaxMessagesAssumption == MaxMessages \in Nat \ {0}

VARIABLES
  handler,   \* setup, running or returned
  receiver,  \* idle, check, recv, write, write_error or done
  reader,    \* idle, check, read, send, send_close, close_done,
             \* write_error or done
  outgoing,  \* the message the reader is about to send
  done,      \* the channel done is closed
  context,   \* ctx: live, expired (two hours) or cancelled
  browser,   \* open or gone
  sent,      \* messages the browser has sent
  up, down,  \* the stream: requests to the agent, responses from it
  agent      \* its end: open, closed (by CLOSE), failed, or aborted (by ctx)

handlerVars == <<handler, context, browser>>
vars == <<handlerVars, receiver, reader, outgoing, done, sent, up, down, agent>>

Requests == {"INITIALIZE", "USER_MESSAGE", "CLOSE"}

TypeOK ==
  /\ handler \in {"setup", "running", "returned"}
  /\ receiver \in {"idle", "check", "recv", "write", "write_error", "done"}
  /\ reader \in {"idle", "check", "read", "send", "send_close", "close_done",
                "write_error", "done"}
  /\ outgoing \in Requests
  /\ done \in BOOLEAN
  /\ context \in {"live", "expired", "cancelled"}
  /\ browser \in {"open", "gone"}
  /\ sent \in 0 .. MaxMessages
  /\ up \in Seq(Requests) /\ Len(up) <= MaxMessages + 2
  /\ down \in Seq({"RESPONSE"}) /\ Len(down) <= MaxMessages + 2
  /\ agent \in {"open", "closed", "failed", "aborted"}

Init ==
  /\ handler = "setup"
  /\ receiver = "idle" /\ reader = "idle" /\ outgoing = "INITIALIZE"
  /\ done = FALSE
  /\ context = "live"
  /\ browser = "open" /\ sent = 0
  /\ up = << >> /\ down = << >>
  /\ agent = "open"

StreamOver == agent # "open" \/ context # "live"

-----------------------------------------------------------------------------
(* The handler *)

(* The stream is opened, INITIALIZE is sent, both goroutines are started.  *)
Setup ==
  /\ handler = "setup"
  /\ up' = <<"INITIALIZE">>
  /\ handler' = "running" /\ receiver' = "check" /\ reader' = "check"
  /\ UNCHANGED <<context, browser, outgoing, done, sent, down, agent>>

(* Mutant: no "defer cancel()". *)
Return_NoCancel ==
  /\ handler' = "returned"
  /\ browser' = "gone"
  /\ UNCHANGED context

(* What the deferred calls do: cancel() and conn.Close().                  *)
Return ==
  /\ handler' = "returned"
  /\ context' = IF context = "live" THEN "cancelled" ELSE context
  /\ browser' = "gone"

(* AgentWebsocketStream or the first Send failed. *)
SetupFails ==
  /\ handler = "setup"
  /\ Return
  /\ UNCHANGED <<receiver, reader, outgoing, done, sent, up, down, agent>>

(* wg.Wait() returns. *)
HandlerReturns ==
  /\ handler = "running"
  /\ receiver = "done" /\ reader = "done"
  /\ Return
  /\ UNCHANGED <<receiver, reader, outgoing, done, sent, up, down, agent>>

-----------------------------------------------------------------------------
(* The receiver: stream.Recv, conn.WriteJSON *)

ReceiverOnly == UNCHANGED <<handlerVars, reader, outgoing, sent, up, agent>>

ReceiverChecks ==
  /\ receiver = "check"
  /\ receiver' = IF done THEN "done" ELSE "recv"
  /\ UNCHANGED <<done, down>> /\ ReceiverOnly

ReceiverGetsResponse ==
  /\ receiver = "recv"
  /\ down # << >>
  /\ down' = Tail(down)
  /\ receiver' = "write"
  /\ UNCHANGED done /\ ReceiverOnly

ReceiverGetsEOF ==
  /\ receiver = "recv"
  /\ down = << >> /\ agent = "closed"
  /\ done' = TRUE
  /\ receiver' = "done"
  /\ UNCHANGED down /\ ReceiverOnly

ReceiverGetsError ==
  /\ receiver = "recv"
  /\ \/ context # "live"
     \/ agent = "failed" /\ down = << >>
  /\ receiver' = "write_error"
  /\ UNCHANGED <<done, down>> /\ ReceiverOnly

ReceiverWrites ==
  /\ receiver = "write"
  /\ receiver' = "check"
  /\ UNCHANGED <<done, down>> /\ ReceiverOnly

(* Mutant: errors do not end the receiver. *)
ReceiverEnds_Continues ==
  /\ \/ receiver = "write_error"
     \/ receiver = "write" /\ browser = "gone"
  /\ receiver' = "check"
  /\ UNCHANGED <<done, down>> /\ ReceiverOnly

(* WriteJSON fails, or the error message was written, or not: the          *)
(* goroutine ends.                                                         *)
ReceiverEnds ==
  /\ \/ receiver = "write_error"
     \/ receiver = "write" /\ browser = "gone"
  /\ done' = TRUE
  /\ receiver' = "done"
  /\ UNCHANGED down /\ ReceiverOnly

-----------------------------------------------------------------------------
(* The reader: conn.ReadJSON, stream.Send *)

ReaderOnly == UNCHANGED <<handlerVars, receiver, down, agent>>

ReaderChecks ==
  /\ reader = "check"
  /\ reader' = IF done THEN "done" ELSE "read"
  /\ UNCHANGED <<outgoing, done, sent, up>> /\ ReaderOnly

BrowserSends ==
  /\ reader = "read"
  /\ browser = "open"
  /\ sent < MaxMessages
  /\ sent' = sent + 1

ReaderGetsUserMessage ==
  /\ BrowserSends
  /\ outgoing' = "USER_MESSAGE"
  /\ reader' = "send"
  /\ UNCHANGED <<done, up>> /\ ReaderOnly

(* Mutant: CLOSE does not close done. *)
ReaderGetsClose_NotDone ==
  /\ BrowserSends
  /\ outgoing' = "CLOSE"
  /\ reader' = "send"
  /\ UNCHANGED <<done, up>> /\ ReaderOnly

(* done is closed before CLOSE is sent. *)
ReaderGetsClose ==
  /\ BrowserSends
  /\ outgoing' = "CLOSE"
  /\ done' = TRUE
  /\ reader' = "send"
  /\ UNCHANGED up /\ ReaderOnly

(* Logged, and on to the next. *)
ReaderGetsUnknown ==
  /\ BrowserSends
  /\ reader' = "check"
  /\ UNCHANGED <<outgoing, done, up>> /\ ReaderOnly

(* Mutant: a read error is logged like an unknown message. *)
ReaderGetsError_Continues ==
  /\ reader = "read"
  /\ browser = "gone"
  /\ reader' = "check"
  /\ UNCHANGED <<outgoing, done, sent, up>> /\ ReaderOnly

ReaderGetsError ==
  /\ reader = "read"
  /\ browser = "gone"
  /\ reader' = "send_close"
  /\ UNCHANGED <<outgoing, done, sent, up>> /\ ReaderOnly

(* A message that is not JSON ends the connection in the same way. *)
ReaderGetsMalformed ==
  /\ BrowserSends
  /\ reader' = "send_close"
  /\ UNCHANGED <<outgoing, done, up>> /\ ReaderOnly

(* Mutant: a message is sent twice. *)
Send_Twice(m) == up' = IF StreamOver THEN up ELSE up \o <<m, m>>

(* Send queues the message; on a stream that is over it fails, or its      *)
(* message is lost.                                                        *)
Send(m)   == up' = IF StreamOver THEN up ELSE Append(up, m)
SendFails == StreamOver /\ UNCHANGED up

ReaderSends ==
  /\ reader = "send"
  /\ Send(outgoing)
  /\ reader' = "check"
  /\ UNCHANGED <<outgoing, done, sent>> /\ ReaderOnly

ReaderSendFails ==
  /\ reader = "send"
  /\ SendFails
  /\ reader' = "write_error"
  /\ UNCHANGED <<outgoing, done, sent>> /\ ReaderOnly

ReaderSendsClose ==
  /\ reader = "send_close"
  /\ Send("CLOSE") \/ SendFails
  /\ reader' = "close_done"
  /\ UNCHANGED <<outgoing, done, sent>> /\ ReaderOnly

(* CLOSE was sent, or an error message written, or neither: closeDone.     *)
ReaderEnds ==
  /\ reader \in {"close_done", "write_error"}
  /\ done' = TRUE
  /\ reader' = "done"
  /\ UNCHANGED <<outgoing, sent, up>> /\ ReaderOnly

-----------------------------------------------------------------------------
(* The agent's end of the stream, the browser and the clock *)

AgentOnly == UNCHANGED <<handlerVars, receiver, reader, outgoing, done, sent>>

AgentAnswers ==
  /\ agent = "open"
  /\ up # << >>
  /\ up' = Tail(up)
  /\ down' = Append(down, "RESPONSE")
  /\ agent' = IF Head(up) = "CLOSE" THEN "closed" ELSE "open"
  /\ AgentOnly

(* The cancellation may overtake requests that were not read yet. *)
AgentAborts ==
  /\ agent = "open"
  /\ context # "live"
  /\ agent' = "aborted"
  /\ UNCHANGED <<up, down>> /\ AgentOnly

(* The agent service goes away. *)
AgentFails ==
  /\ agent = "open"
  /\ agent' = "failed"
  /\ UNCHANGED <<up, down>> /\ AgentOnly

BrowserLeaves ==
  /\ browser = "open"
  /\ browser' = "gone"
  /\ UNCHANGED <<handler, context, receiver, reader, outgoing, done, sent, up, down, agent>>

Deadline ==
  /\ context = "live"
  /\ context' = "expired"
  /\ UNCHANGED <<handler, browser, receiver, reader, outgoing, done, sent, up, down, agent>>

-----------------------------------------------------------------------------
ReceiverStep ==
  \/ ReceiverChecks \/ ReceiverGetsResponse \/ ReceiverGetsEOF \/ ReceiverGetsError
  \/ ReceiverWrites \/ ReceiverEnds

(* What the reader does of itself, and what the browser makes it do. *)
ReaderStep ==
  \/ ReaderChecks \/ ReaderGetsError \/ ReaderSends \/ ReaderSendFails
  \/ ReaderSendsClose \/ ReaderEnds
ReaderInput ==
  \/ ReaderGetsUserMessage \/ ReaderGetsClose \/ ReaderGetsUnknown \/ ReaderGetsMalformed

Next ==
  \/ Setup \/ SetupFails \/ HandlerReturns
  \/ ReceiverStep \/ ReaderStep \/ ReaderInput
  \/ AgentAnswers \/ AgentAborts \/ AgentFails
  \/ BrowserLeaves \/ Deadline

Spec == Init /\ [][Next]_vars

(* Goroutines are scheduled and the agent answers (AgentService); neither  *)
(* the browser, nor a failure, nor the deadline is counted on.             *)
Fairness ==
  /\ WF_vars(Setup \/ SetupFails) /\ WF_vars(HandlerReturns)
  /\ WF_vars(ReceiverStep) /\ WF_vars(ReaderStep)
  /\ WF_vars(AgentAnswers) /\ WF_vars(AgentAborts)

FairSpec == Spec /\ Fairness

-----------------------------------------------------------------------------
(* Properties *)

(* The websocket has two writers, and its library allows one at a time.    *)
(* Both write at once only when the stream failed under them.              *)
OneWriter ==
  receiver \in {"write", "write_error"} /\ reader = "write_error" =>
    agent = "failed" \/ context # "live"

(* CLOSE is the last message of a stream: nothing follows it to an agent   *)
(* that has returned, where it would be lost without an error.             *)
NothingAfterClose ==
  /\ \A i \in 1 .. Len(up) - 1 : up[i] # "CLOSE"
  /\ agent = "closed" => up = << >>

(* A client that leaves ends its handler, without help from the deadline:  *)
(* CLOSE makes the agent answer, which unblocks the receiver.              *)
LeavingEndsHandler == (browser = "gone") ~> (handler = "returned")

(* ... and ends the agent's stream, so that the agent has its worker back. *)
LeavingEndsStream ==
  (browser = "gone" /\ handler # "setup") ~> (agent # "open")

(* When the stream is over the receiver ends.  (The reader may stay in     *)
(* ReadJSON for as long as the browser is silent.)                         *)
StreamEndEndsReceiver ==
  (handler = "running" /\ agent \in {"closed", "failed"}) ~> (receiver = "done")

(* The agent is told CLOSE when the connection is over: its stream is cut  *)
(* off only by the deadline.                                               *)
CloseReachesAgent == agent = "aborted" /\ receiver # "idle" => context = "expired"
=============================================================================
