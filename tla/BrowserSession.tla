--------------------------- MODULE BrowserSession ---------------------------
(***************************************************************************)
(* One browser, from its websocket to its conversation: the gateway's      *)
(* bridge (WebsocketBridge) and the stream of the agent service that it    *)
(* opens (AgentService, one call, one user), joined where they meet.       *)
(*                                                                         *)
(* They share the requests up and the responses down of one gRPC stream,   *)
(* and a context that is cancelled at the gateway cancels the call at the  *)
(* agent some time later.  The steps of the agent's end, which             *)
(* WebsocketBridge assumes, are here those of AgentService, and the client *)
(* of AgentService, which does as it likes there, is here the bridge.      *)
(***************************************************************************)
EXTENDS Naturals, Sequences

CONSTANTS Call,             \* the AgentWebsocketStream call
          User,             \* the user of the token
          NoUser, Nobody,
          CleanupInterval, MaxLockWait, AgentHasCleanup,
          MaxMessages       \* bound: messages the browser sends

(* What AgentService and WebsocketBridge assume of these. *)
ASSUME UserAssumption == User # NoUser /\ Call # Nobody
ASSUME BoundsAssumption ==
  /\ CleanupInterval \in Nat \ {0}
  /\ MaxLockWait \in Nat
  /\ MaxMessages \in Nat \ {0}
ASSUME VariantAssumption == AgentHasCleanup \in BOOLEAN

VARIABLES
  (* WebsocketBridge *)
  handler, receiver, reader, outgoing, done, context, browser, sent, up, down,
  (* AgentService *)
  pc, user_id, ended_by, initializes, taken, cancelled,
  user_conversations, loop, lock, cleaner, elapsed, own, contested, swept,
  request  \* the request the generator works on, or none

gatewayVars == <<handler, receiver, reader, outgoing, done, context, browser, sent>>
agentVars   == <<pc, user_id, ended_by, initializes, taken, cancelled,
                 user_conversations, loop, lock, cleaner, elapsed, own, contested, swept>>
vars        == <<gatewayVars, up, down, agentVars, request>>

Agent == INSTANCE AgentService WITH
  Streams <- {Call}, Users <- {User}, MaxWorkers <- 1, MaxInitialize <- 1,
  ClientRule <- "any"

(* The stream as the gateway sees it: over when the generator has ended.   *)
End == CASE pc[Call] = "aborted" -> "aborted"
         [] pc[Call] = "done" -> "closed"
         [] OTHER -> "open"

Gateway == INSTANCE WebsocketBridge WITH agent <- End

TypeOK ==
  /\ Gateway!TypeOK /\ Agent!TypeOK
  /\ request \in Gateway!Requests \cup {"none"}
  /\ pc[Call] \in {"new", "reading"} => request = "none"

Init ==
  /\ Agent!Init
  /\ handler = "setup" /\ receiver = "idle" /\ reader = "idle" /\ outgoing = "INITIALIZE"
  /\ done = FALSE /\ context = "live" /\ browser = "open" /\ sent = 0
  /\ up = << >> /\ down = << >>
  /\ request = "none"

-----------------------------------------------------------------------------
(* Steps of one side only *)

GatewayAlone(A) == UNCHANGED <<agentVars, request>> /\ A
AgentAlone(A)   == A /\ UNCHANGED <<gatewayVars, up, down, request>>

HandlerStarts  == GatewayAlone(Gateway!Setup \/ Gateway!SetupFails)
HandlerReturns == GatewayAlone(Gateway!HandlerReturns)
ReceiverStep   == GatewayAlone(Gateway!ReceiverStep)
ReaderStep     == GatewayAlone(Gateway!ReaderStep)
ReaderInput    == GatewayAlone(Gateway!ReaderInput)
Outside        == GatewayAlone(Gateway!BrowserLeaves \/ Gateway!Deadline)

(* The call reaches a worker. *)
StreamStarts == handler = "running" /\ AgentAlone(Agent!StartStream(Call))

Dispatch      == AgentAlone(Agent!Dispatch(Call))
LoopStep      == AgentAlone(Agent!LoopStep(Call))
AwaitReturns  == AgentAlone(Agent!AwaitedReturns(Call))
Tick          == AgentAlone(Agent!Tick)
CleanerWakes  == AgentAlone(Agent!CleanerWakes)
CleanerSweeps == AgentAlone(Agent!CleanerSweeps)

-----------------------------------------------------------------------------
(* Steps of both: requests, responses, cancellation *)

(* Mutant: CLOSE is answered like a request of unknown type. *)
Handles_IgnoresClose(r) ==
  \/ r = "INITIALIZE" /\ Agent!RequestInitialize(Call, User)
  \/ r = "USER_MESSAGE" /\ (Agent!RequestMessage(Call) \/ Agent!RequestRejected(Call))
  \/ r = "CLOSE" /\ Agent!RequestRejected(Call)

(* What the generator does with a request of this bridge: an empty message *)
(* is rejected, every other request is submitted to the loop.              *)
Handles(r) ==
  \/ r = "INITIALIZE" /\ Agent!RequestInitialize(Call, User)
  \/ r = "USER_MESSAGE" /\ (Agent!RequestMessage(Call) \/ Agent!RequestRejected(Call))
  \/ r = "CLOSE" /\ Agent!RequestClose(Call)

AgentReads ==
  /\ up # << >>
  /\ Handles(Head(up))
  /\ request' = Head(up)
  /\ up' = Tail(up)
  /\ UNCHANGED <<gatewayVars, down>>

(* Mutant: the response does not end the work on its request. *)
AgentReplies_Twice ==
  /\ Agent!Reply(Call) \/ Agent!ReplyClosed(Call)
  /\ down' = Append(down, "RESPONSE")
  /\ UNCHANGED <<gatewayVars, up, request>>

AgentReplies ==
  /\ Agent!Reply(Call) \/ Agent!ReplyClosed(Call)
  /\ down' = Append(down, "RESPONSE")
  /\ request' = "none"
  /\ UNCHANGED <<gatewayVars, up>>

(* Mutant: the stream was opened with a context that nobody cancels. *)
CallCancelled_Background == context = "expired" /\ AgentAlone(Agent!Cancel(Call))

(* The end of the gateway's context reaches the agent. *)
CallCancelled == context # "live" /\ AgentAlone(Agent!Cancel(Call))

AgentAborts == AgentAlone(Agent!StreamAborted(Call))

-----------------------------------------------------------------------------
Next ==
  \/ HandlerStarts \/ HandlerReturns \/ ReceiverStep \/ ReaderStep \/ ReaderInput \/ Outside
  \/ StreamStarts \/ Dispatch \/ LoopStep \/ AwaitReturns
  \/ Tick \/ CleanerWakes \/ CleanerSweeps
  \/ AgentReads \/ AgentReplies \/ CallCancelled \/ AgentAborts

Spec == Init /\ [][Next]_vars

(* As in the two modules, but nobody counts on a cancellation: a call is   *)
(* cancelled when the handler, or nothing but the deadline, ends it.       *)
Fairness ==
  /\ WF_vars(HandlerStarts) /\ WF_vars(HandlerReturns)
  /\ WF_vars(ReceiverStep) /\ WF_vars(ReaderStep)
  /\ WF_vars(StreamStarts) /\ WF_vars(LoopStep) /\ WF_vars(AwaitReturns)
  /\ SF_vars(Dispatch)
  /\ WF_vars(Tick) /\ WF_vars(CleanerWakes) /\ WF_vars(CleanerSweeps)
  /\ WF_vars(AgentReads) /\ WF_vars(AgentReplies)
  /\ WF_vars(CallCancelled) /\ WF_vars(AgentAborts)

FairSpec == Spec /\ Fairness

-----------------------------------------------------------------------------
(* Properties *)

(* Bridge and agent service together are the bridge with the agent's end   *)
(* that WebsocketBridge assumes: one response to each request, in order,   *)
(* the end of the stream after CLOSE, an abort only when the context is    *)
(* over.  A request counts as unread until it is answered.                 *)
Unanswered == IF request = "none" THEN up ELSE <<request>> \o up
AgentEnd   == IF ended_by[Call] = "close" THEN "closed" ELSE End

Assumed == INSTANCE WebsocketBridge WITH up <- Unanswered, agent <- AgentEnd

IsBridge == Assumed!Spec

(* A browser that leaves, at whatever moment, frees in the end everything  *)
(* it had: the handler, the agent's worker and, by CLOSE or, when the      *)
(* cancellation overtakes it, by the sweep, the conversation.  No part of  *)
(* this leans on the two-hour deadline.                                    *)
LeavingFreesEverything ==
  <>[](browser = "gone" => /\ handler = "returned"
                           /\ pc[Call] \in {"new", "done", "aborted"}
                           /\ ~Agent!Has(User))
=============================================================================
