------------------------ MODULE BrowserSessionProofs ------------------------
(***************************************************************************)
(* Proofs about a browser's session: the gateway's bridge and the agent    *)
(* service's stream, joined.  They are compositional: the session is an    *)
(* agent service (AP), so what AgentServiceProofs proves holds of it; and  *)
(* it is a bridge with the agent's end that WebsocketBridge assumes (BP),  *)
(* so what WebsocketBridgeProofs proves holds of it, too.  The second      *)
(* needs an invariant of both sides, SessionInv, of which the invariant of *)
(* WebsocketBridgeProofs is a part.                                        *)
(***************************************************************************)
EXTENDS BrowserSession, TLAPS

(* The two proof modules, with the substitutions of Agent and Assumed.     *)
AP == INSTANCE AgentServiceProofs WITH
  Streams <- {Call}, Users <- {User}, MaxWorkers <- 1, MaxInitialize <- 1,
  ClientRule <- "any"

BP == INSTANCE WebsocketBridgeProofs WITH up <- Unanswered, agent <- AgentEnd

-----------------------------------------------------------------------------
(* Agent and AP, Assumed and BP, are each one module with one substitution *)
(* under two names: their definitions, expanded, are the same.             *)

LEMMA SameAgentType == Agent!TypeOK <=> AP!TypeOK
  BY DEF Agent!TypeOK, AP!TypeOK, Agent!Labels, AP!Labels,
         Agent!Submitted, AP!Submitted, Agent!Final, AP!Final,
         Agent!Conversation, AP!Conversation,
         Agent!ConversationId, AP!ConversationId

LEMMA SameAgent ==
  /\ Agent!Init <=> AP!Init
  /\ Agent!Next <=> AP!Next
  /\ Agent!vars = AP!vars
<1>1. Agent!vars = AP!vars
  BY DEF Agent!vars, Agent!streamVars, Agent!cleanerVars,
         AP!vars, AP!streamVars, AP!cleanerVars
<1>2. Agent!Init <=> AP!Init BY DEF Agent!Init, AP!Init
<1>3. Agent!Next <=> AP!Next
  BY DEF
    Agent!streamVars, Agent!cleanerVars, Agent!Submitted, Agent!Final,
    Agent!Ended, Agent!Busy, Agent!Cardinality, Agent!Has, Agent!NewConversation,
    Agent!Put, Agent!Drop, Agent!Restrict, Agent!Expired, Agent!StartStream,
    Agent!Rivals, Agent!MayInitialize, Agent!RequestInitialize, Agent!RequestMessage,
    Agent!RequestRejected, Agent!RequestClose, Agent!LeaveRequestLoop,
    Agent!RequestsEnd, Agent!Reply, Agent!ReplyClosed, Agent!Cancel,
    Agent!Interruptible, Agent!StreamAborted, Agent!Dispatch, Agent!RunsTo,
    Agent!InitializeFails, Agent!InitializeSucceeds, Agent!ProcessStarts,
    Agent!ProcessFindsNothing, Agent!RunReturns, Agent!RunFails,
    Agent!ProcessEnds, Agent!AfterClose, Agent!CloseFindsNothing,
    Agent!CloseRemoves, Agent!CloseAwaitsCleanup, Agent!CleanupReturns,
    Agent!CloseForgets, Agent!Tick, Agent!CleanerWakes, Agent!CleanerAcquires,
    Agent!CleanerSweeps, Agent!WorkerStep, Agent!ClientStep, Agent!LoopStep,
    Agent!AwaitedReturns, Agent!Next,
    AP!streamVars, AP!cleanerVars, AP!Submitted, AP!Final, AP!Ended, AP!Busy,
    AP!Cardinality, AP!Has, AP!NewConversation, AP!Put, AP!Drop, AP!Restrict,
    AP!Expired, AP!StartStream, AP!Rivals, AP!MayInitialize, AP!RequestInitialize,
    AP!RequestMessage, AP!RequestRejected, AP!RequestClose, AP!LeaveRequestLoop,
    AP!RequestsEnd, AP!Reply, AP!ReplyClosed, AP!Cancel, AP!Interruptible,
    AP!StreamAborted, AP!Dispatch, AP!RunsTo, AP!InitializeFails,
    AP!InitializeSucceeds, AP!ProcessStarts, AP!ProcessFindsNothing,
    AP!RunReturns, AP!RunFails, AP!ProcessEnds, AP!AfterClose,
    AP!CloseFindsNothing, AP!CloseRemoves, AP!CloseAwaitsCleanup,
    AP!CleanupReturns, AP!CloseForgets, AP!Tick, AP!CleanerWakes,
    AP!CleanerAcquires, AP!CleanerSweeps, AP!WorkerStep, AP!ClientStep,
    AP!LoopStep, AP!AwaitedReturns, AP!Next
<1>4. QED BY <1>1, <1>2, <1>3

LEMMA SameBridge == [Assumed!Next]_(Assumed!vars) <=> [BP!Next]_(BP!vars)
  BY DEF
    Assumed!handlerVars, Assumed!Return, Assumed!Setup, Assumed!SetupFails,
    Assumed!HandlerReturns, Assumed!ReceiverOnly, Assumed!ReceiverChecks,
    Assumed!ReceiverGetsResponse, Assumed!ReceiverGetsEOF,
    Assumed!ReceiverGetsError, Assumed!ReceiverWrites, Assumed!ReceiverEnds,
    Assumed!ReaderOnly, Assumed!ReaderChecks, Assumed!BrowserSends,
    Assumed!ReaderGetsUserMessage, Assumed!ReaderGetsClose,
    Assumed!ReaderGetsUnknown, Assumed!ReaderGetsError,
    Assumed!ReaderGetsMalformed, Assumed!StreamOver, Assumed!Send,
    Assumed!SendFails, Assumed!ReaderSends, Assumed!ReaderSendFails,
    Assumed!ReaderSendsClose, Assumed!ReaderEnds, Assumed!AgentOnly,
    Assumed!AgentAnswers, Assumed!AgentAborts, Assumed!AgentFails,
    Assumed!BrowserLeaves, Assumed!Deadline, Assumed!ReceiverStep,
    Assumed!ReaderStep, Assumed!ReaderInput, Assumed!Next, Assumed!vars,
    BP!handlerVars, BP!Return, BP!Setup, BP!SetupFails, BP!HandlerReturns,
    BP!ReceiverOnly, BP!ReceiverChecks, BP!ReceiverGetsResponse,
    BP!ReceiverGetsEOF, BP!ReceiverGetsError, BP!ReceiverWrites, BP!ReceiverEnds,
    BP!ReaderOnly, BP!ReaderChecks, BP!BrowserSends, BP!ReaderGetsUserMessage,
    BP!ReaderGetsClose, BP!ReaderGetsUnknown, BP!ReaderGetsError,
    BP!ReaderGetsMalformed, BP!StreamOver, BP!Send, BP!SendFails, BP!ReaderSends,
    BP!ReaderSendFails, BP!ReaderSendsClose, BP!ReaderEnds, BP!AgentOnly,
    BP!AgentAnswers, BP!AgentAborts, BP!AgentFails, BP!BrowserLeaves, BP!Deadline,
    BP!ReceiverStep, BP!ReaderStep, BP!ReaderInput, BP!Next, BP!vars

(* What the two proof modules assume of their constants. *)
LEMMA AgentAssumptions ==
  AP!NoUserAssumption /\ AP!NobodyAssumption /\ AP!BoundsAssumption /\ AP!VariantAssumption
  BY UserAssumption, BoundsAssumption, VariantAssumption
  DEF AP!NoUserAssumption, AP!NobodyAssumption, AP!BoundsAssumption, AP!VariantAssumption

LEMMA BridgeAssumption == BP!MaxMessagesAssumption
  BY BoundsAssumption DEF BP!MaxMessagesAssumption

-----------------------------------------------------------------------------
(* The session is an agent service *)

LEMMA AgentInit == Init => Agent!Init
  BY DEF Init

LEMMA AgentStep == [Next]_vars => [Agent!Next]_(Agent!vars)
<1>1. UNCHANGED vars => UNCHANGED Agent!vars
  BY DEF vars, agentVars, Agent!vars, Agent!streamVars, Agent!cleanerVars
<1>2. HandlerStarts \/ HandlerReturns \/ ReceiverStep \/ ReaderStep \/ ReaderInput \/ Outside
      => UNCHANGED Agent!vars
  BY DEF HandlerStarts, HandlerReturns, ReceiverStep, ReaderStep, ReaderInput, Outside,
         GatewayAlone, agentVars, Agent!vars, Agent!streamVars, Agent!cleanerVars
<1>3. StreamStarts \/ Dispatch \/ LoopStep \/ AwaitReturns \/ Tick \/ CleanerWakes
      \/ CleanerSweeps \/ CallCancelled \/ AgentAborts => Agent!Next
  BY DEF StreamStarts, Dispatch, LoopStep, AwaitReturns, Tick, CleanerWakes, CleanerSweeps,
         CallCancelled, AgentAborts, AgentAlone, Agent!Next, Agent!WorkerStep
<1>4. AgentReads => Agent!Next
  BY DEF AgentReads, Handles, Agent!Next, Agent!ClientStep
<1>5. AgentReplies => Agent!Next
  BY DEF AgentReplies, Agent!Next, Agent!WorkerStep
<1>6. QED BY <1>1, <1>2, <1>3, <1>4, <1>5 DEF Next

(* Every step of a session is a step of the agent service with one call of *)
(* one user, or none of its business: the bridge asks nothing of the agent *)
(* that AgentService does not expect of a client.                          *)
THEOREM ImplementsAgent == Spec => Agent!Spec
  BY AgentInit, AgentStep, PTL DEF Spec, Agent!Spec

LEMMA AgentProofsStep == [Next]_vars => [AP!Next]_(AP!vars)
  BY AgentStep, SameAgent
  DEF Agent!vars, Agent!streamVars, Agent!cleanerVars, AP!vars, AP!streamVars, AP!cleanerVars

LEMMA AgentProofsApply == Spec => AP!Spec
<1>1. Init => AP!Init BY AgentInit, SameAgent
<1>2. QED BY <1>1, AgentProofsStep, PTL DEF Spec, AP!Spec

-----------------------------------------------------------------------------
(* What the generator's label says about the request it works on. *)
At(labels) == pc[Call] \in labels

RequestAtLabel ==
  /\ handler = "setup" => At({"new"})
  /\ At({"new", "reading"}) => request = "none"
  /\ At({"init"}) => request = "INITIALIZE"
  /\ At({"process", "run", "record"}) => request = "USER_MESSAGE"
  /\ At({"reply"}) => request \in {"INITIALIZE", "USER_MESSAGE"}
  /\ At({"close", "cleanup", "forget"}) /\ ended_by[Call] = "nothing" => request = "CLOSE"
  /\ At({"bye"}) => request = "CLOSE"

(* The generator ends by CLOSE only, and then works on nothing.            *)
EndByClose ==
  /\ ended_by[Call] \in {"nothing", "close"}
  /\ ended_by[Call] = "close" => request = "none" /\ At({"close", "cleanup", "forget", "done"})
  /\ At({"done"}) => ended_by[Call] = "close"

(* A cancellation comes from the gateway. *)
CancelCaused == cancelled[Call] => context # "live"

Queued == up \in Seq(Gateway!Requests) /\ request \in Gateway!Requests \cup {"none"}

CallInv == Queued /\ RequestAtLabel /\ EndByClose /\ CancelCaused

SessionInv == Agent!TypeOK /\ CallInv /\ BP!TypeInv /\ BP!WriterInv

-----------------------------------------------------------------------------
(* The session is a bridge *)

LEMMA EndMapped ==
  ASSUME SessionInv
  PROVE  /\ End \in {"open", "closed", "aborted"}
         /\ End = "closed" => AgentEnd = "closed"
         /\ AgentEnd # "closed" => AgentEnd = End
         /\ AgentEnd = "closed" => request = "none" /\ End # "aborted"
  BY DEF SessionInv, CallInv, EndByClose, At, AgentEnd, End

(* While the reader is to send a message, no CLOSE was sent. *)
LEMMA NotClosed ==
  ASSUME SessionInv, reader \in {"read", "send", "send_close"}
  PROVE  AgentEnd = End
<1>1. AgentEnd # "closed" BY DEF SessionInv, BP!WriterInv, BP!CloseIsLast, BP!Closing
<1>2. QED BY <1>1, EndMapped

LEMMA UnansweredParts ==
  ASSUME Queued
  PROVE  /\ request = "none" => Unanswered = up
         /\ request # "none" => /\ Unanswered # << >>
                                /\ Head(Unanswered) = request /\ Tail(Unanswered) = up
         /\ Len(up) <= Len(Unanswered)
         /\ \A m \in Gateway!Requests :
              Append(Unanswered, m) =
                IF request = "none" THEN Append(up, m) ELSE <<request>> \o Append(up, m)
  BY DEF Queued, Unanswered, Gateway!Requests

LEMMA SendMapped ==
  ASSUME SessionInv, reader \in {"read", "send", "send_close"}, NEW m \in Gateway!Requests,
         UNCHANGED request
  PROVE  /\ Gateway!Send(m) => BP!Send(m)
         /\ Gateway!SendFails => BP!SendFails
<1>1. AgentEnd = End BY NotClosed
<1>2. Gateway!StreamOver <=> BP!StreamOver BY <1>1 DEF Gateway!StreamOver, BP!StreamOver
<1>3. up' = up => Unanswered' = Unanswered BY DEF Unanswered
<1>4. up' = Append(up, m) => Unanswered' = Append(Unanswered, m)
  BY UnansweredParts DEF Unanswered, SessionInv, CallInv
<1>5. QED BY <1>2, <1>3, <1>4 DEF Gateway!Send, Gateway!SendFails, BP!Send, BP!SendFails

GatewayMove ==
  HandlerStarts \/ HandlerReturns \/ ReceiverStep \/ ReaderStep \/ ReaderInput \/ Outside

LEMMA GatewayFrame ==
  ASSUME GatewayMove
  PROVE  /\ UNCHANGED <<agentVars, request, End, AgentEnd>>
         /\ up' = up => Unanswered' = Unanswered
<1>1. UNCHANGED <<agentVars, request>>
  BY DEF GatewayMove, HandlerStarts, HandlerReturns, ReceiverStep, ReaderStep, ReaderInput,
         Outside, GatewayAlone
<1>2. QED BY <1>1 DEF agentVars, End, AgentEnd, Unanswered

LEMMA HandlerMapped ==
  ASSUME SessionInv, HandlerStarts \/ HandlerReturns \/ Outside
  PROVE  BP!Next
<1>1. UNCHANGED <<request, AgentEnd>> /\ (up' = up => Unanswered' = Unanswered)
  BY GatewayFrame DEF GatewayMove
<1>2. CASE Gateway!Setup
  <2>1. request = "none"
    BY <1>2 DEF Gateway!Setup, SessionInv, CallInv, RequestAtLabel, At
  <2>2. Unanswered' = <<"INITIALIZE">> BY <1>1, <1>2, <2>1 DEF Gateway!Setup, Unanswered
  <2>3. BP!Setup BY <1>1, <1>2, <2>2 DEF Gateway!Setup, BP!Setup
  <2>4. QED BY <2>3 DEF BP!Next
<1>3. CASE Gateway!SetupFails
  <2>1. BP!SetupFails
    BY <1>1, <1>3 DEF Gateway!SetupFails, Gateway!Return, BP!SetupFails, BP!Return
  <2>2. QED BY <2>1 DEF BP!Next
<1>4. CASE Gateway!HandlerReturns
  <2>1. BP!HandlerReturns
    BY <1>1, <1>4 DEF Gateway!HandlerReturns, Gateway!Return, BP!HandlerReturns, BP!Return
  <2>2. QED BY <2>1 DEF BP!Next
<1>5. CASE Gateway!BrowserLeaves \/ Gateway!Deadline
  <2>1. BP!BrowserLeaves \/ BP!Deadline
    BY <1>1, <1>5 DEF Gateway!BrowserLeaves, Gateway!Deadline, BP!BrowserLeaves, BP!Deadline
  <2>2. QED BY <2>1 DEF BP!Next
<1>6. QED
  BY <1>2, <1>3, <1>4, <1>5 DEF HandlerStarts, HandlerReturns, Outside, GatewayAlone

LEMMA ReceiverMapped ==
  ASSUME SessionInv, ReceiverStep
  PROVE  BP!Next
<1>1. UNCHANGED <<AgentEnd>> /\ (up' = up => Unanswered' = Unanswered)
  BY GatewayFrame DEF GatewayMove
<1>2. Gateway!ReceiverStep BY DEF ReceiverStep, GatewayAlone
<1>3. Gateway!ReceiverOnly => BP!ReceiverOnly
  BY <1>1 DEF Gateway!ReceiverOnly, BP!ReceiverOnly, Gateway!handlerVars, BP!handlerVars
<1>4. Gateway!ReceiverChecks => BP!ReceiverChecks
  BY <1>3 DEF Gateway!ReceiverChecks, BP!ReceiverChecks
<1>5. Gateway!ReceiverGetsResponse => BP!ReceiverGetsResponse
  BY <1>3 DEF Gateway!ReceiverGetsResponse, BP!ReceiverGetsResponse
<1>6. Gateway!ReceiverGetsEOF => BP!ReceiverGetsEOF
  BY <1>3, EndMapped DEF Gateway!ReceiverGetsEOF, BP!ReceiverGetsEOF
<1>7. Gateway!ReceiverGetsError => BP!ReceiverGetsError
  BY <1>3, EndMapped DEF Gateway!ReceiverGetsError, BP!ReceiverGetsError
<1>8. Gateway!ReceiverWrites => BP!ReceiverWrites
  BY <1>3 DEF Gateway!ReceiverWrites, BP!ReceiverWrites
<1>9. Gateway!ReceiverEnds => BP!ReceiverEnds
  BY <1>3 DEF Gateway!ReceiverEnds, BP!ReceiverEnds
<1>10. BP!ReceiverStep
  BY <1>2, <1>4, <1>5, <1>6, <1>7, <1>8, <1>9 DEF Gateway!ReceiverStep, BP!ReceiverStep
<1>11. QED BY <1>10 DEF BP!Next

LEMMA ReaderMapped ==
  ASSUME SessionInv, ReaderStep \/ ReaderInput
  PROVE  BP!Next
<1>1. UNCHANGED <<request, AgentEnd>> /\ (up' = up => Unanswered' = Unanswered)
  BY GatewayFrame DEF GatewayMove
<1>2. Gateway!ReaderStep \/ Gateway!ReaderInput BY DEF ReaderStep, ReaderInput, GatewayAlone
<1>3. Gateway!ReaderOnly => BP!ReaderOnly
  BY <1>1 DEF Gateway!ReaderOnly, BP!ReaderOnly, Gateway!handlerVars, BP!handlerVars
<1>4. Gateway!ReaderInput => BP!ReaderInput
  BY <1>1, <1>3
  DEF Gateway!ReaderInput, Gateway!ReaderGetsUserMessage, Gateway!ReaderGetsClose,
      Gateway!ReaderGetsUnknown, Gateway!ReaderGetsMalformed, Gateway!BrowserSends,
      BP!ReaderInput, BP!ReaderGetsUserMessage, BP!ReaderGetsClose,
      BP!ReaderGetsUnknown, BP!ReaderGetsMalformed, BP!BrowserSends
<1>5. Gateway!ReaderChecks \/ Gateway!ReaderGetsError \/ Gateway!ReaderEnds
      => BP!ReaderChecks \/ BP!ReaderGetsError \/ BP!ReaderEnds
  BY <1>1, <1>3
  DEF Gateway!ReaderChecks, Gateway!ReaderGetsError, Gateway!ReaderEnds,
      BP!ReaderChecks, BP!ReaderGetsError, BP!ReaderEnds
<1>6. outgoing \in Gateway!Requests /\ "CLOSE" \in Gateway!Requests
  BY DEF SessionInv, BP!TypeInv, BP!Types, BP!Requests, Gateway!Requests
<1>7. Gateway!ReaderSends => BP!ReaderSends
  BY <1>1, <1>3, <1>6, SendMapped DEF Gateway!ReaderSends, BP!ReaderSends
<1>8. Gateway!ReaderSendFails => BP!ReaderSendFails
  BY <1>1, <1>3, <1>6, SendMapped DEF Gateway!ReaderSendFails, BP!ReaderSendFails
<1>9. Gateway!ReaderSendsClose => BP!ReaderSendsClose
  BY <1>1, <1>3, <1>6, SendMapped DEF Gateway!ReaderSendsClose, BP!ReaderSendsClose
<1>10. Gateway!ReaderStep => BP!ReaderStep
  BY <1>5, <1>7, <1>8, <1>9 DEF Gateway!ReaderStep, BP!ReaderStep
<1>11. QED BY <1>2, <1>4, <1>10 DEF BP!Next

(* A step of the agent alone, seen from the gateway: nothing happens,      *)
(* unless the call is dropped.                                             *)
LEMMA PcParts ==
  ASSUME Agent!TypeOK
  PROVE  /\ \A l : pc' = [pc EXCEPT ![Call] = l] => pc'[Call] = l
         /\ \A l : ended_by' = [ended_by EXCEPT ![Call] = l] => ended_by'[Call] = l
         /\ \A l : cancelled' = [cancelled EXCEPT ![Call] = l] => cancelled'[Call] = l
         /\ loop = Call \/ loop = Nobody
  BY DEF Agent!TypeOK

AgentQuiet ==
  StreamStarts \/ Dispatch \/ LoopStep \/ AwaitReturns \/ Tick \/ CleanerWakes \/ CleanerSweeps
  \/ CallCancelled

(* How the label moves. *)
PcMoves(from, to) == pc[Call] \in from /\ pc'[Call] \in to

LEMMA QuietMoves ==
  ASSUME Agent!TypeOK, AgentQuiet
  PROVE  /\ UNCHANGED <<gatewayVars, up, down, request, ended_by>>
         /\ \/ pc'[Call] = pc[Call]
            \/ handler = "running" /\ PcMoves({"new"}, {"reading"})
            \/ PcMoves({"init"}, {"reply"})
            \/ PcMoves({"process"}, {"run", "reply"})
            \/ PcMoves({"run"}, {"record", "reply"})
            \/ PcMoves({"record"}, {"reply"})
            \/ PcMoves({"close"}, {"cleanup"})
            \/ PcMoves({"cleanup"}, {"forget"})
            \/ PcMoves({"close", "forget"}, {Agent!AfterClose(Call)})
         /\ cancelled'[Call] = cancelled[Call] \/ context # "live"
<1>1. CASE StreamStarts
  BY <1>1, PcParts DEF StreamStarts, AgentAlone, Agent!StartStream, Agent!streamVars, PcMoves
<1>2. CASE Dispatch
  BY <1>2 DEF Dispatch, AgentAlone, Agent!Dispatch, Agent!streamVars
<1>3. CASE LoopStep
  <2>1. Agent!LoopStep(Call) /\ UNCHANGED <<gatewayVars, up, down, request>>
    BY <1>3 DEF LoopStep, AgentAlone
  <2>2. UNCHANGED <<ended_by, cancelled>>
    BY <2>1
    DEF Agent!LoopStep, Agent!InitializeFails, Agent!InitializeSucceeds, Agent!ProcessStarts,
        Agent!ProcessFindsNothing, Agent!ProcessEnds, Agent!CloseFindsNothing,
        Agent!CloseRemoves, Agent!CloseAwaitsCleanup, Agent!CloseForgets, Agent!streamVars
  <2>3. \A l, n : Agent!RunsTo(Call, l, n) => PcMoves({l}, {n})
    BY PcParts DEF Agent!RunsTo, PcMoves
  <2>4. \/ PcMoves({"init"}, {"reply"})
        \/ PcMoves({"process"}, {"run"}) \/ PcMoves({"process"}, {"reply"})
        \/ PcMoves({"record"}, {"reply"})
        \/ PcMoves({"close"}, {"cleanup"})
        \/ PcMoves({"close"}, {Agent!AfterClose(Call)})
        \/ PcMoves({"forget"}, {Agent!AfterClose(Call)})
    BY <2>1, <2>3
    DEF Agent!LoopStep, Agent!InitializeFails, Agent!InitializeSucceeds, Agent!ProcessStarts,
        Agent!ProcessFindsNothing, Agent!ProcessEnds, Agent!CloseFindsNothing,
        Agent!CloseRemoves, Agent!CloseAwaitsCleanup, Agent!CloseForgets
  <2>5. QED BY <2>1, <2>2, <2>4 DEF PcMoves
<1>4. CASE AwaitReturns
  BY <1>4, PcParts
  DEF AwaitReturns, AgentAlone, Agent!AwaitedReturns, Agent!RunReturns, Agent!RunFails,
      Agent!CleanupReturns, Agent!streamVars, PcMoves
<1>5. CASE Tick \/ CleanerWakes \/ CleanerSweeps
  BY <1>5
  DEF Tick, CleanerWakes, CleanerSweeps, AgentAlone, Agent!Tick, Agent!CleanerWakes,
      Agent!CleanerSweeps, Agent!streamVars
<1>6. CASE CallCancelled
  BY <1>6 DEF CallCancelled, AgentAlone, Agent!Cancel, Agent!streamVars
<1>7. QED BY <1>1, <1>2, <1>3, <1>4, <1>5, <1>6 DEF AgentQuiet

LEMMA QuietMapped ==
  ASSUME SessionInv, AgentQuiet
  PROVE  UNCHANGED BP!vars
<1>1. Agent!TypeOK BY DEF SessionInv
<1>2. UNCHANGED <<handler, receiver, reader, outgoing, done, context, browser, sent, down, Unanswered>>
  BY <1>1, QuietMoves DEF gatewayVars, Unanswered
<1>3. ended_by' = ended_by BY <1>1, QuietMoves
<1>4. AgentEnd' = AgentEnd
  <2>1. CASE ended_by[Call] = "close" BY <1>3, <2>1 DEF AgentEnd
  <2>2. CASE ended_by[Call] = "nothing"
    <3>1. Agent!AfterClose(Call) = "bye" BY <2>2 DEF Agent!AfterClose
    <3>2. End' = End BY <1>1, <3>1, QuietMoves DEF PcMoves, End
    <3>3. QED BY <1>3, <2>2, <3>2 DEF AgentEnd
  <2>3. QED BY <2>1, <2>2 DEF SessionInv, CallInv, EndByClose
<1>5. QED BY <1>2, <1>4 DEF BP!vars, BP!handlerVars

LEMMA ReadMoves ==
  ASSUME Agent!TypeOK, Queued, AgentReads
  PROVE  /\ UNCHANGED <<gatewayVars, down, ended_by, cancelled>>
         /\ up # << >> /\ up' = Tail(up) /\ request' = Head(up)
         /\ pc[Call] = "reading"
         /\ \/ request' = "INITIALIZE" /\ pc'[Call] = "init"
            \/ request' = "USER_MESSAGE" /\ pc'[Call] \in {"process", "reply"}
            \/ request' = "CLOSE" /\ pc'[Call] = "close"
  BY PcParts
  DEF AgentReads, Handles, Agent!RequestInitialize, Agent!RequestMessage,
      Agent!RequestRejected, Agent!RequestClose, Agent!streamVars

LEMMA ReadMapped ==
  ASSUME SessionInv, AgentReads
  PROVE  UNCHANGED BP!vars
<1>1. Agent!TypeOK /\ Queued BY DEF SessionInv, CallInv
<1>2. request = "none" /\ ended_by[Call] # "close"
  BY <1>1, ReadMoves DEF SessionInv, CallInv, RequestAtLabel, EndByClose, At
<1>3. up \in Seq(Gateway!Requests) /\ up # << >> /\ up' = Tail(up) /\ request' = Head(up)
  BY <1>1, ReadMoves DEF Queued
<1>4. request' # "none" BY <1>3 DEF Gateway!Requests
<1>5. up = <<Head(up)>> \o Tail(up) BY <1>3
<1>6. Unanswered' = Unanswered BY <1>2, <1>3, <1>4, <1>5 DEF Unanswered
<1>7. AgentEnd' = AgentEnd BY <1>1, <1>2, ReadMoves DEF AgentEnd, End
<1>8. UNCHANGED <<handler, receiver, reader, outgoing, done, context, browser, sent, down>>
  BY <1>1, ReadMoves DEF gatewayVars
<1>9. QED BY <1>6, <1>7, <1>8 DEF BP!vars, BP!handlerVars

LEMMA ReplyMoves ==
  ASSUME Agent!TypeOK, AgentReplies
  PROVE  /\ UNCHANGED <<gatewayVars, up, cancelled>>
         /\ down' = Append(down, "RESPONSE") /\ request' = "none"
         /\ \/ pc[Call] = "reply" /\ pc'[Call] = "reading" /\ ended_by' = ended_by
            \/ /\ pc[Call] = "bye" /\ pc'[Call] \in {"close", "done"}
               /\ ended_by'[Call] = "close"
  BY PcParts
  DEF AgentReplies, Agent!Reply, Agent!ReplyClosed, Agent!LeaveRequestLoop, Agent!streamVars

LEMMA ReplyMapped ==
  ASSUME SessionInv, AgentReplies
  PROVE  BP!AgentAnswers
<1>1. Agent!TypeOK /\ Queued BY DEF SessionInv, CallInv
<1>2. UNCHANGED <<handler, receiver, reader, outgoing, done, context, browser, sent, up>>
  BY <1>1, ReplyMoves DEF gatewayVars
<1>3. /\ request # "none" /\ ended_by[Call] = "nothing"
      /\ pc[Call] = "reply" => request # "CLOSE"
      /\ pc[Call] = "bye" => request = "CLOSE"
  BY <1>1, ReplyMoves DEF SessionInv, CallInv, RequestAtLabel, EndByClose, At
<1>4. Unanswered # << >> /\ Head(Unanswered) = request /\ Tail(Unanswered) = up
  BY <1>1, <1>3, UnansweredParts
<1>5. Unanswered' = Tail(Unanswered) BY <1>1, <1>2, <1>4, ReplyMoves DEF Unanswered
<1>6. AgentEnd = "open" BY <1>1, <1>3, ReplyMoves DEF AgentEnd, End
<1>7. AgentEnd' = IF Head(Unanswered) = "CLOSE" THEN "closed" ELSE "open"
  BY <1>1, <1>3, <1>4, ReplyMoves DEF AgentEnd, End
<1>8. down' = Append(down, "RESPONSE") BY <1>1, ReplyMoves
<1>9. QED
  BY <1>2, <1>4, <1>5, <1>6, <1>7, <1>8 DEF BP!AgentAnswers, BP!AgentOnly, BP!handlerVars

LEMMA AbortMoves ==
  ASSUME Agent!TypeOK, AgentAborts
  PROVE  /\ UNCHANGED <<gatewayVars, up, down, request, cancelled, ended_by>>
         /\ cancelled[Call]
         /\ pc[Call] \in {"reading", "reply", "bye"} /\ pc'[Call] = "aborted"
  BY PcParts
  DEF AgentAborts, AgentAlone, Agent!StreamAborted, Agent!Interruptible

LEMMA AbortMapped ==
  ASSUME SessionInv, AgentAborts
  PROVE  BP!AgentAborts
<1>1. Agent!TypeOK BY DEF SessionInv
<1>2. ended_by[Call] = "nothing" /\ context # "live"
  BY <1>1, AbortMoves DEF SessionInv, CallInv, EndByClose, CancelCaused, At
<1>3. AgentEnd = "open" /\ AgentEnd' = "aborted" BY <1>1, <1>2, AbortMoves DEF AgentEnd, End
<1>4. UNCHANGED <<handler, receiver, reader, outgoing, done, context, browser, sent, down, Unanswered>>
  BY <1>1, AbortMoves DEF gatewayVars, Unanswered
<1>5. QED BY <1>2, <1>3, <1>4 DEF BP!AgentAborts, BP!AgentOnly, BP!handlerVars

LEMMA BridgeStep == SessionInv /\ [Next]_vars => [BP!Next]_(BP!vars)
<1>1. SessionInv /\ UNCHANGED vars => UNCHANGED BP!vars
  BY DEF vars, gatewayVars, agentVars, BP!vars, BP!handlerVars, Unanswered, AgentEnd, End
<1>2. AgentReplies \/ AgentAborts => (SessionInv => BP!Next)
  BY ReplyMapped, AbortMapped DEF BP!Next
<1>3. QED
  BY <1>1, <1>2, HandlerMapped, ReceiverMapped, ReaderMapped, QuietMapped, ReadMapped
  DEF Next, AgentQuiet

-----------------------------------------------------------------------------
(* The invariant *)

LEMMA BridgeInit == Init => BP!Init /\ Assumed!Init
<1>1. Init => Unanswered = << >> /\ AgentEnd = "open"
  BY DEF Init, Agent!Init, Unanswered, AgentEnd, End
<1>2. QED BY <1>1 DEF Init, BP!Init, Assumed!Init

LEMMA SessionInvInit == Init => SessionInv
<1> SUFFICES ASSUME Init PROVE SessionInv
  OBVIOUS
<1>1. Agent!TypeOK BY AP!InitTypeOK, AgentAssumptions, AgentInit, SameAgent, SameAgentType
<1>2. pc[Call] = "new" /\ ended_by[Call] = "nothing" /\ ~cancelled[Call]
      /\ up = << >> /\ request = "none"
  BY DEF Init, Agent!Init
<1>3. CallInv
  BY <1>2 DEF CallInv, Queued, RequestAtLabel, EndByClose, CancelCaused, At
<1>4. BP!TypeInv /\ BP!WriterInv
  BY BridgeInit, BP!TypeInvInit, BP!WriterInvInit, BridgeAssumption
<1>5. QED BY <1>1, <1>3, <1>4 DEF SessionInv

LEMMA QueuedStep == SessionInv /\ [Next]_vars => Queued'
<1> SUFFICES ASSUME SessionInv, [Next]_vars PROVE Queued'
  OBVIOUS
<1>1. Agent!TypeOK /\ Queued BY DEF SessionInv, CallInv
<1>2. CASE UNCHANGED <<up, request>> BY <1>1, <1>2 DEF Queued
<1>3. CASE AgentReads
  <2>1. up # << >> /\ up' = Tail(up) /\ request' = Head(up) BY <1>1, <1>3, ReadMoves
  <2>2. QED BY <1>1, <2>1 DEF Queued
<1>4. CASE AgentReplies BY <1>1, <1>4, ReplyMoves DEF Queued
<1>5. CASE GatewayMove
  <2>1. request' = request BY <1>5, GatewayFrame
  <2>2. CASE HandlerStarts \/ HandlerReturns \/ Outside
    <3>1. up' = up \/ up' = <<"INITIALIZE">>
      BY <2>2
      DEF HandlerStarts, HandlerReturns, Outside, GatewayAlone, Gateway!Setup,
          Gateway!SetupFails, Gateway!HandlerReturns, Gateway!BrowserLeaves, Gateway!Deadline
    <3>2. <<"INITIALIZE">> \in Seq(Gateway!Requests) BY DEF Gateway!Requests
    <3>3. QED BY <1>1, <2>1, <3>1, <3>2 DEF Queued
  <2>3. CASE ReceiverStep
    BY <1>1, <2>1, <2>3
    DEF ReceiverStep, GatewayAlone, Gateway!ReceiverStep, Gateway!ReceiverChecks,
        Gateway!ReceiverGetsResponse, Gateway!ReceiverGetsEOF, Gateway!ReceiverGetsError,
        Gateway!ReceiverWrites, Gateway!ReceiverEnds, Gateway!ReceiverOnly, Queued
  <2>4. CASE ReaderStep \/ ReaderInput
    <3>1. outgoing \in Gateway!Requests /\ "CLOSE" \in Gateway!Requests
      BY DEF SessionInv, BP!TypeInv, BP!Types, BP!Requests, Gateway!Requests
    <3>2. PICK m \in Gateway!Requests : up' = up \/ up' = Append(up, m)
      BY <2>4, <3>1
      DEF ReaderStep, ReaderInput, GatewayAlone, Gateway!ReaderStep, Gateway!ReaderInput,
          Gateway!ReaderChecks, Gateway!ReaderGetsError, Gateway!ReaderSends,
          Gateway!ReaderSendFails, Gateway!ReaderSendsClose, Gateway!ReaderEnds,
          Gateway!ReaderGetsUserMessage, Gateway!ReaderGetsClose, Gateway!ReaderGetsUnknown,
          Gateway!ReaderGetsMalformed, Gateway!Send, Gateway!SendFails
    <3>3. QED BY <1>1, <2>1, <3>2 DEF Queued
  <2>5. QED BY <1>5, <2>2, <2>3, <2>4 DEF GatewayMove
<1>6. CASE AgentQuiet BY <1>1, <1>2, <1>6, QuietMoves
<1>7. CASE AgentAborts BY <1>1, <1>2, <1>7, AbortMoves
<1>8. CASE UNCHANGED vars BY <1>2, <1>8 DEF vars
<1>9. QED BY <1>3, <1>4, <1>5, <1>6, <1>7, <1>8 DEF Next, GatewayMove, AgentQuiet

LEMMA GatewayForward ==
  ASSUME GatewayMove
  PROVE  (context # "live" => context' # "live") /\ (handler' = "setup" => handler = "setup")
<1>1. CASE HandlerStarts \/ HandlerReturns \/ Outside
  BY <1>1
  DEF HandlerStarts, HandlerReturns, Outside, GatewayAlone, Gateway!Setup, Gateway!SetupFails,
      Gateway!HandlerReturns, Gateway!Return, Gateway!BrowserLeaves, Gateway!Deadline
<1>2. CASE ReceiverStep
  BY <1>2
  DEF ReceiverStep, GatewayAlone, Gateway!ReceiverStep, Gateway!ReceiverChecks,
      Gateway!ReceiverGetsResponse, Gateway!ReceiverGetsEOF, Gateway!ReceiverGetsError,
      Gateway!ReceiverWrites, Gateway!ReceiverEnds, Gateway!ReceiverOnly, Gateway!handlerVars
<1>3. CASE ReaderStep \/ ReaderInput
  BY <1>3
  DEF ReaderStep, ReaderInput, GatewayAlone, Gateway!ReaderStep, Gateway!ReaderInput,
      Gateway!ReaderChecks, Gateway!ReaderGetsError, Gateway!ReaderSends,
      Gateway!ReaderSendFails, Gateway!ReaderSendsClose, Gateway!ReaderEnds,
      Gateway!ReaderGetsUserMessage, Gateway!ReaderGetsClose, Gateway!ReaderGetsUnknown,
      Gateway!ReaderGetsMalformed, Gateway!ReaderOnly, Gateway!handlerVars
<1>4. QED BY <1>1, <1>2, <1>3 DEF GatewayMove

LEMMA CallInvStep == SessionInv /\ [Next]_vars => CallInv'
<1> SUFFICES ASSUME SessionInv, [Next]_vars PROVE CallInv'
  OBVIOUS
<1>0. Queued' BY QueuedStep
<1>1. Agent!TypeOK /\ Queued /\ RequestAtLabel /\ EndByClose /\ CancelCaused
  BY DEF SessionInv, CallInv
<1>2. CASE GatewayMove \/ UNCHANGED vars
  <2>1. UNCHANGED <<pc, ended_by, cancelled, request>>
    BY <1>2, GatewayFrame DEF vars, agentVars
  <2>2. (context # "live" => context' # "live") /\ (handler' = "setup" => handler = "setup")
    BY <1>2, GatewayForward DEF vars, gatewayVars
  <2>3. QED
    BY <1>0, <1>1, <2>1, <2>2 DEF CallInv, RequestAtLabel, EndByClose, CancelCaused, At
<1>3. CASE AgentQuiet
  <2>1. UNCHANGED <<handler, context, request, ended_by>>
    BY <1>1, <1>3, QuietMoves DEF gatewayVars
  <2>2. Agent!AfterClose(Call) = IF ended_by[Call] = "nothing" THEN "bye" ELSE "done"
    BY DEF Agent!AfterClose
  <2>3. CancelCaused' BY <1>1, <1>3, <2>1, QuietMoves DEF CancelCaused
  <2>4. RequestAtLabel' /\ EndByClose'
    BY <1>1, <1>3, <2>1, <2>2, QuietMoves DEF RequestAtLabel, EndByClose, At, PcMoves
  <2>5. QED BY <1>0, <2>3, <2>4 DEF CallInv
<1>4. CASE AgentReads
  <2>1. UNCHANGED <<handler, context>> BY <1>1, <1>4, ReadMoves DEF gatewayVars
  <2>2. QED
    BY <1>0, <1>1, <1>4, <2>1, ReadMoves DEF CallInv, RequestAtLabel, EndByClose, CancelCaused, At
<1>5. CASE AgentReplies
  <2>1. UNCHANGED <<handler, context>> BY <1>1, <1>5, ReplyMoves DEF gatewayVars
  <2>2. QED
    BY <1>0, <1>1, <1>5, <2>1, ReplyMoves DEF CallInv, RequestAtLabel, EndByClose, CancelCaused, At
<1>6. CASE AgentAborts
  <2>1. UNCHANGED <<handler, context>> BY <1>1, <1>6, AbortMoves DEF gatewayVars
  <2>2. QED
    BY <1>0, <1>1, <1>6, <2>1, AbortMoves DEF CallInv, RequestAtLabel, EndByClose, CancelCaused, At
<1>7. QED BY <1>2, <1>3, <1>4, <1>5, <1>6 DEF Next, GatewayMove, AgentQuiet

LEMMA SessionInvStep == SessionInv /\ [Next]_vars => SessionInv'
<1> SUFFICES ASSUME SessionInv, [Next]_vars PROVE SessionInv'
  OBVIOUS
<1>1. Agent!TypeOK'
  <2>1. AP!TypeOK /\ [AP!Next]_(AP!vars) BY AgentProofsStep, SameAgentType DEF SessionInv
  <2>2. AP!TypeOK' BY <2>1, AP!InductiveTypeOK, AgentAssumptions
  <2>3. QED BY <2>2, SameAgentType, PTL
<1>2. BP!TypeInv' /\ BP!WriterInv'
  BY BridgeStep, BP!TypeInvInductive, BP!WriterInvInductive, BridgeAssumption DEF SessionInv
<1>3. QED BY <1>1, <1>2, CallInvStep DEF SessionInv

LEMMA SessionInvAlways == Spec => []SessionInv
  BY SessionInvInit, SessionInvStep, PTL DEF Spec

(* The session has the types of both sides; the queues between them hold   *)
(* at most two messages more than the browser sent, also while the agent   *)
(* works on a request.                                                     *)
THEOREM TypeCorrect == Spec => []TypeOK
<1>1. SessionInv => TypeOK
  <2> SUFFICES ASSUME SessionInv PROVE TypeOK
    OBVIOUS
  <2>1. Agent!TypeOK /\ Queued /\ RequestAtLabel BY DEF SessionInv, CallInv
  <2>2. BP!TypeOK BY BP!TypeInvBounds, BridgeAssumption DEF SessionInv
  <2>3. Len(up) <= MaxMessages + 2
    <3>1. Len(up) <= Len(Unanswered) /\ Len(Unanswered) <= MaxMessages + 2
      BY <2>1, <2>2, UnansweredParts DEF BP!TypeOK
    <3>2. Len(up) \in Nat /\ Len(Unanswered) \in Nat
      BY <2>1, <2>2 DEF Queued, BP!TypeOK
    <3>3. QED BY <3>1, <3>2, BoundsAssumption
  <2>4. Gateway!TypeOK
    BY <2>1, <2>2, <2>3, EndMapped DEF Gateway!TypeOK, BP!TypeOK, Queued, Gateway!Requests, BP!Requests
  <2>5. QED BY <2>1, <2>4 DEF TypeOK, Queued, RequestAtLabel, At
<1>2. QED BY <1>1, SessionInvAlways, PTL

(* The agent service does what the bridge counts on: one response to each  *)
(* request, in order, the end of the stream after the response to CLOSE,   *)
(* and an abort only when the gateway's context is over.                   *)
THEOREM ImplementsBridge == Spec => IsBridge
<1>1. Init => Assumed!Init BY BridgeInit
<1>2. SessionInv /\ [Next]_vars => [Assumed!Next]_(Assumed!vars)
  BY BridgeStep, SameBridge
<1>3. QED BY <1>1, <1>2, SessionInvAlways, PTL DEF Spec, IsBridge, Assumed!Spec

-----------------------------------------------------------------------------
(* What the bridge is proved to do, it does with the real agent *)

LEMMA BridgeProofsApply == Spec => BP!Spec
<1>1. Init => BP!Init BY BridgeInit
<1>2. QED BY <1>1, BridgeStep, SessionInvAlways, PTL DEF Spec, BP!Spec

(* With the real agent, which answers CLOSE and otherwise ends a stream    *)
(* only when it is cancelled, both goroutines write to the websocket at    *)
(* once only after the two-hour deadline.                                  *)
THEOREM OneWriterInSession ==
  Spec => [](receiver \in {"write", "write_error"} /\ reader = "write_error" =>
               context = "expired")
<1>1. BP!Spec => []BP!OneWriter BY BP!OneWriterAlways, BridgeAssumption
<1>2. BP!Spec => []BP!CancelIsLast BY BP!CancelIsLastAlways, BridgeAssumption
<1>3. SessionInv /\ BP!OneWriter /\ BP!CancelIsLast =>
        (receiver \in {"write", "write_error"} /\ reader = "write_error" =>
           context = "expired")
  BY EndMapped DEF BP!OneWriter, BP!CancelIsLast, SessionInv, BP!TypeInv, BP!Types
<1>4. QED BY <1>1, <1>2, <1>3, BridgeProofsApply, SessionInvAlways, PTL

(* CLOSE is the last message the bridge queues for the real agent, and     *)
(* nothing is left in the queue when the agent has answered it.            *)
THEOREM NothingAfterCloseInSession == Spec => []Gateway!NothingAfterClose
<1>1. BP!Spec => []BP!NothingAfterClose BY BP!NothingAfterCloseAlways, BridgeAssumption
<1>2. SessionInv /\ BP!NothingAfterClose => Gateway!NothingAfterClose
  <2> SUFFICES ASSUME SessionInv, BP!NothingAfterClose PROVE Gateway!NothingAfterClose
    OBVIOUS
  <2>1. Queued BY DEF SessionInv, CallInv
  <2>2. CASE request = "none"
    <3>1. Unanswered = up BY <2>2 DEF Unanswered
    <3>2. QED BY <3>1, EndMapped DEF BP!NothingAfterClose, Gateway!NothingAfterClose
  <2>3. CASE request # "none"
    <3>1. AgentEnd # "closed" /\ End # "closed" BY <2>3, EndMapped
    <3>2. Len(Unanswered) = Len(up) + 1 /\ Len(up) \in Nat
      BY <2>1, <2>3 DEF Queued, Unanswered
    <3>3. \A i \in 1 .. Len(up) - 1 : up[i] = Unanswered[i + 1]
      BY <2>1, <2>3 DEF Queued, Unanswered
    <3>4. \A i \in 1 .. Len(up) - 1 : i + 1 \in 1 .. Len(Unanswered) - 1 BY <3>2
    <3>5. QED BY <3>1, <3>3, <3>4 DEF BP!NothingAfterClose, Gateway!NothingAfterClose
  <2>4. QED BY <2>2, <2>3
<1>3. QED BY <1>1, <1>2, BridgeProofsApply, SessionInvAlways, PTL

=============================================================================
