----------------------- MODULE WebsocketBridgeProofs ------------------------
(* Proofs about WebsocketBridge, for any number of messages.               *)
EXTENDS WebsocketBridge, TLAPS

Types ==
  /\ handler \in {"setup", "running", "returned"}
  /\ receiver \in {"idle", "check", "recv", "write", "write_error", "done"}
  /\ reader \in {"idle", "check", "read", "send", "send_close", "close_done",
                "write_error", "done"}
  /\ outgoing \in Requests
  /\ done \in BOOLEAN
  /\ context \in {"live", "expired", "cancelled"}
  /\ browser \in {"open", "gone"}
  /\ sent \in 0 .. MaxMessages
  /\ up \in Seq(Requests)
  /\ down \in Seq({"RESPONSE"})
  /\ agent \in {"open", "closed", "failed", "aborted"}

(* Before the goroutines start nothing is on the stream. *)
Quiet == handler = "setup" => reader = "idle" /\ up = << >> /\ down = << >>

(* What is on the stream was sent by setup, for a message of the browser,  *)
(* or as the CLOSE after a read error, which ends the reader.              *)
Allowance ==
  IF reader \in {"idle", "check", "read", "send_close"} THEN sent + 1
  ELSE IF reader = "send" THEN sent
  ELSE sent + 2
Conserved == Len(up) + Len(down) <= Allowance

TypeInv == Types /\ Quiet /\ Conserved

(* Once CLOSE is on the stream, the reader only ends. *)
Holds(s) == \E i \in 1 .. Len(s) : s[i] = "CLOSE"
Closing == Holds(up) \/ agent = "closed"
CloseIsLast ==
  /\ reader = "send" /\ outgoing = "CLOSE" => done
  /\ Closing => reader \in {"close_done", "done"} \/ (reader = "check" /\ done)

(* An abort and a failed Send come from the end of the stream. *)
AbortCaused == agent = "aborted" => context # "live"
ErrorCaused == reader = "write_error" => StreamOver /\ ~Closing

WriterInv == CloseIsLast /\ AbortCaused /\ ErrorCaused

-----------------------------------------------------------------------------
(* Queues *)

LEMMA AppendParts ==
  ASSUME NEW s \in Seq(Requests), NEW m \in Requests
  PROVE  /\ Append(s, m) \in Seq(Requests) /\ Len(Append(s, m)) = Len(s) + 1
         /\ Holds(Append(s, m)) => m = "CLOSE" \/ Holds(s)
<1>1. \A i \in 1 .. Len(s) : Append(s, m)[i] = s[i] OBVIOUS
<1>2. Append(s, m)[Len(s) + 1] = m /\ Len(Append(s, m)) = Len(s) + 1 OBVIOUS
<1>3. \A i \in 1 .. Len(s) + 1 : i \in 1 .. Len(s) \/ i = Len(s) + 1 OBVIOUS
<1>4. QED BY <1>1, <1>2, <1>3 DEF Holds

LEMMA TailParts ==
  ASSUME NEW S, NEW s \in Seq(S), s # << >>
  PROVE  /\ Tail(s) \in Seq(S) /\ Len(Tail(s)) = Len(s) - 1 /\ Len(s) > 0
         /\ Head(s) \in S
         /\ Head(s) = "CLOSE" \/ Holds(Tail(s)) => Holds(s)
<1>1. Len(s) \in Nat /\ Len(s) > 0 /\ Len(Tail(s)) = Len(s) - 1 /\ Tail(s) \in Seq(S) OBVIOUS
<1>2. \A i \in 1 .. Len(s) - 1 : Tail(s)[i] = s[i + 1] OBVIOUS
<1>3. Head(s) = s[1] /\ s[1] \in S OBVIOUS
<1>4. \A i \in 1 .. Len(s) - 1 : i + 1 \in 1 .. Len(s) BY <1>1
<1>5. QED BY <1>1, <1>2, <1>3, <1>4 DEF Holds

(* A message that is sent is queued, or lost. *)
LEMMA SendParts ==
  ASSUME TypeInv, NEW m \in Requests, Send(m) \/ SendFails
  PROVE  /\ up' \in Seq(Requests) /\ Len(up') <= Len(up) + 1
         /\ Holds(up') => m = "CLOSE" \/ Holds(up)
<1>1. up \in Seq(Requests) /\ Len(up) \in Nat BY DEF TypeInv, Types
<1>2. CASE up' = up BY <1>1, <1>2
<1>3. CASE up' = Append(up, m) BY <1>1, <1>3, AppendParts
<1>4. QED BY <1>2, <1>3 DEF Send, SendFails

-----------------------------------------------------------------------------
(* Type correctness and the length of the queues *)

LEMMA Lengths == TypeInv => Len(up) \in Nat /\ Len(down) \in Nat /\ sent \in Nat
  BY MaxMessagesAssumption DEF TypeInv, Types

LEMMA TypeInvInit == Init => TypeInv
<1>1. Init => done \in BOOLEAN BY DEF Init
<1>2. Init => up \in Seq(Requests) /\ down \in Seq({"RESPONSE"}) BY DEF Init
<1>3. Init => sent \in 0 .. MaxMessages /\ outgoing \in Requests
  BY MaxMessagesAssumption DEF Init, Requests
<1>4. Init => Types BY <1>1, <1>2, <1>3 DEF Init, Types
<1>5. Init => Quiet /\ Conserved BY DEF Init, Quiet, Conserved, Allowance
<1>6. QED BY <1>4, <1>5 DEF TypeInv

LEMMA TypeInvHandler ==
  ASSUME TypeInv, Setup \/ SetupFails \/ HandlerReturns
  PROVE  TypeInv'
<1>1. CASE Setup
  <2>1. <<"INITIALIZE">> \in Seq(Requests) /\ Len(<<"INITIALIZE">>) = 1 BY DEF Requests
  <2>2. Len(down) = 0 /\ sent \in Nat BY <1>1, Lengths DEF Setup, TypeInv, Quiet
  <2>3. QED BY <1>1, <2>1, <2>2 DEF Setup, TypeInv, Types, Quiet, Conserved, Allowance
<1>2. CASE SetupFails \/ HandlerReturns
  BY <1>2 DEF SetupFails, HandlerReturns, Return, TypeInv, Types, Quiet, Conserved, Allowance
<1>3. QED BY <1>1, <1>2

LEMMA TypeInvReceiver ==
  ASSUME TypeInv, ReceiverStep
  PROVE  TypeInv'
<1>1. UNCHANGED <<handler, context, browser, reader, outgoing, sent, up, agent>>
  BY DEF ReceiverStep, ReceiverChecks, ReceiverGetsResponse, ReceiverGetsEOF,
         ReceiverGetsError, ReceiverWrites, ReceiverEnds, ReceiverOnly, handlerVars
<1>2. receiver' \in {"recv", "write", "write_error", "check", "done"}
  BY DEF ReceiverStep, ReceiverChecks, ReceiverGetsResponse, ReceiverGetsEOF,
         ReceiverGetsError, ReceiverWrites, ReceiverEnds
<1>3. down' = down \/ (down # << >> /\ down' = Tail(down))
  BY DEF ReceiverStep, ReceiverChecks, ReceiverGetsResponse, ReceiverGetsEOF,
         ReceiverGetsError, ReceiverWrites, ReceiverEnds
<1>4. down \in Seq({"RESPONSE"}) BY DEF TypeInv, Types
<1>5. down' \in Seq({"RESPONSE"}) /\ Len(down') <= Len(down) /\ (down = << >> => down' = << >>)
  <2>1. CASE down' = down BY <1>4, <2>1
  <2>2. CASE down # << >> /\ down' = Tail(down) BY <1>4, <2>2, TailParts
  <2>3. QED BY <1>3, <2>1, <2>2
<1>6. Len(down') \in Nat BY <1>5
<1>7. done' \in BOOLEAN
  BY DEF ReceiverStep, ReceiverChecks, ReceiverGetsResponse, ReceiverGetsEOF,
         ReceiverGetsError, ReceiverWrites, ReceiverEnds, TypeInv, Types
<1>8. Types' BY <1>1, <1>2, <1>5, <1>7 DEF TypeInv, Types
<1>9. Quiet' BY <1>1, <1>5 DEF TypeInv, Quiet
<1>10. Conserved' BY <1>1, <1>5, <1>6, Lengths DEF TypeInv, Conserved, Allowance
<1>11. QED BY <1>8, <1>9, <1>10 DEF TypeInv

(* The reader leaves the queues alone. *)
LEMMA TypeInvReads ==
  ASSUME TypeInv,
         ReaderChecks \/ ReaderGetsError \/ ReaderEnds \/ ReaderInput
  PROVE  TypeInv'
<1>1. UNCHANGED <<handler, context, browser, receiver, up, down, agent>>
  BY DEF ReaderChecks, ReaderGetsError, ReaderEnds, ReaderInput, ReaderGetsUserMessage,
         ReaderGetsClose, ReaderGetsUnknown, ReaderGetsMalformed, ReaderOnly, handlerVars
<1>2. CASE ReaderChecks \/ ReaderGetsError \/ ReaderEnds
  <2>1. sent' = sent /\ outgoing' = outgoing
    BY <1>2 DEF ReaderChecks, ReaderGetsError, ReaderEnds
  <2>2. reader # "idle" /\ reader' \in {"done", "read", "send_close"} /\ Allowance <= Allowance'
    BY <1>2, <2>1, Lengths DEF ReaderChecks, ReaderGetsError, ReaderEnds, Allowance
  <2>3. done' \in BOOLEAN
    BY <1>2 DEF ReaderChecks, ReaderGetsError, ReaderEnds, TypeInv, Types
  <2>4. Types' BY <1>1, <2>1, <2>2, <2>3 DEF TypeInv, Types
  <2>5. Quiet' BY <1>1, <2>2 DEF TypeInv, Quiet
  <2>6. Allowance \in Nat /\ Allowance' \in Nat BY <2>1, Lengths DEF Allowance
  <2>7. Conserved' BY <1>1, <2>2, <2>6, Lengths DEF TypeInv, Conserved
  <2>8. QED BY <2>4, <2>5, <2>7 DEF TypeInv
<1>3. CASE ReaderInput
  <2>1. reader = "read" /\ sent < MaxMessages /\ sent' = sent + 1
    BY <1>3 DEF ReaderInput, ReaderGetsUserMessage, ReaderGetsClose, ReaderGetsUnknown,
                ReaderGetsMalformed, BrowserSends
  <2>2. reader' \in {"send", "check", "send_close"} /\ outgoing' \in {outgoing, "USER_MESSAGE", "CLOSE"}
    BY <1>3 DEF ReaderInput, ReaderGetsUserMessage, ReaderGetsClose, ReaderGetsUnknown,
                ReaderGetsMalformed
  <2>3. sent' \in 0 .. MaxMessages BY <2>1, Lengths, MaxMessagesAssumption
  <2>4. done' \in BOOLEAN
    BY <1>3 DEF ReaderInput, ReaderGetsUserMessage, ReaderGetsClose, ReaderGetsUnknown,
                ReaderGetsMalformed, TypeInv, Types
  <2>5. outgoing' \in Requests BY <2>2 DEF TypeInv, Types, Requests
  <2>6. Types' BY <1>1, <2>2, <2>3, <2>4, <2>5 DEF TypeInv, Types
  <2>7. Quiet' BY <1>1, <2>1 DEF TypeInv, Quiet
  <2>8. Conserved' BY <1>1, <2>1, <2>2, Lengths DEF TypeInv, Conserved, Allowance
  <2>9. QED BY <2>6, <2>7, <2>8 DEF TypeInv
<1>4. QED BY <1>2, <1>3

LEMMA TypeInvSends ==
  ASSUME TypeInv, ReaderSends \/ ReaderSendFails \/ ReaderSendsClose
  PROVE  TypeInv'
<1>1. UNCHANGED <<handler, context, browser, receiver, down, agent, outgoing, done, sent>>
  BY DEF ReaderSends, ReaderSendFails, ReaderSendsClose, ReaderOnly, handlerVars
<1>2. PICK m \in Requests : Send(m) \/ SendFails
  BY DEF ReaderSends, ReaderSendFails, ReaderSendsClose, TypeInv, Types, Requests
<1>3. up' \in Seq(Requests) /\ Len(up') <= Len(up) + 1 BY <1>2, SendParts
<1>4. Len(up') \in Nat BY <1>3
<1>5. \/ reader = "send" /\ reader' \in {"check", "write_error"}
      \/ reader = "send_close" /\ reader' = "close_done"
  BY DEF ReaderSends, ReaderSendFails, ReaderSendsClose
<1>6. Types' BY <1>1, <1>3, <1>5 DEF TypeInv, Types
<1>7. Quiet' BY <1>1, <1>5 DEF TypeInv, Quiet
<1>8. Conserved' BY <1>1, <1>3, <1>4, <1>5, Lengths DEF TypeInv, Conserved, Allowance
<1>9. QED BY <1>6, <1>7, <1>8 DEF TypeInv

LEMMA TypeInvAround ==
  ASSUME TypeInv,
         AgentAnswers \/ AgentAborts \/ AgentFails \/ BrowserLeaves \/ Deadline
  PROVE  TypeInv'
<1>1. CASE AgentAnswers
  <2>1. UNCHANGED <<handler, context, browser, receiver, reader, outgoing, done, sent>>
        /\ up # << >> /\ up' = Tail(up) /\ down' = Append(down, "RESPONSE")
        /\ agent' \in {"open", "closed"}
    BY <1>1 DEF AgentAnswers, AgentOnly, handlerVars
  <2>2. up \in Seq(Requests) /\ down \in Seq({"RESPONSE"}) BY DEF TypeInv, Types
  <2>3. up' \in Seq(Requests) /\ Len(up') = Len(up) - 1 BY <2>1, <2>2, TailParts
  <2>4. down' \in Seq({"RESPONSE"}) /\ Len(down') = Len(down) + 1 BY <2>1, <2>2
  <2>5. Types' BY <2>1, <2>3, <2>4 DEF TypeInv, Types
  <2>6. Quiet' BY <2>1 DEF TypeInv, Quiet
  <2>7. Conserved' BY <2>1, <2>3, <2>4, Lengths DEF TypeInv, Conserved, Allowance
  <2>8. QED BY <2>5, <2>6, <2>7 DEF TypeInv
<1>2. CASE AgentAborts \/ AgentFails \/ BrowserLeaves \/ Deadline
  BY <1>2
  DEF AgentAborts, AgentFails, BrowserLeaves, Deadline, AgentOnly, handlerVars,
      TypeInv, Types, Quiet, Conserved, Allowance
<1>3. QED BY <1>1, <1>2

LEMMA TypeInvInductive == TypeInv /\ [Next]_vars => TypeInv'
<1>1. TypeInv /\ UNCHANGED vars => TypeInv'
  BY DEF vars, handlerVars, TypeInv, Types, Quiet, Conserved, Allowance
<1>2. QED
  BY <1>1, TypeInvHandler, TypeInvReceiver, TypeInvReads, TypeInvSends, TypeInvAround
  DEF Next, ReaderStep

(* The queues are as long as what the reader was allowed to send.          *)
LEMMA TypeInvBounds == TypeInv => TypeOK
  BY Lengths, MaxMessagesAssumption DEF TypeInv, Types, Conserved, Allowance, TypeOK

LEMMA TypeInvAlways == Spec => []TypeInv
  BY TypeInvInit, TypeInvInductive, PTL DEF Spec

(* The queues of the stream hold at most two messages more than the        *)
(* browser sent: INITIALIZE, and one CLOSE for a browser that is gone.     *)
THEOREM TypeCorrect == Spec => []TypeOK
  BY TypeInvBounds, TypeInvAlways, PTL

-----------------------------------------------------------------------------
(* One writer of the websocket at a time *)

LEMMA WriterInvInit == Init => WriterInv
  BY DEF Init, WriterInv, CloseIsLast, AbortCaused, ErrorCaused, Closing, Holds

(* Nothing is sent, and the reader does not move. *)
LEMMA WriterInvFrame ==
  ASSUME WriterInv, UNCHANGED <<reader, outgoing>>, done => done', Closing' => Closing,
         agent' = "aborted" => agent = "aborted" \/ context # "live",
         context # "live" => context' # "live", agent # "open" => agent' # "open"
  PROVE  WriterInv'
  BY DEF WriterInv, CloseIsLast, AbortCaused, ErrorCaused, StreamOver

LEMMA WriterInvSetup ==
  ASSUME TypeInv, WriterInv, Setup
  PROVE  WriterInv'
<1>1. ~Holds(<<"INITIALIZE">>) BY DEF Holds
<1>2. agent # "closed" BY DEF Setup, TypeInv, Quiet, WriterInv, CloseIsLast, Closing
<1>3. ~Closing' BY <1>1, <1>2 DEF Setup, Closing
<1>4. reader' = "check" /\ UNCHANGED <<agent, context>> BY DEF Setup
<1>5. QED BY <1>3, <1>4 DEF WriterInv, CloseIsLast, AbortCaused, ErrorCaused

LEMMA WriterInvReader ==
  ASSUME TypeInv, WriterInv, ReaderStep \/ ReaderInput
  PROVE  WriterInv'
<1>1. UNCHANGED <<context, agent>>
  BY DEF ReaderStep, ReaderInput, ReaderChecks, ReaderGetsError, ReaderSends,
         ReaderSendFails, ReaderSendsClose, ReaderEnds, ReaderGetsUserMessage,
         ReaderGetsClose, ReaderGetsUnknown, ReaderGetsMalformed, ReaderOnly, handlerVars
<1>2. AbortCaused' BY <1>1 DEF WriterInv, AbortCaused
<1>3. CASE ReaderInput
  <2>1. reader = "read" /\ up' = up /\ reader' \in {"send", "check", "send_close"}
    BY <1>3 DEF ReaderInput, ReaderGetsUserMessage, ReaderGetsClose, ReaderGetsUnknown,
                ReaderGetsMalformed, BrowserSends
  <2>2. ~Closing' BY <1>1, <2>1 DEF WriterInv, CloseIsLast, Closing
  <2>3. reader' = "send" /\ outgoing' = "CLOSE" => done'
    BY <1>3 DEF ReaderInput, ReaderGetsUserMessage, ReaderGetsClose, ReaderGetsUnknown,
                ReaderGetsMalformed
  <2>4. QED BY <1>2, <2>1, <2>2, <2>3 DEF WriterInv, CloseIsLast, ErrorCaused
<1>4. CASE ReaderChecks
  <2>1. Closing' = Closing BY <1>1, <1>4 DEF ReaderChecks, Closing
  <2>2. QED BY <1>2, <1>4, <2>1 DEF ReaderChecks, WriterInv, CloseIsLast, ErrorCaused
<1>5. CASE ReaderGetsError
  <2>1. Closing' = Closing BY <1>1, <1>5 DEF ReaderGetsError, Closing
  <2>2. QED BY <1>2, <1>5, <2>1 DEF ReaderGetsError, WriterInv, CloseIsLast, ErrorCaused
<1>6. CASE ReaderSends
  <2>1. reader = "send" /\ reader' = "check" /\ UNCHANGED <<outgoing, done>>
    BY <1>6 DEF ReaderSends
  <2>2. outgoing \in Requests BY DEF TypeInv, Types
  <2>3. Holds(up') => outgoing = "CLOSE" \/ Holds(up)
    BY <1>6, <2>2, SendParts DEF ReaderSends
  <2>4. Closing' => done' BY <1>1, <2>1, <2>3 DEF Closing, WriterInv, CloseIsLast
  <2>5. QED BY <1>2, <2>1, <2>4 DEF WriterInv, CloseIsLast, ErrorCaused
<1>7. CASE ReaderSendFails
  <2>1. reader = "send" /\ reader' = "write_error" /\ StreamOver /\ UNCHANGED up
    BY <1>7 DEF ReaderSendFails, SendFails
  <2>2. ~Closing' BY <1>1, <2>1 DEF Closing, WriterInv, CloseIsLast
  <2>3. StreamOver' BY <1>1, <2>1 DEF StreamOver
  <2>4. QED BY <1>2, <2>1, <2>2, <2>3 DEF WriterInv, CloseIsLast, ErrorCaused
<1>8. CASE ReaderSendsClose \/ ReaderEnds
  <2>1. reader' \in {"close_done", "done"} BY <1>8 DEF ReaderSendsClose, ReaderEnds
  <2>2. QED BY <1>2, <2>1 DEF WriterInv, CloseIsLast, ErrorCaused
<1>9. QED BY <1>3, <1>4, <1>5, <1>6, <1>7, <1>8 DEF ReaderStep

LEMMA WriterInvAround ==
  ASSUME TypeInv, WriterInv,
         \/ SetupFails \/ HandlerReturns \/ ReceiverStep
         \/ AgentAnswers \/ AgentAborts \/ AgentFails \/ BrowserLeaves \/ Deadline
  PROVE  WriterInv'
<1>1. CASE SetupFails \/ HandlerReturns
  <2>1. Closing' = Closing BY <1>1 DEF SetupFails, HandlerReturns, Closing
  <2>2. QED BY <1>1, <2>1, WriterInvFrame DEF SetupFails, HandlerReturns, Return
<1>2. CASE ReceiverStep
  <2>1. UNCHANGED <<context, reader, outgoing, up, agent>>
    BY <1>2 DEF ReceiverStep, ReceiverChecks, ReceiverGetsResponse, ReceiverGetsEOF,
                ReceiverGetsError, ReceiverWrites, ReceiverEnds, ReceiverOnly, handlerVars
  <2>2. done => done'
    BY <1>2 DEF ReceiverStep, ReceiverChecks, ReceiverGetsResponse, ReceiverGetsEOF,
                ReceiverGetsError, ReceiverWrites, ReceiverEnds
  <2>3. Closing' = Closing BY <2>1 DEF Closing
  <2>4. QED BY <2>1, <2>2, <2>3, WriterInvFrame
<1>3. CASE AgentAnswers
  <2>1. /\ up # << >> /\ up' = Tail(up) /\ agent = "open"
        /\ agent' = IF Head(up) = "CLOSE" THEN "closed" ELSE "open"
        /\ UNCHANGED <<context, reader, outgoing, done>>
    BY <1>3 DEF AgentAnswers, AgentOnly, handlerVars
  <2>2. up \in Seq(Requests) BY DEF TypeInv, Types
  <2>3. Head(up) = "CLOSE" \/ Holds(up') => Holds(up) BY <2>1, <2>2, TailParts
  <2>4. Closing' => Closing BY <2>1, <2>3 DEF Closing
  <2>5. QED BY <2>1, <2>4, WriterInvFrame
<1>4. CASE AgentAborts \/ AgentFails
  <2>1. UNCHANGED <<context, reader, outgoing, done, up>> /\ agent = "open"
    BY <1>4 DEF AgentAborts, AgentFails, AgentOnly, handlerVars
  <2>2. (agent' = "aborted" /\ context # "live") \/ agent' = "failed"
    BY <1>4 DEF AgentAborts, AgentFails
  <2>3. Closing' => Closing BY <2>1, <2>2 DEF Closing
  <2>4. QED BY <2>1, <2>2, <2>3, WriterInvFrame
<1>5. CASE BrowserLeaves \/ Deadline
  <2>1. UNCHANGED <<reader, outgoing, done, up, agent>> /\ (context # "live" => context' # "live")
    BY <1>5 DEF BrowserLeaves, Deadline
  <2>2. Closing' = Closing BY <2>1 DEF Closing
  <2>3. QED BY <2>1, <2>2, WriterInvFrame
<1>6. QED BY <1>1, <1>2, <1>3, <1>4, <1>5

LEMMA WriterInvInductive == TypeInv /\ WriterInv /\ [Next]_vars => WriterInv'
<1>1. WriterInv /\ UNCHANGED vars => WriterInv'
  BY DEF vars, handlerVars, WriterInv, CloseIsLast, AbortCaused, ErrorCaused, StreamOver,
         Closing
<1>2. QED BY <1>1, WriterInvSetup, WriterInvReader, WriterInvAround DEF Next

(* The receiver and the reader write to the websocket at the same time     *)
(* only when a failure of the agent service or the deadline ended the      *)
(* stream under both: an end that CLOSE has asked for never makes the      *)
(* reader's Send fail.                                                     *)
THEOREM OneWriterAlways == Spec => []OneWriter
<1>1. TypeInv /\ WriterInv => OneWriter
  BY DEF TypeInv, Types, WriterInv, AbortCaused, ErrorCaused, StreamOver, Closing, OneWriter
<1>2. QED BY <1>1, WriterInvInit, WriterInvInductive, TypeInvAlways, PTL DEF Spec

-----------------------------------------------------------------------------
(* CLOSE comes last *)

LEMMA AppendedLast ==
  ASSUME NEW s \in Seq(Requests), NEW m \in Requests, ~Holds(s)
  PROVE  \A i \in 1 .. Len(Append(s, m)) - 1 : Append(s, m)[i] # "CLOSE"
<1>1. \A i \in 1 .. Len(s) : Append(s, m)[i] = s[i] OBVIOUS
<1>2. Len(Append(s, m)) - 1 = Len(s) OBVIOUS
<1>3. QED BY <1>1, <1>2 DEF Holds

LEMMA NothingAfterCloseInit == Init => NothingAfterClose
  BY DEF Init, NothingAfterClose

LEMMA NothingAfterCloseSends ==
  ASSUME TypeInv, WriterInv, NothingAfterClose, ReaderSends \/ ReaderSendsClose
  PROVE  NothingAfterClose'
<1>1. reader \in {"send", "send_close"} /\ agent' = agent
  BY DEF ReaderSends, ReaderSendsClose, ReaderOnly
<1>2. ~Holds(up) /\ agent # "closed" BY <1>1 DEF WriterInv, CloseIsLast, Closing
<1>3. PICK m \in Requests : up' = up \/ up' = Append(up, m)
  BY DEF ReaderSends, ReaderSendsClose, Send, SendFails, TypeInv, Types, Requests
<1>4. up \in Seq(Requests) BY DEF TypeInv, Types
<1>5. CASE up' = up BY <1>1, <1>5 DEF NothingAfterClose
<1>6. CASE up' = Append(up, m)
  <2>1. \A i \in 1 .. Len(up') - 1 : up'[i] # "CLOSE" BY <1>2, <1>4, <1>6, AppendedLast
  <2>2. QED BY <1>1, <1>2, <2>1 DEF NothingAfterClose
<1>7. QED BY <1>3, <1>5, <1>6

LEMMA NothingAfterCloseAnswers ==
  ASSUME TypeInv, NothingAfterClose, AgentAnswers
  PROVE  NothingAfterClose'
<1>1. up # << >> /\ up' = Tail(up) /\ agent' = IF Head(up) = "CLOSE" THEN "closed" ELSE "open"
  BY DEF AgentAnswers
<1>2. up \in Seq(Requests) /\ Len(up) \in Nat BY DEF TypeInv, Types
<1>3. Len(up') = Len(up) - 1 /\ Len(up) > 0 /\ up' \in Seq(Requests) BY <1>1, <1>2, TailParts
<1>4. \A i \in 1 .. Len(up) - 1 : up'[i] = up[i + 1] BY <1>1, <1>2
<1>5. \A i \in 1 .. Len(up') - 1 : up'[i] # "CLOSE"
  <2>1. \A i \in 1 .. Len(up') - 1 : i + 1 \in 1 .. Len(up) - 1 /\ i \in 1 .. Len(up) - 1
    BY <1>2, <1>3
  <2>2. QED BY <1>4, <2>1 DEF NothingAfterClose
<1>6. Head(up) = "CLOSE" => Len(up) = 1
  <2>1. Head(up) = up[1] BY <1>1, <1>2
  <2>2. QED BY <1>2, <1>3, <2>1 DEF NothingAfterClose
<1>7. Len(up') = 0 => up' = << >> BY <1>3
<1>8. QED BY <1>1, <1>3, <1>5, <1>6, <1>7 DEF NothingAfterClose

LEMMA NothingAfterCloseInductive ==
  TypeInv /\ WriterInv /\ NothingAfterClose /\ [Next]_vars => NothingAfterClose'
<1> SUFFICES ASSUME TypeInv, WriterInv, NothingAfterClose, [Next]_vars
             PROVE  NothingAfterClose'
  OBVIOUS
<1>1. CASE Setup
  <2>1. up' = <<"INITIALIZE">> /\ agent' = agent /\ handler = "setup" BY <1>1 DEF Setup
  <2>2. agent # "closed" BY <2>1 DEF TypeInv, Quiet, WriterInv, CloseIsLast, Closing
  <2>3. QED BY <2>1, <2>2 DEF NothingAfterClose
<1>2. CASE UNCHANGED up /\ (agent' = agent \/ agent' \in {"aborted", "failed"})
  BY <1>2 DEF NothingAfterClose
<1>3. ASSUME ~Setup, ~ReaderSends, ~ReaderSendsClose, ~AgentAnswers
      PROVE  UNCHANGED up /\ (agent' = agent \/ agent' \in {"aborted", "failed"})
  <2>1. CASE ReceiverStep
    BY <2>1 DEF ReceiverStep, ReceiverChecks, ReceiverGetsResponse, ReceiverGetsEOF,
                ReceiverGetsError, ReceiverWrites, ReceiverEnds, ReceiverOnly
  <2>2. CASE ReaderStep \/ ReaderInput
    BY <1>3, <2>2
    DEF ReaderStep, ReaderInput, ReaderChecks, ReaderGetsError, ReaderSendFails, SendFails,
        ReaderEnds, ReaderGetsUserMessage, ReaderGetsClose, ReaderGetsUnknown,
        ReaderGetsMalformed, ReaderOnly
  <2>3. CASE SetupFails \/ HandlerReturns \/ BrowserLeaves \/ Deadline \/ UNCHANGED vars
    BY <2>3 DEF SetupFails, HandlerReturns, BrowserLeaves, Deadline, vars
  <2>4. CASE AgentAborts \/ AgentFails
    BY <2>4 DEF AgentAborts, AgentFails
  <2>5. QED BY <1>3, <2>1, <2>2, <2>3, <2>4 DEF Next
<1>4. QED BY <1>1, <1>2, <1>3, NothingAfterCloseSends, NothingAfterCloseAnswers

(* CLOSE is the last message of every stream: whatever the browser sends   *)
(* and whenever it leaves, no message follows to an agent that has         *)
(* returned from its stream.                                               *)
THEOREM NothingAfterCloseAlways == Spec => []NothingAfterClose
  BY NothingAfterCloseInit, NothingAfterCloseInductive, WriterInvInit, WriterInvInductive,
     TypeInvAlways, PTL DEF Spec

-----------------------------------------------------------------------------
(* The context is cancelled by the handler alone, when both goroutines are *)
(* done, or were never started.                                            *)
CancelIsLast ==
  /\ handler = "setup" => receiver = "idle" /\ reader = "idle"
  /\ handler = "returned" => receiver \in {"idle", "done"} /\ reader \in {"idle", "done"}
  /\ context = "cancelled" => handler = "returned"

LEMMA CancelIsLastStep == CancelIsLast /\ [Next]_vars => CancelIsLast'
<1> SUFFICES ASSUME CancelIsLast, [Next]_vars PROVE CancelIsLast'
  OBVIOUS
<1>1. CASE Setup \/ SetupFails \/ HandlerReturns
  BY <1>1 DEF Setup, SetupFails, HandlerReturns, Return, CancelIsLast
<1>2. CASE ReceiverStep
  <2>1. UNCHANGED <<handler, context, reader>> /\ receiver \notin {"idle", "done"}
    BY <1>2 DEF ReceiverStep, ReceiverChecks, ReceiverGetsResponse, ReceiverGetsEOF,
                ReceiverGetsError, ReceiverWrites, ReceiverEnds, ReceiverOnly, handlerVars
  <2>2. QED BY <2>1 DEF CancelIsLast
<1>3. CASE ReaderStep \/ ReaderInput
  <2>1. UNCHANGED <<handler, context, receiver>> /\ reader \notin {"idle", "done"}
    BY <1>3 DEF ReaderStep, ReaderInput, ReaderChecks, ReaderGetsError, ReaderSends,
                ReaderSendFails, ReaderSendsClose, ReaderEnds, ReaderGetsUserMessage,
                ReaderGetsClose, ReaderGetsUnknown, ReaderGetsMalformed, BrowserSends,
                ReaderOnly, handlerVars
  <2>2. QED BY <2>1 DEF CancelIsLast
<1>4. CASE AgentAnswers \/ AgentAborts \/ AgentFails \/ BrowserLeaves \/ Deadline \/ UNCHANGED vars
  BY <1>4 DEF AgentAnswers, AgentAborts, AgentFails, AgentOnly, BrowserLeaves, Deadline,
              handlerVars, vars, CancelIsLast
<1>5. QED BY <1>1, <1>2, <1>3, <1>4 DEF Next

LEMMA CancelIsLastAlways == Spec => []CancelIsLast
<1>1. Init => CancelIsLast BY DEF Init, CancelIsLast
<1>2. QED BY <1>1, CancelIsLastStep, PTL DEF Spec

=============================================================================
