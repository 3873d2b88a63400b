------------------------ MODULE AgentServiceProofs --------------------------
(***************************************************************************)
(* Proofs about the agent service, for every set of streams and users,     *)
(* every pool size, cleanup interval and bound.                            *)
(***************************************************************************)
EXTENDS AgentService, TLAPS

(* A step of a stream: of its worker, its client, its coroutine, or of     *)
(* what its coroutine awaits.  The rest is the clock and the cleanup       *)
(* thread.                                                                 *)
StreamStep(s) ==
  \/ StartStream(s) \/ ClientStep(s) \/ Cancel(s) \/ WorkerStep(s)
  \/ Dispatch(s) \/ LoopStep(s) \/ AwaitedReturns(s)

-----------------------------------------------------------------------------
(* Type correctness *)

(* What a coroutine puts into the dictionary keeps the dictionary's type.  *)
LEMMA PutType ==
  ASSUME TypeOK, NEW u \in Users, NEW c \in Conversation, Put(u, c)
  PROVE  /\ DOMAIN user_conversations' \subseteq Users
         /\ user_conversations' \in [DOMAIN user_conversations' -> Conversation]
BY DEF TypeOK, Put

(* So does what it, or the cleanup thread, deletes. *)
LEMMA DropType ==
  ASSUME TypeOK, NEW U, Drop(U)
  PROVE  /\ DOMAIN user_conversations' \subseteq Users
         /\ user_conversations' \in [DOMAIN user_conversations' -> Conversation]
BY DEF TypeOK, Drop, Restrict

LEMMA InitTypeOK == Init => TypeOK
BY NoUserAssumption DEF Init, TypeOK, Labels, Submitted, Final

LEMMA ClientTypeOK == ASSUME TypeOK, NEW s \in Streams, ClientStep(s) PROVE TypeOK'
<1> USE DEF TypeOK, cleanerVars, streamVars, Labels, Submitted, Final
<1>1. ASSUME NEW u \in Users \cup {NoUser}, RequestInitialize(s, u) PROVE TypeOK'
  <2>1. contested' \subseteq Streams
    BY <1>1 DEF RequestInitialize, Rivals
  <2> QED BY <1>1, <2>1 DEF RequestInitialize
<1>2. CASE RequestMessage(s) \/ RequestRejected(s) \/ RequestClose(s) \/ RequestsEnd(s)
  BY <1>2 DEF RequestMessage, RequestRejected, RequestClose, RequestsEnd, LeaveRequestLoop
<1> QED BY <1>1, <1>2 DEF ClientStep

LEMMA WorkerTypeOK ==
  ASSUME TypeOK, NEW s \in Streams,
         StartStream(s) \/ Cancel(s) \/ WorkerStep(s) \/ Dispatch(s) \/ AwaitedReturns(s)
  PROVE  TypeOK'
<1> USE DEF TypeOK, cleanerVars, streamVars, Labels, Submitted, Final
<1>1. CASE StartStream(s)
  BY <1>1 DEF StartStream
<1>2. CASE Cancel(s)
  BY <1>2 DEF Cancel
<1>3. CASE WorkerStep(s)
  BY <1>3 DEF WorkerStep, Reply, ReplyClosed, StreamAborted, LeaveRequestLoop
<1>4. CASE Dispatch(s)
  BY <1>4 DEF Dispatch
<1>5. CASE AwaitedReturns(s)
  BY <1>5 DEF AwaitedReturns, RunReturns, RunFails, CleanupReturns
<1> QED BY <1>1, <1>2, <1>3, <1>4, <1>5

LEMMA LoopTypeOK == ASSUME TypeOK, NEW s \in Streams, LoopStep(s) PROVE TypeOK'
<1> USE DEF TypeOK, cleanerVars, streamVars, RunsTo, Labels, Submitted, Final
<1>0. user_id[s] \in Users \cup {NoUser} /\ AfterClose(s) \in Labels
  BY DEF AfterClose
<1>1. CASE InitializeFails(s)
  BY <1>1 DEF InitializeFails
<1>2. CASE InitializeSucceeds(s)
  <2>1. NewConversation(s) \in Conversation
    BY DEF NewConversation, Conversation, ConversationId
  <2> QED BY <1>0, <1>2, <2>1, PutType DEF InitializeSucceeds
<1>3. CASE ProcessStarts(s)
  <2>1. /\ user_conversations[user_id[s]] \in Conversation
        /\ user_id[s] \in Users
    BY <1>3 DEF ProcessStarts, Has
  <2>2. /\ user_conversations[user_id[s]].id \in ConversationId
        /\ [user_conversations[user_id[s]] EXCEPT !.age = 0] \in Conversation
    BY <2>1 DEF Conversation
  <2> QED BY <1>3, <2>1, <2>2, PutType DEF ProcessStarts
<1>4. CASE ProcessFindsNothing(s)
  BY <1>4 DEF ProcessFindsNothing
<1>5. CASE ProcessEnds(s)
  <2>1. CASE Has(user_id[s])
    <3> DEFINE c == user_conversations[user_id[s]]
    <3>1. c \in Conversation /\ user_id[s] \in Users
      BY <2>1 DEF Has
    <3>2. [c EXCEPT !.history = @ \cup taken[s], !.age = 0] \in Conversation
      BY <3>1 DEF Conversation
    <3> QED BY <1>5, <2>1, <3>1, <3>2, PutType DEF ProcessEnds
  <2>2. CASE ~Has(user_id[s])
    BY <1>5, <2>2 DEF ProcessEnds
  <2> QED BY <2>1, <2>2
<1>6. CASE CloseFindsNothing(s)
  BY <1>0, <1>6 DEF CloseFindsNothing
<1>7. CASE CloseRemoves(s)
  BY <1>0, <1>7, DropType DEF CloseRemoves
<1>8. CASE CloseAwaitsCleanup(s)
  BY <1>8 DEF CloseAwaitsCleanup
<1>9. CASE CloseForgets(s)
  BY <1>0, <1>9, DropType DEF CloseForgets
<1> QED
  BY <1>1, <1>2, <1>3, <1>4, <1>5, <1>6, <1>7, <1>8, <1>9 DEF LoopStep

LEMMA ClockTypeOK ==
  ASSUME TypeOK, Tick \/ CleanerWakes \/ CleanerSweeps
  PROVE  TypeOK'
<1> USE DEF TypeOK, streamVars
<1>1. CASE Tick
  <2>1. \A u \in DOMAIN user_conversations :
          [user_conversations[u] EXCEPT !.age = @ + 1] \in Conversation
    BY DEF Conversation
  <2> QED BY <1>1, <2>1 DEF Tick
<1>2. CASE CleanerWakes
  BY <1>2 DEF CleanerWakes
<1>3. CASE CleanerSweeps
  <2>1. \A u \in DOMAIN user_conversations : user_conversations[u].id \in ConversationId
    BY DEF Conversation
  <2> QED BY <1>3, <2>1, DropType DEF CleanerSweeps
<1> QED BY <1>1, <1>2, <1>3

LEMMA InductiveTypeOK == TypeOK /\ [Next]_vars => TypeOK'
<1> SUFFICES ASSUME TypeOK, [Next]_vars PROVE TypeOK'
  OBVIOUS
<1>1. ASSUME NEW s \in Streams, StreamStep(s) PROVE TypeOK'
  BY <1>1, ClientTypeOK, WorkerTypeOK, LoopTypeOK DEF StreamStep
<1>2. CASE UNCHANGED vars
  BY <1>2 DEF TypeOK, vars, streamVars, cleanerVars
<1> QED BY <1>1, <1>2, ClockTypeOK DEF Next, StreamStep

(* Every variable always has its type: in particular the dictionary only   *)
(* ever has user ids as keys, also while several threads change it.        *)
THEOREM TypeCorrect == Spec => []TypeOK
BY InitTypeOK, InductiveTypeOK, PTL DEF Spec

-----------------------------------------------------------------------------
(* What a stream's step does to the dictionary *)

(* Every entry a stream's step leaves is one that was there, perhaps       *)
(* touched, or the one it has just initialized.                            *)
LEMMA EntriesAfterStreamStep ==
  ASSUME TypeOK, NEW s \in Streams, StreamStep(s),
         NEW u \in DOMAIN user_conversations'
  PROVE  \/ /\ Has(u)
            /\ user_conversations'[u].id = user_conversations[u].id
            /\ user_conversations'[u].age \in {0, user_conversations[u].age}
         \/ /\ pc[s] = "init" /\ user_id' = user_id /\ user_id[s] = u
            /\ initializes' = initializes
            /\ user_conversations'[u] = NewConversation(s)
<1>1. CASE UNCHANGED user_conversations
  BY <1>1 DEF Has
<1>2. CASE InitializeSucceeds(s)
  BY <1>2 DEF InitializeSucceeds, Put, Has, RunsTo
<1>3. CASE ProcessStarts(s)
  <2>1. \A v \in DOMAIN user_conversations : user_conversations[v] \in Conversation
    BY DEF TypeOK
  <2> QED BY <1>3, <2>1 DEF ProcessStarts, Put, Has, Conversation
<1>4. CASE ProcessEnds(s) /\ Has(user_id[s])
  <2>1. \A v \in DOMAIN user_conversations : user_conversations[v] \in Conversation
    BY DEF TypeOK
  <2> QED BY <1>4, <2>1 DEF ProcessEnds, Put, Has, Conversation
<1>5. CASE CloseRemoves(s) \/ CloseForgets(s)
  BY <1>5 DEF CloseRemoves, CloseForgets, Drop, Restrict, Has
<1>6. \/ UNCHANGED user_conversations
      \/ InitializeSucceeds(s) \/ ProcessStarts(s)
      \/ ProcessEnds(s) /\ Has(user_id[s])
      \/ CloseRemoves(s) \/ CloseForgets(s)
  <2>1. ASSUME StartStream(s) \/ Cancel(s) \/ Dispatch(s) PROVE UNCHANGED user_conversations
    BY <2>1 DEF StartStream, Cancel, Dispatch
  <2>2. ASSUME ClientStep(s) PROVE UNCHANGED user_conversations
    BY <2>2 DEF ClientStep, RequestInitialize, RequestMessage, RequestRejected,
                RequestClose, RequestsEnd, LeaveRequestLoop
  <2>3. ASSUME WorkerStep(s) PROVE UNCHANGED user_conversations
    BY <2>3 DEF WorkerStep, Reply, ReplyClosed, StreamAborted, LeaveRequestLoop
  <2>4. ASSUME AwaitedReturns(s) PROVE UNCHANGED user_conversations
    BY <2>4 DEF AwaitedReturns, RunReturns, RunFails, CleanupReturns
  <2>5. ASSUME LoopStep(s)
        PROVE  \/ UNCHANGED user_conversations
               \/ InitializeSucceeds(s) \/ ProcessStarts(s)
               \/ ProcessEnds(s) /\ Has(user_id[s])
               \/ CloseRemoves(s) \/ CloseForgets(s)
    BY <2>5 DEF LoopStep, InitializeFails, ProcessFindsNothing, ProcessEnds,
                CloseFindsNothing, CloseAwaitsCleanup
  <2> QED BY <2>1, <2>2, <2>3, <2>4, <2>5 DEF StreamStep
<1> QED BY <1>1, <1>2, <1>3, <1>4, <1>5, <1>6

-----------------------------------------------------------------------------
(* Retention *)

(* While the cleanup thread sleeps, what it spared in its last sweep was   *)
(* at most CleanupInterval old when that sweep read the clock, and at most *)
(* MaxLockWait older when it decided; while it waits for the lock, one     *)
(* more interval has passed.                                               *)
AgeInv ==
  /\ cleaner = "sleeping" =>
       /\ elapsed <= CleanupInterval
       /\ \A u \in DOMAIN user_conversations :
            user_conversations[u].age <= CleanupInterval + MaxLockWait + elapsed
  /\ cleaner = "sampled" =>
       /\ elapsed <= MaxLockWait
       /\ \A u \in DOMAIN user_conversations :
            user_conversations[u].age <= 2 * CleanupInterval + MaxLockWait + elapsed

LEMMA AgeInvImpliesRetention == TypeOK /\ AgeInv => RetentionBound
<1> SUFFICES ASSUME TypeOK, AgeInv, NEW u \in DOMAIN user_conversations
             PROVE  user_conversations[u].age <= 2 * CleanupInterval + 2 * MaxLockWait
  BY DEF RetentionBound
<1>1. user_conversations[u].age \in Nat
  BY DEF TypeOK, Conversation
<1> QED BY <1>1, BoundsAssumption DEF TypeOK, AgeInv

LEMMA AgeInvStep == TypeOK /\ AgeInv /\ [Next]_vars => AgeInv'
<1> SUFFICES ASSUME TypeOK, AgeInv, [Next]_vars PROVE AgeInv'
  OBVIOUS
<1> USE BoundsAssumption
<1>0. \A u \in DOMAIN user_conversations : user_conversations[u].age \in Nat
  BY DEF TypeOK, Conversation
<1>1. ASSUME NEW s \in Streams, StreamStep(s) PROVE AgeInv'
  <2>1. UNCHANGED <<cleaner, elapsed>>
    BY <1>1 DEF StreamStep, StartStream, ClientStep, RequestInitialize, RequestMessage,
         RequestRejected, RequestClose, RequestsEnd, LeaveRequestLoop, Cancel, WorkerStep,
         Reply, ReplyClosed, StreamAborted, Dispatch, LoopStep, InitializeFails,
         InitializeSucceeds, ProcessStarts, ProcessFindsNothing, ProcessEnds,
         CloseFindsNothing, CloseRemoves, CloseAwaitsCleanup, CloseForgets,
         AwaitedReturns, RunReturns, RunFails, CleanupReturns, cleanerVars
  <2>2. \A u \in DOMAIN user_conversations' :
          \/ user_conversations'[u].age = 0
          \/ Has(u) /\ user_conversations'[u].age = user_conversations[u].age
    BY <1>1, EntriesAfterStreamStep DEF NewConversation
  <2> QED BY <2>1, <2>2, <1>0 DEF AgeInv, Has, TypeOK
<1>2. CASE Tick
  <2>1. \A u \in DOMAIN user_conversations' :
          /\ u \in DOMAIN user_conversations
          /\ user_conversations'[u].age = user_conversations[u].age + 1
    BY <1>2 DEF Tick, TypeOK, Conversation
  <2> QED BY <1>0, <1>2, <2>1 DEF Tick, AgeInv, TypeOK
<1>3. CASE CleanerWakes
  BY <1>0, <1>3 DEF CleanerWakes, AgeInv, TypeOK
<1>4. CASE CleanerSweeps
  <2>1. \A u \in DOMAIN user_conversations' :
          /\ u \in DOMAIN user_conversations
          /\ user_conversations'[u] = user_conversations[u]
          /\ ~ Expired(u)
    BY <1>4 DEF CleanerSweeps, Drop, Restrict
  <2> QED BY <1>0, <1>4, <2>1 DEF CleanerSweeps, Expired, AgeInv, TypeOK
<1>5. CASE UNCHANGED vars
  BY <1>5 DEF vars, cleanerVars, AgeInv
<1> QED BY <1>1, <1>2, <1>3, <1>4, <1>5 DEF Next, StreamStep

(* However streams interleave with the sweep, no conversation is idle for  *)
(* more than two cleanup intervals and twice the wait for the lock.        *)
THEOREM RetentionBounded == Spec => []RetentionBound
<1>1. Init => AgeInv
  BY BoundsAssumption DEF Init, AgeInv
<1> QED BY <1>1, AgeInvStep, AgeInvImpliesRetention, TypeCorrect, PTL DEF Spec

(* The sweep decides on a clock that is late, never early: it spares what  *)
(* was active within the last CleanupInterval.                             *)
THEOREM SweepSparesActiveAlways == Spec => SweepSparesActive
<1> DEFINE Spares == \A u \in DOMAIN user_conversations \ DOMAIN user_conversations' :
                       cleaner # cleaner' => user_conversations[u].age > CleanupInterval
<1>1. TypeOK /\ [Next]_vars => [Spares]_vars
  <2> SUFFICES ASSUME TypeOK, Next, cleaner # cleaner',
                      NEW u \in DOMAIN user_conversations \ DOMAIN user_conversations'
               PROVE  user_conversations[u].age > CleanupInterval
    BY DEF vars, cleanerVars
  <2>1. ~ \E s \in Streams : StreamStep(s)
    BY DEF StreamStep, StartStream, ClientStep, RequestInitialize, RequestMessage,
         RequestRejected, RequestClose, RequestsEnd, LeaveRequestLoop, Cancel, WorkerStep,
         Reply, ReplyClosed, StreamAborted, Dispatch, LoopStep, InitializeFails,
         InitializeSucceeds, ProcessStarts, ProcessFindsNothing, ProcessEnds,
         CloseFindsNothing, CloseRemoves, CloseAwaitsCleanup, CloseForgets,
         AwaitedReturns, RunReturns, RunFails, CleanupReturns, cleanerVars
  <2>2. ~ Tick /\ ~ CleanerWakes
    BY DEF Tick, CleanerWakes
  <2>3. CleanerSweeps
    BY <2>1, <2>2 DEF Next, StreamStep
  <2>4. Expired(u) /\ user_conversations[u].age \in Nat
    BY <2>3 DEF CleanerSweeps, Drop, Restrict, TypeOK, Conversation
  <2> QED BY <2>4, BoundsAssumption DEF Expired, TypeOK
<1> QED BY <1>1, TypeCorrect, PTL DEF Spec, SweepSparesActive

-----------------------------------------------------------------------------
(* The lock held across an await *)

(* Only the coroutine that awaits agent.cleanup() holds the lock between   *)
(* two steps, and nobody changes the dictionary meanwhile: its "del" finds *)
(* the entry it looked up.                                                 *)
LEMMA CleanupKeepsEntryStep ==
  TypeOK /\ CleanupKeepsEntry /\ [Next]_vars => CleanupKeepsEntry'
<1> SUFFICES ASSUME TypeOK, CleanupKeepsEntry, [Next]_vars,
                    NEW t \in Streams, pc'[t] \in {"cleanup", "forget"}
             PROVE  lock' = t /\ Has(user_id[t])'
  BY DEF CleanupKeepsEntry
<1> USE NobodyAssumption DEF CleanupKeepsEntry, TypeOK, streamVars, cleanerVars
<1>1. ASSUME NEW s \in Streams,
             StartStream(s) \/ Cancel(s) \/ Dispatch(s) \/ AwaitedReturns(s)
      PROVE  lock' = t /\ Has(user_id[t])'
  BY <1>1 DEF StartStream, Cancel, Dispatch, AwaitedReturns, RunReturns, RunFails,
              CleanupReturns, Has
<1>2. ASSUME NEW s \in Streams, ClientStep(s)
      PROVE  lock' = t /\ Has(user_id[t])'
  BY <1>2 DEF ClientStep, RequestInitialize, RequestMessage, RequestRejected,
              RequestClose, RequestsEnd, LeaveRequestLoop, Has
<1>3. ASSUME NEW s \in Streams, WorkerStep(s)
      PROVE  lock' = t /\ Has(user_id[t])'
  BY <1>3 DEF WorkerStep, Reply, ReplyClosed, StreamAborted, LeaveRequestLoop, Has
<1>4. ASSUME NEW s \in Streams, LoopStep(s)
      PROVE  lock' = t /\ Has(user_id[t])'
  <2> USE DEF RunsTo, AfterClose
  <2>1. CASE InitializeFails(s) \/ ProcessFindsNothing(s) \/ CloseFindsNothing(s)
    BY <2>1 DEF InitializeFails, ProcessFindsNothing, CloseFindsNothing, Has
  <2>2. CASE InitializeSucceeds(s) \/ ProcessStarts(s) \/ ProcessEnds(s) \/ CloseRemoves(s)
    BY <2>2 DEF InitializeSucceeds, ProcessStarts, ProcessEnds, CloseRemoves
  <2>3. CASE CloseAwaitsCleanup(s)
    BY <2>3 DEF CloseAwaitsCleanup, Has
  <2>4. CASE CloseForgets(s)
    BY <2>4 DEF CloseForgets
  <2> QED BY <1>4, <2>1, <2>2, <2>3, <2>4 DEF LoopStep
<1>5. CASE Tick \/ CleanerWakes
  BY <1>5 DEF Tick, CleanerWakes, Has
<1>6. CASE CleanerSweeps
  BY <1>6 DEF CleanerSweeps, CleanerAcquires
<1>7. CASE UNCHANGED vars
  BY <1>7 DEF vars, Has
<1> QED BY <1>1, <1>2, <1>3, <1>4, <1>5, <1>6, <1>7 DEF Next

(* The deletion after the await never meets a missing key.                 *)
THEOREM CleanupKeepsEntryAlways == Spec => []CleanupKeepsEntry
<1>1. Init => CleanupKeepsEntry
  BY DEF Init, CleanupKeepsEntry
<1> QED BY <1>1, CleanupKeepsEntryStep, TypeCorrect, PTL DEF Spec

-----------------------------------------------------------------------------
(* The event loop and the lock *)

(* Without an agent.cleanup() to await, nobody holds the lock between two  *)
(* steps, and the coroutine that the loop runs is one that may run.        *)
LoopFree ==
  /\ lock = Nobody
  /\ \A s \in Streams : pc[s] \notin {"cleanup", "forget"}
  /\ loop # Nobody => pc[loop] \in Submitted

LEMMA LoopFreeStep ==
  ASSUME AgentHasCleanup = FALSE
  PROVE  TypeOK /\ LoopFree /\ [Next]_vars => LoopFree'
<1> SUFFICES ASSUME TypeOK, LoopFree, [Next]_vars PROVE LoopFree'
  OBVIOUS
<1> USE NobodyAssumption DEF LoopFree, TypeOK, streamVars, cleanerVars, Submitted
<1>1. ASSUME NEW s \in Streams, StartStream(s) \/ Cancel(s) \/ Dispatch(s) \/ AwaitedReturns(s)
      PROVE  LoopFree'
  BY <1>1 DEF StartStream, Cancel, Dispatch, AwaitedReturns, RunReturns, RunFails,
              CleanupReturns
<1>2. ASSUME NEW s \in Streams, ClientStep(s)
      PROVE  LoopFree'
  BY <1>2 DEF ClientStep, RequestInitialize, RequestMessage, RequestRejected,
              RequestClose, RequestsEnd, LeaveRequestLoop
<1>3. ASSUME NEW s \in Streams, WorkerStep(s)
      PROVE  LoopFree'
  BY <1>3 DEF WorkerStep, Reply, ReplyClosed, StreamAborted, LeaveRequestLoop, Interruptible
<1>4. ASSUME NEW s \in Streams, LoopStep(s)
      PROVE  LoopFree'
  <2> USE DEF RunsTo, AfterClose
  <2>1. CASE InitializeFails(s) \/ InitializeSucceeds(s) \/ ProcessStarts(s)
             \/ ProcessFindsNothing(s) \/ ProcessEnds(s)
    BY <2>1 DEF InitializeFails, InitializeSucceeds, ProcessStarts, ProcessFindsNothing,
                ProcessEnds
  <2>2. CASE CloseFindsNothing(s) \/ CloseRemoves(s)
    BY <2>2 DEF CloseFindsNothing, CloseRemoves
  <2>3. ~CloseAwaitsCleanup(s) /\ ~CloseForgets(s)
    BY AgentHasCleanup = FALSE DEF CloseAwaitsCleanup, CloseForgets
  <2> QED BY <1>4, <2>1, <2>2, <2>3 DEF LoopStep
<1>5. CASE Tick \/ CleanerWakes \/ CleanerSweeps \/ UNCHANGED vars
  BY <1>5 DEF Tick, CleanerWakes, CleanerSweeps, vars
<1> QED BY <1>1, <1>2, <1>3, <1>4, <1>5 DEF Next

(* As long as no agent has a cleanup(), and none has, the event loop never *)
(* waits for a lock that one of its own suspended coroutines holds:        *)
(* whenever it runs a coroutine, the lock is free, whatever clients do.    *)
THEOREM LoopNeverBlocked ==
  ASSUME AgentHasCleanup = FALSE
  PROVE  Spec => [](\A s \in Streams : loop = s => pc[s] \in Submitted /\ lock = Nobody)
<1>1. Init => LoopFree
  BY DEF Init, LoopFree
<1>2. LoopFree => \A s \in Streams : loop = s => pc[s] \in Submitted /\ lock = Nobody
  BY NobodyAssumption DEF LoopFree
<1> QED BY <1>1, <1>2, LoopFreeStep, TypeCorrect, PTL DEF Spec

-----------------------------------------------------------------------------
(* Orderly ends release *)

(* A conversation was made by a stream that has read INITIALIZE, under the *)
(* user that stream still has if it read no other.                         *)
MakerInv ==
  \A u \in DOMAIN user_conversations :
    LET s == user_conversations[u].id.stream
    IN  /\ initializes[s] >= 1
        /\ initializes[s] <= 1 => user_id[s] = u

(* A coroutine exists only for a stream that has read INITIALIZE. *)
InitReadInv == \A s \in Streams : pc[s] = "init" => initializes[s] >= 1

ReleaseInv == MakerInv /\ InitReadInv /\ OrderlyEndReleases

LEMMA StreamsOfEntries ==
  ASSUME TypeOK
  PROVE  \A u \in DOMAIN user_conversations : user_conversations[u].id.stream \in Streams
BY DEF TypeOK, Conversation, ConversationId

(* What a step of s changes of the variables the invariant is about. *)
LEMMA ControlAfterStreamStep ==
  ASSUME TypeOK, NEW s \in Streams, StreamStep(s)
  PROVE  /\ \A t \in Streams \ {s} :
              pc'[t] = pc[t] /\ user_id'[t] = user_id[t] /\ initializes'[t] = initializes[t]
         /\ \/ user_id' = user_id /\ initializes' = initializes
            \/ initializes'[s] = initializes[s] + 1 /\ pc'[s] = "init"
         /\ pc'[s] = "init" => initializes'[s] = initializes[s] + 1 \/ pc[s] = "init"
         /\ pc'[s] = "done" =>
              \/ user_id'[s] = NoUser
              \/ ~ Has(user_id[s])'
<1> USE DEF TypeOK, streamVars, cleanerVars
<1>1. CASE StartStream(s) \/ Cancel(s) \/ Dispatch(s) \/ AwaitedReturns(s)
  BY <1>1 DEF StartStream, Cancel, Dispatch, AwaitedReturns, RunReturns, RunFails,
              CleanupReturns, Submitted, Ended, Final
<1>2. CASE ClientStep(s)
  BY <1>2 DEF ClientStep, RequestInitialize, RequestMessage, RequestRejected,
              RequestClose, RequestsEnd, LeaveRequestLoop
<1>3. CASE WorkerStep(s)
  BY <1>3 DEF WorkerStep, Reply, ReplyClosed, StreamAborted, LeaveRequestLoop
<1>4. CASE LoopStep(s)
  <2> USE DEF RunsTo, AfterClose, Has
  <2>1. CASE InitializeFails(s) \/ InitializeSucceeds(s) \/ ProcessStarts(s)
             \/ ProcessFindsNothing(s) \/ ProcessEnds(s) \/ CloseAwaitsCleanup(s)
    BY <2>1 DEF InitializeFails, InitializeSucceeds, ProcessStarts, ProcessFindsNothing,
                ProcessEnds, CloseAwaitsCleanup
  <2>2. CASE CloseFindsNothing(s)
    BY <2>2 DEF CloseFindsNothing
  <2>3. CASE CloseRemoves(s) \/ CloseForgets(s)
    BY <2>3 DEF CloseRemoves, CloseForgets, Drop, Restrict
  <2> QED BY <1>4, <2>1, <2>2, <2>3 DEF LoopStep
<1> QED BY <1>1, <1>2, <1>3, <1>4 DEF StreamStep

LEMMA ReleaseInvStep == TypeOK /\ ReleaseInv /\ [Next]_vars => ReleaseInv'
<1> SUFFICES ASSUME TypeOK, ReleaseInv, [Next]_vars PROVE ReleaseInv'
  OBVIOUS
<1> USE DEF ReleaseInv
<1>0. TypeOK'
  BY InductiveTypeOK
<1>1. ASSUME NEW s \in Streams, StreamStep(s) PROVE ReleaseInv'
  <2> DEFINE Entry(u)  == user_conversations[u]
             Touched(u) == Has(u) /\ user_conversations'[u].id = Entry(u).id
             Made(u)    == /\ pc[s] = "init" /\ user_id' = user_id /\ user_id[s] = u
                           /\ initializes' = initializes
                           /\ user_conversations'[u] = NewConversation(s)
  <2>1. \A u \in DOMAIN user_conversations' : Touched(u) \/ Made(u)
    BY <1>1, EntriesAfterStreamStep
  <2>2. MakerInv'
    <3> SUFFICES ASSUME NEW u \in DOMAIN user_conversations',
                        NEW t, t = user_conversations'[u].id.stream
                 PROVE  /\ initializes'[t] >= 1
                        /\ initializes'[t] <= 1 => user_id'[t] = u
      BY DEF MakerInv
    <3>1. CASE Touched(u)
      <4>1. /\ t \in Streams /\ t = Entry(u).id.stream
            /\ initializes[t] >= 1
            /\ initializes[t] <= 1 => user_id[t] = u
        BY <3>1, StreamsOfEntries DEF MakerInv, Has
      <4>2. initializes[t] \in Nat
        BY <4>1 DEF TypeOK
      <4>3. \/ user_id'[t] = user_id[t] /\ initializes'[t] = initializes[t]
            \/ initializes'[t] = initializes[t] + 1
        BY <1>1, <4>1, ControlAfterStreamStep
      <4> QED BY <4>1, <4>2, <4>3
    <3>2. CASE Made(u)
      <4>1. t = s
        BY <3>2 DEF NewConversation
      <4> QED BY <3>2, <4>1 DEF InitReadInv, TypeOK
    <3> QED BY <2>1, <3>1, <3>2
  <2>3. InitReadInv'
    BY <1>1, ControlAfterStreamStep DEF InitReadInv, TypeOK
  <2>4. OrderlyEndReleases'
    <3> SUFFICES ASSUME NEW t \in Streams, pc'[t] = "done", initializes'[t] <= 1,
                        NEW u \in DOMAIN user_conversations',
                        user_conversations'[u].id.stream = t
                 PROVE  FALSE
      BY DEF OrderlyEndReleases
    <3>1. user_id'[t] = u /\ u \in Users
      BY <1>0, <2>2 DEF MakerInv, TypeOK
    <3>2. CASE t = s
      BY <1>1, <3>1, <3>2, ControlAfterStreamStep, NoUserAssumption DEF Has
    <3>3. CASE t # s
      <4>1. pc[t] = "done" /\ initializes[t] <= 1
        BY <1>1, <3>3, ControlAfterStreamStep
      <4>2. ~ Made(u)
        BY <3>3 DEF NewConversation
      <4> QED BY <2>1, <4>1, <4>2 DEF OrderlyEndReleases, Has
    <3> QED BY <3>2, <3>3
  <2> QED BY <2>2, <2>3, <2>4
<1>2. CASE Tick \/ CleanerWakes \/ CleanerSweeps
  <2>1. /\ UNCHANGED <<pc, user_id, initializes>>
        /\ \A u \in DOMAIN user_conversations' :
             Has(u) /\ user_conversations'[u].id = user_conversations[u].id
    BY <1>2 DEF Tick, CleanerWakes, CleanerSweeps, Drop, Restrict, Has, streamVars,
                TypeOK, Conversation
  <2> QED BY <2>1 DEF MakerInv, InitReadInv, OrderlyEndReleases, Has
<1>3. CASE UNCHANGED vars
  BY <1>3 DEF vars, streamVars, MakerInv, InitReadInv, OrderlyEndReleases
<1> QED BY <1>1, <1>2, <1>3 DEF Next, StreamStep

(* A generator that ran to its end has taken its conversation with it,     *)
(* whatever other streams, sweeps and clients did in between.              *)
THEOREM OrderlyEndReleasesAlways == Spec => []OrderlyEndReleases
<1>1. Init => ReleaseInv
  BY DEF Init, ReleaseInv, MakerInv, InitReadInv, OrderlyEndReleases
<1>2. ReleaseInv => OrderlyEndReleases
  BY DEF ReleaseInv
<1> QED BY <1>1, <1>2, ReleaseInvStep, TypeCorrect, PTL DEF Spec

-----------------------------------------------------------------------------
(* Streams of one user *)

(* A step of s is a step of an open stream, and leaves alone what belongs  *)
(* to the other streams and to the users that s does not name.             *)
LEMMA StreamStepFrame ==
  ASSUME TypeOK, NEW s \in Streams, StreamStep(s)
  PROVE  /\ ~ Ended(s)
         /\ swept' = swept
         /\ contested \subseteq contested'
         /\ \A t \in Streams \ {s} :
              /\ pc'[t] = pc[t] /\ user_id'[t] = user_id[t]
              /\ own'[t] = own[t] /\ taken'[t] = taken[t]
         /\ \A u : u # user_id[s] =>
              /\ Has(u)' <=> Has(u)
              /\ Has(u) => user_conversations'[u] = user_conversations[u]
<1> USE DEF TypeOK, streamVars, cleanerVars, Ended, Final, Has
<1>1. CASE StartStream(s) \/ Cancel(s) \/ Dispatch(s) \/ AwaitedReturns(s)
  BY <1>1 DEF StartStream, Cancel, Dispatch, AwaitedReturns, RunReturns, RunFails,
              CleanupReturns, Submitted
<1>2. CASE ClientStep(s)
  BY <1>2 DEF ClientStep, RequestInitialize, RequestMessage, RequestRejected,
              RequestClose, RequestsEnd, LeaveRequestLoop
<1>3. CASE WorkerStep(s)
  BY <1>3 DEF WorkerStep, Reply, ReplyClosed, StreamAborted, LeaveRequestLoop, Interruptible
<1>4. CASE LoopStep(s)
  <2> USE DEF RunsTo
  <2>1. CASE InitializeFails(s) \/ ProcessFindsNothing(s) \/ CloseFindsNothing(s)
             \/ CloseAwaitsCleanup(s)
    BY <2>1 DEF InitializeFails, ProcessFindsNothing, CloseFindsNothing, CloseAwaitsCleanup
  <2>2. CASE InitializeSucceeds(s)
    BY <2>2 DEF InitializeSucceeds, Put
  <2>3. CASE ProcessStarts(s) \/ ProcessEnds(s)
    BY <2>3 DEF ProcessStarts, ProcessEnds, Put
  <2>4. CASE CloseRemoves(s) \/ CloseForgets(s)
    BY <2>4 DEF CloseRemoves, CloseForgets, Drop, Restrict
  <2> QED BY <1>4, <2>1, <2>2, <2>3, <2>4 DEF LoopStep
<1> QED BY <1>1, <1>2, <1>3, <1>4 DEF StreamStep

(* Open streams that name the same user have met: both are contested.      *)
RivalsContested ==
  \A s, t \in Streams :
    /\ s # t /\ ~ Ended(s) /\ ~ Ended(t)
    /\ user_id[s] = user_id[t] /\ user_id[s] # NoUser
    => s \in contested

(* A conversation with id c was made while its stream named u; whether it  *)
(* did can be told as long as the stream has not read another INITIALIZE.  *)
MadeFor(c, u) ==
  /\ c.serial <= initializes[c.stream]
  /\ c.serial = initializes[c.stream] => user_id[c.stream] = u

(* So were the conversations in the dictionary, those whose messages are   *)
(* in a history, and those that a coroutine has looked up.                 *)
EntriesMadeFor ==
  \A u \in DOMAIN user_conversations :
    /\ MadeFor(user_conversations[u].id, u)
    /\ \A a \in user_conversations[u].history : MadeFor(a, u)

TakenMadeFor(s) ==
  pc[s] \in {"run", "record"} => \A c \in taken[s] : MadeFor(c, user_id[s])

(* A stream is granted a conversation only while its generator is in its   *)
(* loop and neither initializes nor closes, and unless it is contested it  *)
(* finds that conversation.                                                *)
OwnRow(s) ==
  own[s] # 0 => /\ pc[s] \in {"reading", "process", "run", "record", "reply"}
                /\ user_id[s] # NoUser
                /\ s \in contested \/ Keeps(s)

(* When a message's answer comes back, its user has no conversation, the   *)
(* one the message was sent in, or one whose stream was contested.         *)
TakenRow(s) ==
  pc[s] \in {"run", "record"} /\ Has(user_id[s]) =>
    LET c == user_conversations[user_id[s]].id
    IN  taken[s] = {c} \/ c.stream \in contested

Rows == \A s \in Streams : TakenMadeFor(s) /\ OwnRow(s) /\ TakenRow(s)

SharedInv == RivalsContested /\ EntriesMadeFor /\ Rows /\ HistoryProvenance

(* A step that is not INITIALIZE changes no stream's user. *)
LEMMA UserChanges ==
  ASSUME TypeOK, NEW s \in Streams, StreamStep(s)
  PROVE  UNCHANGED user_id \/ \E u \in Users \cup {NoUser} : RequestInitialize(s, u)
BY DEF StreamStep, StartStream, ClientStep, RequestMessage, RequestRejected,
       RequestClose, RequestsEnd, LeaveRequestLoop, Cancel, WorkerStep, Reply,
       ReplyClosed, StreamAborted, Dispatch, LoopStep, InitializeFails,
       InitializeSucceeds, ProcessStarts, ProcessFindsNothing, ProcessEnds,
       CloseFindsNothing, CloseRemoves, CloseAwaitsCleanup, CloseForgets,
       AwaitedReturns, RunReturns, RunFails, CleanupReturns, streamVars

LEMMA RivalsContestedStep ==
  ASSUME TypeOK, RivalsContested, NEW s \in Streams, StreamStep(s)
  PROVE  RivalsContested'
<1>1. /\ ~ Ended(s) /\ contested \subseteq contested'
      /\ \A t \in Streams \ {s} : pc'[t] = pc[t] /\ user_id'[t] = user_id[t]
  BY StreamStepFrame
<1>2. CASE UNCHANGED user_id
  BY <1>1, <1>2 DEF RivalsContested, Ended
<1>3. ASSUME NEW u \in Users \cup {NoUser}, RequestInitialize(s, u) PROVE RivalsContested'
  <2>1. user_id'[s] = u
    BY <1>3 DEF RequestInitialize, TypeOK
  <2>2. \A t \in Streams \ {s} :
          user_id[t] = u /\ u # NoUser /\ ~ Ended(t) => s \in contested' /\ t \in contested'
    BY <1>3 DEF RequestInitialize, Rivals
  <2> QED BY <1>1, <2>1, <2>2 DEF RivalsContested, Ended
<1> QED BY <1>2, <1>3, UserChanges

(* When a stream has read another INITIALIZE, its older conversations have *)
(* older serials.                                                          *)
LEMMA MadeForStep ==
  ASSUME TypeOK, NEW s \in Streams, StreamStep(s),
         NEW c \in ConversationId, NEW u, MadeFor(c, u)
  PROVE  /\ c.serial <= initializes'[c.stream]
         /\ c.serial = initializes'[c.stream] => user_id'[c.stream] = u
<1>1. c.stream \in Streams /\ c.serial \in Nat /\ initializes[c.stream] \in Nat
  BY DEF ConversationId, TypeOK
<1>2. \/ user_id'[c.stream] = user_id[c.stream] /\ initializes'[c.stream] = initializes[c.stream]
      \/ initializes'[c.stream] = initializes[c.stream] + 1
  BY <1>1, ControlAfterStreamStep
<1> QED BY <1>1, <1>2 DEF MadeFor

(* What recording an answer does to the dictionary. *)
LEMMA ProcessEndsEffect ==
  ASSUME TypeOK, NEW s \in Streams, ProcessEnds(s), Has(user_id[s])
  PROVE  /\ DOMAIN user_conversations' = DOMAIN user_conversations
         /\ \A u \in DOMAIN user_conversations \ {user_id[s]} :
              user_conversations'[u] = user_conversations[u]
         /\ LET c == user_conversations[user_id[s]]
                d == user_conversations'[user_id[s]]
            IN  d.id = c.id /\ d.history = c.history \cup taken[s] /\ d.age = 0
<1> DEFINE u == user_id[s]
           c == user_conversations[u]
           d == [c EXCEPT !.history = @ \cup taken[s], !.age = 0]
<1>1. c \in Conversation
  BY DEF TypeOK, Has
<1>2. d.id = c.id /\ d.history = c.history \cup taken[s] /\ d.age = 0
  BY <1>1 DEF Conversation
<1>3. Put(u, d)
  BY DEF ProcessEnds
<1> HIDE DEF d
<1> QED BY <1>2, <1>3 DEF Put, Has

(* What a stream's step does to a conversation and its history. *)
LEMMA HistoriesAfterStreamStep ==
  ASSUME TypeOK, NEW s \in Streams, StreamStep(s),
         NEW u \in DOMAIN user_conversations'
  PROVE  \/ /\ Has(u)
            /\ user_conversations'[u].id = user_conversations[u].id
            /\ \/ user_conversations'[u].history = user_conversations[u].history
               \/ /\ pc[s] = "record" /\ u = user_id[s]
                  /\ user_conversations'[u].history = user_conversations[u].history \cup taken[s]
         \/ /\ InitializeSucceeds(s) /\ user_id[s] = u
            /\ user_conversations'[u] = NewConversation(s)
<1>0. \A v \in DOMAIN user_conversations : user_conversations[v] \in Conversation
  BY DEF TypeOK
<1>1. CASE Has(u) /\ user_conversations'[u] = user_conversations[u]
  BY <1>1
<1>2. CASE InitializeSucceeds(s)
  BY <1>2 DEF InitializeSucceeds, Put, Has
<1>3. CASE ProcessStarts(s)
  BY <1>0, <1>3 DEF ProcessStarts, Put, Conversation, Has
<1>4. CASE ProcessEnds(s)
  <2>1. CASE Has(user_id[s])
    BY <1>4, <2>1, ProcessEndsEffect DEF Has, ProcessEnds, RunsTo
  <2>2. CASE ~ Has(user_id[s])
    BY <1>4, <2>2 DEF ProcessEnds, Has
  <2> QED BY <2>1, <2>2
<1>5. \/ Has(u) /\ user_conversations'[u] = user_conversations[u]
      \/ InitializeSucceeds(s) \/ ProcessStarts(s) \/ ProcessEnds(s)
  <2>1. ASSUME ~ LoopStep(s) PROVE user_conversations' = user_conversations
    BY <2>1 DEF StreamStep, StartStream, ClientStep, RequestInitialize, RequestMessage,
         RequestRejected, RequestClose, RequestsEnd, LeaveRequestLoop, Cancel, WorkerStep,
         Reply, ReplyClosed, StreamAborted, Dispatch, AwaitedReturns, RunReturns, RunFails,
         CleanupReturns
  <2>2. CASE LoopStep(s)
    BY <2>2 DEF LoopStep, InitializeFails, ProcessFindsNothing, CloseFindsNothing,
                CloseAwaitsCleanup, CloseRemoves, CloseForgets, Drop, Restrict, Has
  <2> QED BY <2>1, <2>2 DEF Has
<1> QED BY <1>1, <1>2, <1>3, <1>4, <1>5

(* What was made for a user stays so, also what is recorded as a history.  *)
LEMMA EntriesMadeForStep ==
  ASSUME TypeOK, EntriesMadeFor, NEW s \in Streams, TakenMadeFor(s), StreamStep(s)
  PROVE  EntriesMadeFor'
<1> SUFFICES ASSUME NEW u \in DOMAIN user_conversations', NEW c,
                    \/ c = user_conversations'[u].id
                    \/ c \in user_conversations'[u].history
             PROVE  /\ c.serial <= initializes'[c.stream]
                    /\ c.serial = initializes'[c.stream] => user_id'[c.stream] = u
  BY DEF EntriesMadeFor, MadeFor
<1>1. ASSUME Has(u), \/ c = user_conversations[u].id
                     \/ c \in user_conversations[u].history
      PROVE  c \in ConversationId /\ MadeFor(c, u)
  BY <1>1 DEF EntriesMadeFor, Has, TypeOK, Conversation
<1>2. ASSUME pc[s] = "record", u = user_id[s], c \in taken[s]
      PROVE  c \in ConversationId /\ MadeFor(c, u)
  BY <1>2 DEF TakenMadeFor, TypeOK
<1>3. CASE c \in ConversationId /\ MadeFor(c, u)
  BY <1>3, MadeForStep
<1>4. CASE InitializeSucceeds(s) /\ user_id[s] = u /\ c = NewConversation(s).id
  <2>1. c.stream = s /\ c.serial = initializes[s] /\ initializes[s] \in Nat
    BY <1>4 DEF NewConversation, TypeOK
  <2>2. user_id' = user_id /\ initializes' = initializes
    BY <1>4 DEF InitializeSucceeds
  <2> QED BY <1>4, <2>1, <2>2
<1>5. InitializeSucceeds(s) /\ user_conversations'[u] = NewConversation(s)
        => c = NewConversation(s).id
  BY DEF NewConversation
<1> QED BY <1>1, <1>2, <1>3, <1>4, <1>5, HistoriesAfterStreamStep

(* A coroutine looks up what the dictionary has. *)
LEMMA TakenMadeForStep ==
  ASSUME TypeOK, EntriesMadeFor, NEW s \in Streams, StreamStep(s),
         NEW t \in Streams, TakenMadeFor(t)
  PROVE  TakenMadeFor(t)'
<1> SUFFICES ASSUME pc'[t] \in {"run", "record"}, NEW c \in taken'[t]
             PROVE  /\ c.serial <= initializes'[c.stream]
                    /\ c.serial = initializes'[c.stream] => user_id'[c.stream] = user_id'[t]
  BY DEF TakenMadeFor, MadeFor
<1>1. c \in ConversationId /\ MadeFor(c, user_id[t]) /\ user_id'[t] = user_id[t]
  <2>1. CASE t # s
    BY <2>1, StreamStepFrame DEF TakenMadeFor, TypeOK
  <2>2. CASE t = s /\ ProcessStarts(s)
    BY <2>2 DEF ProcessStarts, EntriesMadeFor, Has, TypeOK, Conversation
  <2>3. CASE t = s /\ ~ ProcessStarts(s)
    <3> USE DEF streamVars, TypeOK
    <3>1. ~ ClientStep(s)
      BY <2>3 DEF ClientStep, RequestInitialize, RequestMessage, RequestRejected,
                  RequestClose, RequestsEnd, LeaveRequestLoop
    <3>2. ~ WorkerStep(s) /\ ~ StartStream(s)
      BY <2>3 DEF WorkerStep, Reply, ReplyClosed, StreamAborted, LeaveRequestLoop, StartStream
    <3>3. ~ LoopStep(s)
      BY <2>3 DEF LoopStep, InitializeFails, InitializeSucceeds, ProcessFindsNothing,
                  ProcessEnds, RunsTo, AfterClose, CloseFindsNothing, CloseRemoves,
                  CloseAwaitsCleanup, CloseForgets
    <3>4. pc[s] \in {"run", "record"} /\ taken' = taken /\ user_id' = user_id
      BY <2>3, <3>1, <3>2, <3>3 DEF StreamStep, Cancel, Dispatch, AwaitedReturns, RunFails,
                                    CleanupReturns, RunReturns
    <3> QED BY <2>3, <3>4 DEF TakenMadeFor
  <2> QED BY <2>1, <2>2, <2>3
<1> QED BY <1>1, MadeForStep

(* The row of the stream that takes the step. *)
LEMMA OwnRowStep ==
  ASSUME TypeOK, NEW s \in Streams, StreamStep(s), OwnRow(s), TakenRow(s)
  PROVE  OwnRow(s)' /\ TakenRow(s)'
<1>0. contested \subseteq contested'
  BY StreamStepFrame
<1> USE DEF TypeOK, streamVars, cleanerVars, OwnRow, TakenRow, Keeps, Has
<1>1. CASE StartStream(s) \/ Cancel(s) \/ Dispatch(s) \/ AwaitedReturns(s)
  BY <1>1 DEF StartStream, Cancel, Dispatch, AwaitedReturns, RunReturns, RunFails,
              CleanupReturns
<1>2. CASE ClientStep(s)
  <2>1. CASE RequestMessage(s) \/ RequestRejected(s)
    BY <2>1 DEF RequestMessage, RequestRejected
  <2>2. CASE RequestClose(s) \/ RequestsEnd(s)
    BY <2>2 DEF RequestClose, RequestsEnd, LeaveRequestLoop
  <2>3. CASE \E u \in Users \cup {NoUser} : RequestInitialize(s, u)
    BY <2>3 DEF RequestInitialize
  <2> QED BY <1>2, <2>1, <2>2, <2>3 DEF ClientStep
<1>3. CASE WorkerStep(s)
  BY <1>3 DEF WorkerStep, Reply, ReplyClosed, StreamAborted, LeaveRequestLoop
<1>4. CASE LoopStep(s)
  <2> USE DEF RunsTo
  <2>0. \A u \in DOMAIN user_conversations : user_conversations[u] \in Conversation
    OBVIOUS
  <2>1. CASE InitializeFails(s) \/ ProcessFindsNothing(s) \/ CloseFindsNothing(s)
             \/ CloseAwaitsCleanup(s)
    BY <2>1 DEF InitializeFails, ProcessFindsNothing, CloseFindsNothing,
                CloseAwaitsCleanup, AfterClose
  <2>2. CASE InitializeSucceeds(s)
    BY <2>2 DEF InitializeSucceeds, Put, NewConversation
  <2>3. CASE ProcessStarts(s)
    BY <2>0, <2>3 DEF ProcessStarts, Put, Conversation
  <2>4. CASE ProcessEnds(s)
    <3>1. Has(user_id[s]) =>
            Has(user_id[s])' /\ user_conversations'[user_id[s]].id
                                 = user_conversations[user_id[s]].id
      BY <2>4, ProcessEndsEffect DEF ProcessEnds
    <3>2. pc'[s] = "reply" /\ UNCHANGED <<own, user_id, swept, contested>>
      BY <2>4 DEF ProcessEnds
    <3> QED BY <3>1, <3>2
  <2>5. CASE CloseRemoves(s) \/ CloseForgets(s)
    BY <2>5 DEF CloseRemoves, CloseForgets, Drop, Restrict, AfterClose
  <2> QED BY <1>4, <2>1, <2>2, <2>3, <2>4, <2>5 DEF LoopStep
<1> QED BY <1>1, <1>2, <1>3, <1>4 DEF StreamStep

(* The row of another stream: if the step is about its user, both are      *)
(* contested.                                                              *)
LEMMA OtherRowStep ==
  ASSUME TypeOK, TypeOK', RivalsContested,
         NEW s \in Streams, StreamStep(s), NEW t \in Streams \ {s}, OwnRow(t), TakenRow(t)
  PROVE  OwnRow(t)' /\ TakenRow(t)'
<1>1. /\ pc'[t] = pc[t] /\ user_id'[t] = user_id[t] /\ own'[t] = own[t]
      /\ taken'[t] = taken[t] /\ swept' = swept /\ contested \subseteq contested'
  BY StreamStepFrame
<1>2. CASE Ended(t)
  BY <1>1, <1>2 DEF OwnRow, TakenRow, Ended, Final
<1>3. CASE user_id[t] = NoUser
  BY <1>1, <1>3, NoUserAssumption DEF OwnRow, TakenRow, TypeOK, Has
<1>4. CASE ~ Ended(t) /\ user_id[t] # NoUser /\ user_id[t] # user_id[s]
  BY <1>1, <1>4, StreamStepFrame DEF OwnRow, TakenRow, Keeps
<1>5. CASE ~ Ended(t) /\ user_id[t] # NoUser /\ user_id[t] = user_id[s]
  <2>1. s \in contested /\ t \in contested
    BY <1>5, StreamStepFrame DEF RivalsContested
  <2>2. OwnRow(t)'
    BY <1>1, <2>1 DEF OwnRow
  <2>3. ASSUME Has(user_id[t])'
        PROVE  \/ Has(user_id[t]) /\ user_conversations'[user_id[t]].id
                                       = user_conversations[user_id[t]].id
               \/ user_conversations'[user_id[t]].id.stream = s
    BY <1>1, <2>3, HistoriesAfterStreamStep DEF Has, NewConversation
  <2> QED BY <1>1, <2>1, <2>2, <2>3 DEF TakenRow
<1> QED BY <1>2, <1>3, <1>4, <1>5

(* A history grows by the answer to a message of its conversation, or of   *)
(* a conversation that its own, contested, has replaced.                   *)
LEMMA HistoryStep ==
  ASSUME TypeOK, EntriesMadeFor, EntriesMadeFor', HistoryProvenance,
         NEW s \in Streams, StreamStep(s), TakenRow(s)
  PROVE  HistoryProvenance'
<1> SUFFICES ASSUME NEW u \in DOMAIN user_conversations', NEW a,
                    a \in user_conversations'[u].history \ {user_conversations'[u].id}
             PROVE  /\ user_conversations'[u].id.stream \in contested'
                    /\ a.serial = initializes'[a.stream] => user_id'[a.stream] = u
  BY DEF HistoryProvenance
<1>1. a.serial = initializes'[a.stream] => user_id'[a.stream] = u
  BY DEF EntriesMadeFor, MadeFor
<1>2. contested \subseteq contested'
  BY StreamStepFrame
<1>3. CASE Has(u) /\ user_conversations'[u].id = user_conversations[u].id
  <2>1. CASE a \in user_conversations[u].history
    BY <1>1, <1>2, <1>3, <2>1 DEF HistoryProvenance, Has
  <2>2. CASE pc[s] = "record" /\ u = user_id[s] /\ a \in taken[s]
    <3>1. \/ taken[s] = {user_conversations[u].id}
          \/ user_conversations[u].id.stream \in contested
      BY <1>3, <2>2 DEF TakenRow, Has
    <3> QED BY <1>1, <1>2, <1>3, <2>2, <3>1
  <2>3. \/ user_conversations'[u].history = user_conversations[u].history
        \/ /\ pc[s] = "record" /\ u = user_id[s]
           /\ user_conversations'[u].history = user_conversations[u].history \cup taken[s]
        \/ user_conversations'[u] = NewConversation(s)
    BY HistoriesAfterStreamStep
  <2> QED BY <2>1, <2>2, <2>3 DEF NewConversation
<1>4. CASE user_conversations'[u] = NewConversation(s)
  BY <1>4 DEF NewConversation
<1>5. \/ Has(u) /\ user_conversations'[u].id = user_conversations[u].id
      \/ user_conversations'[u] = NewConversation(s)
  BY HistoriesAfterStreamStep
<1> QED BY <1>3, <1>4, <1>5

LEMMA SharedInvStep == TypeOK /\ SharedInv /\ [Next]_vars => SharedInv'
<1> SUFFICES ASSUME TypeOK, SharedInv, [Next]_vars PROVE SharedInv'
  OBVIOUS
<1> USE DEF SharedInv
<1>0. TypeOK'
  BY InductiveTypeOK
<1>1. ASSUME NEW s \in Streams, StreamStep(s) PROVE SharedInv'
  <2>0. \A t \in Streams : TakenMadeFor(t) /\ OwnRow(t) /\ TakenRow(t)
    BY DEF Rows
  <2>1. EntriesMadeFor'
    BY <1>1, <2>0, EntriesMadeForStep
  <2>2. \A t \in Streams : TakenMadeFor(t)'
    BY <1>1, <2>0, TakenMadeForStep
  <2>3. OwnRow(s)' /\ TakenRow(s)'
    BY <1>1, <2>0, OwnRowStep
  <2>4. \A t \in Streams \ {s} : OwnRow(t)' /\ TakenRow(t)'
    BY <1>0, <1>1, <2>0, OtherRowStep
  <2>5. HistoryProvenance'
    BY <1>1, <2>0, <2>1, HistoryStep
  <2> QED BY <1>1, <2>1, <2>2, <2>3, <2>4, <2>5, RivalsContestedStep DEF Rows
<1> USE DEF RivalsContested, EntriesMadeFor, MadeFor, Rows, TakenMadeFor, OwnRow, TakenRow,
            Keeps, HistoryProvenance, Has, Ended
<1>2. CASE Tick \/ CleanerWakes
  <2>1. /\ UNCHANGED <<pc, user_id, initializes, own, taken, contested, swept>>
        /\ DOMAIN user_conversations' = DOMAIN user_conversations
        /\ \A u \in DOMAIN user_conversations :
             /\ user_conversations'[u].id = user_conversations[u].id
             /\ user_conversations'[u].history = user_conversations[u].history
    BY <1>2 DEF Tick, CleanerWakes, streamVars, TypeOK, Conversation
  <2> QED BY <2>1
<1>3. CASE CleanerSweeps
  <2>1. /\ UNCHANGED <<pc, user_id, initializes, own, taken, contested>>
        /\ swept \subseteq swept'
        /\ \A u \in DOMAIN user_conversations' :
             u \in DOMAIN user_conversations /\ user_conversations'[u] = user_conversations[u]
        /\ \A u \in DOMAIN user_conversations \ DOMAIN user_conversations' :
             user_conversations[u].id \in swept'
    BY <1>3 DEF CleanerSweeps, Drop, Restrict, streamVars
  <2> QED BY <2>1
<1>4. CASE UNCHANGED vars
  BY <1>4 DEF vars, streamVars, cleanerVars
<1> QED BY <1>1, <1>2, <1>3, <1>4 DEF Next, StreamStep

LEMMA SharedInvAlways == Spec => []SharedInv
<1>1. Init => SharedInv
  BY DEF Init, SharedInv, RivalsContested, EntriesMadeFor, Rows, TakenMadeFor, OwnRow,
         TakenRow, HistoryProvenance, Has
<1> QED BY <1>1, SharedInvStep, TypeCorrect, PTL DEF Spec

(* Whatever clients do, a stream loses its conversation only to the        *)
(* cleanup thread, or if another stream that named its user was open with  *)
(* it.                                                                     *)
THEOREM OwnConversationAlways == Spec => []OwnConversation
<1>1. SharedInv => OwnConversation
  BY DEF SharedInv, Rows, OwnRow, OwnConversation, Keeps
<1> QED BY <1>1, SharedInvAlways, PTL

(* Whatever clients do, an answer is recorded in the conversation its      *)
(* message was sent in, or in one of the same user whose stream had a      *)
(* rival; never with another user.                                         *)
THEOREM HistoryProvenanceAlways == Spec => []HistoryProvenance
<1>1. SharedInv => HistoryProvenance
  BY DEF SharedInv
<1> QED BY <1>1, SharedInvAlways, PTL
=============================================================================
