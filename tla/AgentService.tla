---------------------------- MODULE AgentService ----------------------------
(***************************************************************************)
(* The agent service (agent/service/service.py).                           *)
(*                                                                         *)
(* Three kinds of threads share the dictionary user_conversations:         *)
(*   - one gRPC worker per open stream runs the generator                  *)
(*     AgentWebsocketStream; it submits a coroutine for each request and   *)
(*     blocks on its future;                                               *)
(*   - one event-loop thread runs those coroutines, one at a time, each    *)
(*     up to its next await;                                               *)
(*   - the cleanup thread removes conversations that were idle too long.   *)
(* A threading.Lock protects the dictionary.  _close_agent may hold it     *)
(* across an await, so the lock is a variable; every other critical        *)
(* section contains no await and is one step guarded by the lock.          *)
(*                                                                         *)
(* Streams is the set of RPCs ever opened, one element per call, so a      *)
(* client that reconnects uses another element.  Time is kept as ages:     *)
(* the age of a conversation is time.time() minus its last_activity.       *)
(***************************************************************************)
EXTENDS Integers, FiniteSets, Functions

CONSTANTS Streams,          \* AgentWebsocketStream calls
          Users,            \* user ids
          NoUser,           \* None or "": a stream that names no user
          Nobody,           \* the loop is idle, the lock is free
          MaxWorkers,       \* max_workers of the gRPC thread pool
          CleanupInterval,  \* cleanup_interval, in ticks
          MaxLockWait,      \* bound: ticks the cleanup thread waits for the lock
          MaxInitialize,    \* bound: INITIALIZE requests per stream
          AgentHasCleanup,  \* may the agent object have a cleanup() coroutine?
          ClientRule        \* which overlaps of a user's streams are looked at

ASSUME NoUserAssumption == NoUser \notin Users
ASSUME NobodyAssumption == Nobody \notin Streams
ASSUME BoundsAssumption ==
  /\ MaxWorkers \in Nat \ {0}
  /\ CleanupInterval \in Nat \ {0}
  /\ MaxLockWait \in Nat
  /\ MaxInitialize \in Nat \ {0}
ASSUME VariantAssumption ==
  /\ AgentHasCleanup \in BOOLEAN
  /\ ClientRule \in {"any", "after_close", "exclusive"}

VARIABLES
  pc,                  \* pc[s]: where the worker of s, or its coroutine, is
  user_id,             \* user_id[s]: the generator's local variable
  ended_by,            \* ended_by[s]: why s left its request loop
  initializes,         \* initializes[s]: INITIALIZE requests s has read
  taken,               \* taken[s]: the conversation the coroutine of s looked up
  cancelled,           \* cancelled[s]: the RPC of s was cancelled
  user_conversations,  \* the dictionary: a function on the users it has
  loop,                \* the stream whose coroutine the loop thread runs
  lock,                \* the stream that holds the lock across an await
  cleaner,             \* what the cleanup thread does
  elapsed,             \* ticks since the cleanup thread began doing it
  own,                 \* history: serial of the conversation s was granted
  contested,           \* history: streams that were open while another open
                       \* stream named the same user
  swept                \* history: conversations the cleanup thread removed

streamVars  == <<user_id, ended_by, initializes, taken, own, contested>>
cleanerVars == <<cleaner, elapsed, swept>>
vars == <<pc, cancelled, streamVars, user_conversations, loop, lock, cleanerVars>>

(***************************************************************************)
(* pc[s], by who has to act next:                                          *)
(*   new       the RPC waits for a worker of the pool                      *)
(*   reading   the worker is in "for request in request_iterator"          *)
(*   init, process, close       a coroutine was submitted to the loop      *)
(*   run       _process_message awaits Runner.run                          *)
(*   record    Runner.run returned; the coroutine is to be resumed         *)
(*   cleanup   _close_agent awaits agent.cleanup()                         *)
(*   forget    agent.cleanup() returned; the coroutine is to be resumed    *)
(*   reply     the worker yields a response;  bye: the response to CLOSE   *)
(*   done      the generator ran to its end;  aborted: it was dropped      *)
(***************************************************************************)
Submitted == {"init", "process", "record", "close", "forget"}
Final     == {"done", "aborted"}
Labels    == {"new", "reading", "run", "cleanup", "reply", "bye"} \cup Submitted \cup Final

Ended(s) == pc[s] \in Final

Busy == {s \in Streams : pc[s] \notin {"new"} \cup Final}

ConversationId == [stream : Streams, serial : Nat]
Conversation   == [id : ConversationId, history : SUBSET ConversationId, age : Nat]

TypeOK ==
  /\ pc \in [Streams -> Labels]
  /\ user_id \in [Streams -> Users \cup {NoUser}]
  /\ ended_by \in [Streams -> {"nothing", "close", "client"}]
  /\ initializes \in [Streams -> Nat]
  /\ taken \in [Streams -> SUBSET ConversationId]
  /\ cancelled \in [Streams -> BOOLEAN]
  /\ DOMAIN user_conversations \subseteq Users
  /\ user_conversations \in [DOMAIN user_conversations -> Conversation]
  /\ loop \in Streams \cup {Nobody}
  /\ lock \in Streams \cup {Nobody}
  /\ cleaner \in {"sleeping", "sampled"}
  /\ elapsed \in Nat
  /\ own \in [Streams -> Nat]
  /\ contested \subseteq Streams
  /\ swept \in SUBSET ConversationId

Init ==
  /\ pc = [s \in Streams |-> "new"]
  /\ user_id = [s \in Streams |-> NoUser]
  /\ ended_by = [s \in Streams |-> "nothing"]
  /\ initializes = [s \in Streams |-> 0]
  /\ taken = [s \in Streams |-> {}]
  /\ cancelled = [s \in Streams |-> FALSE]
  /\ user_conversations = [u \in {} |-> 0]
  /\ loop = Nobody
  /\ lock = Nobody
  /\ cleaner = "sleeping"
  /\ elapsed = 0
  /\ own = [s \in Streams |-> 0]
  /\ contested = {}
  /\ swept = {}

-----------------------------------------------------------------------------
(* The dictionary *)

Has(u) == u \in DOMAIN user_conversations

(* Mutant: a re-initialized conversation inherits the history. *)
NewConversation_KeepsHistory(s) ==
  [id      |-> [stream |-> s, serial |-> initializes[s]],
   history |-> IF Has(user_id[s]) THEN user_conversations[user_id[s]].history ELSE {},
   age     |-> 0]

NewConversation(s) ==
  [id |-> [stream |-> s, serial |-> initializes[s]], history |-> {}, age |-> 0]

Put(u, c) ==
  user_conversations' = [v \in DOMAIN user_conversations \cup {u} |->
                           IF v = u THEN c ELSE user_conversations[v]]

Drop(U) == user_conversations' = Restrict(user_conversations, DOMAIN user_conversations \ U)

(* Mutants: one more tick is tolerated; ">=" instead of ">". *)
Expired_Later(u)   == user_conversations[u].age - elapsed > CleanupInterval + 1
Expired_Earlier(u) == user_conversations[u].age - elapsed >= CleanupInterval

(* The age the cleanup thread computes: the time it read before it waited  *)
(* for the lock, minus last_activity.                                      *)
Expired(u) == user_conversations[u].age - elapsed > CleanupInterval

-----------------------------------------------------------------------------
(* The worker thread: AgentWebsocketStream *)

(* The thread pool gives the call a worker. *)
StartStream(s) ==
  /\ pc[s] = "new"
  /\ Cardinality(Busy) < MaxWorkers
  /\ pc' = [pc EXCEPT ![s] = "reading"]
  /\ UNCHANGED <<cancelled, streamVars, user_conversations, loop, lock, cleanerVars>>

(* The other open streams that name user u. *)
Rivals(s, u) == {t \in Streams \ {s} : u # NoUser /\ user_id[t] = u /\ ~Ended(t)}

(* The code lets a client name any user at any time.  A run that asks for  *)
(* a particular overlap admits a rival only if it has been told that its   *)
(* conversation is closed, or none.                                        *)
MayInitialize(s, u) ==
  \/ ClientRule = "any"
  \/ ClientRule = "after_close" /\ \A t \in Rivals(s, u) : ended_by[t] = "close"
  \/ Rivals(s, u) = {}

RequestInitialize(s, u) ==
  /\ pc[s] = "reading"
  /\ ~cancelled[s]
  /\ initializes[s] < MaxInitialize
  /\ MayInitialize(s, u)
  /\ user_id' = [user_id EXCEPT ![s] = u]
  /\ contested' = contested \cup UNION {{s, t} : t \in Rivals(s, u)}
  /\ initializes' = [initializes EXCEPT ![s] = @ + 1]
  /\ own' = [own EXCEPT ![s] = 0]
  /\ pc' = [pc EXCEPT ![s] = "init"]
  /\ UNCHANGED <<ended_by, taken, cancelled, user_conversations, loop, lock, cleanerVars>>

RequestMessage(s) ==
  /\ pc[s] = "reading"
  /\ ~cancelled[s]
  /\ user_id[s] # NoUser
  /\ pc' = [pc EXCEPT ![s] = "process"]
  /\ UNCHANGED <<cancelled, streamVars, user_conversations, loop, lock, cleanerVars>>

(* Answered with ERROR at once: a request before INITIALIZE, an empty      *)
(* message, an unknown type.                                               *)
RequestRejected(s) ==
  /\ pc[s] = "reading"
  /\ ~cancelled[s]
  /\ pc' = [pc EXCEPT ![s] = "reply"]
  /\ UNCHANGED <<cancelled, streamVars, user_conversations, loop, lock, cleanerVars>>

RequestClose(s) ==
  /\ pc[s] = "reading"
  /\ ~cancelled[s]
  /\ user_id[s] # NoUser
  /\ own' = [own EXCEPT ![s] = 0]
  /\ pc' = [pc EXCEPT ![s] = "close"]
  /\ UNCHANGED <<user_id, ended_by, initializes, taken, contested, cancelled,
                 user_conversations, loop, lock, cleanerVars>>

(* Mutant: the generator forgets to auto-close. *)
LeaveRequestLoop_NoAutoClose(s, reason) ==
  /\ ended_by' = [ended_by EXCEPT ![s] = reason]
  /\ own' = [own EXCEPT ![s] = 0]
  /\ pc' = [pc EXCEPT ![s] = "done"]
  /\ UNCHANGED <<user_id, initializes, taken, contested, cancelled,
                 user_conversations, loop, lock, cleanerVars>>

(* The generator leaves its loop; if it knows a user, it submits another   *)
(* _close_agent for that user.                                             *)
LeaveRequestLoop(s, reason) ==
  /\ ended_by' = [ended_by EXCEPT ![s] = reason]
  /\ own' = [own EXCEPT ![s] = 0]
  /\ pc' = [pc EXCEPT ![s] = IF user_id[s] = NoUser THEN "done" ELSE "close"]
  /\ UNCHANGED <<user_id, initializes, taken, contested, cancelled,
                 user_conversations, loop, lock, cleanerVars>>

(* The client half-closes its side of the stream. *)
RequestsEnd(s) ==
  /\ pc[s] = "reading"
  /\ ~cancelled[s]
  /\ LeaveRequestLoop(s, "client")

Reply(s) ==
  /\ pc[s] = "reply"
  /\ ~cancelled[s]
  /\ pc' = [pc EXCEPT ![s] = "reading"]
  /\ UNCHANGED <<cancelled, streamVars, user_conversations, loop, lock, cleanerVars>>

(* The response to CLOSE is sent, then "break". *)
ReplyClosed(s) ==
  /\ pc[s] = "bye"
  /\ ~cancelled[s]
  /\ LeaveRequestLoop(s, "close")

(* The caller cancels the RPC or its deadline passes.                      *)
Cancel(s) ==
  /\ pc[s] # "new"
  /\ ~Ended(s)
  /\ ~cancelled[s]
  /\ cancelled' = [cancelled EXCEPT ![s] = TRUE]
  /\ UNCHANGED <<pc, streamVars, user_conversations, loop, lock, cleanerVars>>

(* Mutant: a worker that waits for a request does not notice. *)
Interruptible_NotReading == {"reply", "bye"}

(* Where a worker notices a cancelled RPC: reading the next request raises *)
(* outside the try block, and a generator whose response cannot be sent is *)
(* dropped at its yield.  Neither way reaches the final _close_agent.      *)
Interruptible == {"reading", "reply", "bye"}

StreamAborted(s) ==
  /\ pc[s] \in Interruptible
  /\ cancelled[s]
  /\ own' = [own EXCEPT ![s] = 0]
  /\ pc' = [pc EXCEPT ![s] = "aborted"]
  /\ UNCHANGED <<user_id, ended_by, initializes, taken, contested, cancelled,
                 user_conversations, loop, lock, cleanerVars>>

-----------------------------------------------------------------------------
(* The event loop *)

(* The loop thread starts or resumes a coroutine.  It runs nothing else    *)
(* until the coroutine ends or awaits, also while it waits for the lock.   *)
Dispatch(s) ==
  /\ loop = Nobody
  /\ pc[s] \in Submitted
  /\ loop' = s
  /\ UNCHANGED <<pc, cancelled, streamVars, user_conversations, lock, cleanerVars>>

(* The coroutine of s, at label l, runs and goes on to label next.         *)
RunsTo(s, l, next) ==
  /\ loop = s
  /\ pc[s] = l
  /\ loop' = Nobody
  /\ pc' = [pc EXCEPT ![s] = next]

(* _initialize_agent answers ERROR: no user id, or get_configuration, a    *)
(* blocking call made on the loop thread, found nothing.                   *)
InitializeFails(s) ==
  /\ RunsTo(s, "init", "reply")
  /\ UNCHANGED <<cancelled, streamVars, user_conversations, lock, cleanerVars>>

(* Mutant: the check for an empty user id is missing. *)
InitializeSucceeds_AnyUser(s) ==
  /\ lock = Nobody
  /\ RunsTo(s, "init", "reply")
  /\ Put(user_id[s], NewConversation(s))
  /\ own' = [own EXCEPT ![s] = initializes[s]]
  /\ UNCHANGED <<user_id, ended_by, initializes, taken, contested, cancelled, lock, cleanerVars>>

InitializeSucceeds(s) ==
  /\ user_id[s] # NoUser
  /\ lock = Nobody
  /\ RunsTo(s, "init", "reply")
  /\ Put(user_id[s], NewConversation(s))
  /\ own' = [own EXCEPT ![s] = initializes[s]]
  /\ UNCHANGED <<user_id, ended_by, initializes, taken, contested, cancelled, lock, cleanerVars>>

(* First critical section of _process_message. *)
ProcessStarts(s) ==
  /\ lock = Nobody
  /\ Has(user_id[s])
  /\ RunsTo(s, "process", "run")
  /\ Put(user_id[s], [user_conversations[user_id[s]] EXCEPT !.age = 0])
  /\ taken' = [taken EXCEPT ![s] = {user_conversations[user_id[s]].id}]
  /\ UNCHANGED <<user_id, ended_by, initializes, own, contested, cancelled, lock, cleanerVars>>

ProcessFindsNothing(s) ==
  /\ lock = Nobody
  /\ ~Has(user_id[s])
  /\ RunsTo(s, "process", "reply")
  /\ UNCHANGED <<cancelled, streamVars, user_conversations, lock, cleanerVars>>

(* Runner.run returns: the coroutine can be resumed. *)
RunReturns(s) ==
  /\ pc[s] = "run"
  /\ pc' = [pc EXCEPT ![s] = "record"]
  /\ UNCHANGED <<cancelled, streamVars, user_conversations, loop, lock, cleanerVars>>

(* Mutant: a failed run drops the conversation. *)
RunFails_Drops(s) ==
  /\ loop = Nobody
  /\ pc[s] = "run"
  /\ pc' = [pc EXCEPT ![s] = "reply"]
  /\ Drop({user_id[s]})
  /\ UNCHANGED <<cancelled, streamVars, loop, lock, cleanerVars>>

(* Runner.run raises: the second critical section is skipped. *)
RunFails(s) ==
  /\ loop = Nobody
  /\ pc[s] = "run"
  /\ pc' = [pc EXCEPT ![s] = "reply"]
  /\ UNCHANGED <<cancelled, streamVars, user_conversations, loop, lock, cleanerVars>>

(* Second critical section: the answer goes to whatever conversation the   *)
(* user has now.                                                           *)
ProcessEnds(s) ==
  LET u == user_id[s] IN
  /\ lock = Nobody
  /\ RunsTo(s, "record", "reply")
  /\ IF Has(u)
     THEN Put(u, [user_conversations[u] EXCEPT !.history = @ \cup taken[s], !.age = 0])
     ELSE UNCHANGED user_conversations
  /\ UNCHANGED <<cancelled, streamVars, lock, cleanerVars>>

(* Where a worker goes on after _close_agent: it answers CLOSE, or it ends *)
AfterClose(s) == IF ended_by[s] = "nothing" THEN "bye" ELSE "done"

CloseFindsNothing(s) ==
  /\ lock = Nobody
  /\ ~Has(user_id[s])
  /\ RunsTo(s, "close", AfterClose(s))
  /\ UNCHANGED <<cancelled, streamVars, user_conversations, lock, cleanerVars>>

(* There is no cleanup() to await, or it raises at once. *)
CloseRemoves(s) ==
  /\ lock = Nobody
  /\ Has(user_id[s])
  /\ RunsTo(s, "close", AfterClose(s))
  /\ Drop({user_id[s]})
  /\ UNCHANGED <<cancelled, streamVars, lock, cleanerVars>>

(* "await agent.cleanup()" inside "with self.lock". *)
CloseAwaitsCleanup(s) ==
  /\ lock = Nobody
  /\ AgentHasCleanup
  /\ Has(user_id[s])
  /\ RunsTo(s, "close", "cleanup")
  /\ lock' = s
  /\ UNCHANGED <<cancelled, streamVars, user_conversations, cleanerVars>>

CleanupReturns(s) ==
  /\ pc[s] = "cleanup"
  /\ pc' = [pc EXCEPT ![s] = "forget"]
  /\ UNCHANGED <<cancelled, streamVars, user_conversations, loop, lock, cleanerVars>>

CloseForgets(s) ==
  /\ RunsTo(s, "forget", AfterClose(s))
  /\ Drop({user_id[s]})
  /\ lock' = Nobody
  /\ UNCHANGED <<cancelled, streamVars, cleanerVars>>

-----------------------------------------------------------------------------
(* The cleanup thread and the clock *)

(* Time passes.  The cleanup thread is not late: it wakes when its sleep   *)
(* is over, and waits for the lock at most MaxLockWait ticks.              *)
Tick ==
  /\ elapsed < IF cleaner = "sleeping" THEN CleanupInterval ELSE MaxLockWait
  /\ elapsed' = elapsed + 1
  /\ user_conversations' = [u \in DOMAIN user_conversations |->
                              [user_conversations[u] EXCEPT !.age = @ + 1]]
  /\ UNCHANGED <<pc, cancelled, streamVars, loop, lock, cleaner, swept>>

(* time.sleep returns and current_time is read, before the lock is asked.  *)
CleanerWakes ==
  /\ cleaner = "sleeping"
  /\ elapsed = CleanupInterval
  /\ cleaner' = "sampled"
  /\ elapsed' = 0
  /\ UNCHANGED <<pc, cancelled, streamVars, user_conversations, loop, lock, swept>>

(* Mutant: the sweep does not take the lock. *)
CleanerAcquires_NoLock == TRUE

CleanerAcquires == lock = Nobody

(* Mutant: looking at a conversation counts as activity. *)
CleanerSweeps_Touches ==
  /\ cleaner = "sampled"
  /\ CleanerAcquires
  /\ user_conversations' = [u \in {v \in DOMAIN user_conversations : ~Expired(v)} |->
                              [user_conversations[u] EXCEPT !.age = 0]]
  /\ swept' = swept \cup {user_conversations[u].id :
                            u \in {v \in DOMAIN user_conversations : Expired(v)}}
  /\ cleaner' = "sleeping"
  /\ elapsed' = 0
  /\ UNCHANGED <<pc, cancelled, streamVars, loop, lock>>

CleanerSweeps ==
  LET to_remove == {u \in DOMAIN user_conversations : Expired(u)} IN
  /\ cleaner = "sampled"
  /\ CleanerAcquires
  /\ Drop(to_remove)
  /\ swept' = swept \cup {user_conversations[u].id : u \in to_remove}
  /\ cleaner' = "sleeping"
  /\ elapsed' = 0
  /\ UNCHANGED <<pc, cancelled, streamVars, loop, lock>>

-----------------------------------------------------------------------------
WorkerStep(s) == Reply(s) \/ ReplyClosed(s) \/ StreamAborted(s)

ClientStep(s) ==
  \/ \E u \in Users \cup {NoUser} : RequestInitialize(s, u)
  \/ RequestMessage(s)
  \/ RequestRejected(s)
  \/ RequestClose(s)
  \/ RequestsEnd(s)

LoopStep(s) ==
  \/ InitializeFails(s)
  \/ InitializeSucceeds(s)
  \/ ProcessStarts(s)
  \/ ProcessFindsNothing(s)
  \/ ProcessEnds(s)
  \/ CloseFindsNothing(s)
  \/ CloseRemoves(s)
  \/ CloseAwaitsCleanup(s)
  \/ CloseForgets(s)

AwaitedReturns(s) == RunReturns(s) \/ RunFails(s) \/ CleanupReturns(s)

Next ==
  \/ \E s \in Streams :
       \/ StartStream(s)
       \/ ClientStep(s)
       \/ Cancel(s)
       \/ WorkerStep(s)
       \/ Dispatch(s)
       \/ LoopStep(s)
       \/ AwaitedReturns(s)
  \/ Tick
  \/ CleanerWakes
  \/ CleanerSweeps

Spec == Init /\ [][Next]_vars

(***************************************************************************)
(* Fairness.  Threads are scheduled; asyncio resumes ready coroutines in   *)
(* order, so a ready one is not overtaken for ever (SF on Dispatch); the   *)
(* model call, agent.cleanup() and get_configuration return; the gateway's *)
(* two-hour context cancels every stream.  Clients owe nothing.            *)
(***************************************************************************)
Fairness ==
  /\ \A s \in Streams :
       /\ WF_vars(StartStream(s))
       /\ WF_vars(Cancel(s))
       /\ WF_vars(WorkerStep(s))
       /\ SF_vars(Dispatch(s))
       /\ WF_vars(LoopStep(s))
       /\ WF_vars(AwaitedReturns(s))
  /\ WF_vars(Tick)
  /\ WF_vars(CleanerWakes)
  /\ WF_vars(CleanerSweeps)

FairSpec == Spec /\ Fairness

-----------------------------------------------------------------------------
(* Properties *)

(* No conversation is ever idle for more than two cleanup intervals (and   *)
(* twice the time the cleanup thread waits for the lock): what             *)
(* _cleanup_inactive_conversations promises about memory, although one     *)
(* that is exactly CleanupInterval old survives a sweep.                   *)
RetentionBound ==
  \A u \in DOMAIN user_conversations :
    user_conversations[u].age <= 2 * CleanupInterval + 2 * MaxLockWait

(* s was told its conversation is initialized, and has neither closed nor  *)
(* replaced it: then user_conversations has that conversation, unless the  *)
(* cleanup thread removed it.                                              *)
Keeps(s) ==
  LET granted == [stream |-> s, serial |-> own[s]] IN
  own[s] # 0 => \/ granted \in swept
                \/ Has(user_id[s]) /\ user_conversations[user_id[s]].id = granted

(* Whatever other users' streams, cancellations, failed runs and earlier   *)
(* streams of the same user do: a stream that loses its conversation was   *)
(* open together with another one that named the same user.                *)
OwnConversation == \A s \in Streams \ contested : Keeps(s)

(* What CLOSE is documented as: it ends the conversation of its stream.    *)
CloseEndsItsOwn == \A s \in Streams : Keeps(s)

(* _process_message looks its user up twice, with the model run between.   *)
(* An answer recorded in another conversation than its message was sent in *)
(* is in one of the same user, whose stream was contested; a stream that   *)
(* has since named another user cannot be told, so it is left out.         *)
HistoryProvenance ==
  \A u \in DOMAIN user_conversations :
    LET c == user_conversations[u] IN
    \A a \in c.history \ {c.id} :
      /\ c.id.stream \in contested
      /\ a.serial = initializes[a.stream] => user_id[a.stream] = u

(* A generator that ran to its end, by CLOSE or because the client was     *)
(* done, leaves no conversation of its making behind (one that named only  *)
(* one user: INITIALIZE does not close what it replaces).                  *)
OrderlyEndReleases ==
  \A s \in Streams :
    pc[s] = "done" /\ initializes[s] <= 1 =>
      \A u \in DOMAIN user_conversations : user_conversations[u].id.stream # s

(* The entry _close_agent looked up is still there when it deletes it      *)
(* after the await, so "del" cannot raise; only its stream holds the lock. *)
CleanupKeepsEntry ==
  \A s \in Streams :
    pc[s] \in {"cleanup", "forget"} => lock = s /\ Has(user_id[s])

(* A sweep decides on a time read before it had the lock; still it removes *)
(* nothing that was active within the last CleanupInterval.                *)
SweepSparesActive ==
  [][\A u \in DOMAIN user_conversations \ DOMAIN user_conversations' :
       cleaner # cleaner' => user_conversations[u].age > CleanupInterval]_vars

(* Every stream gives its worker back: the pool is not used up by calls    *)
(* whose client is gone or whose coroutine never finishes.                 *)
WorkerReleased == \A s \in Streams : (cancelled[s] /\ ~Ended(s)) ~> Ended(s)

(* A conversation that no open stream uses, such as one whose stream was   *)
(* cancelled, is removed eventually.                                       *)
AbandonedReclaimed ==
  \A u \in Users : []<>(~Has(u) \/ \E s \in Streams : user_id[s] = u /\ ~Ended(s))
=============================================================================
