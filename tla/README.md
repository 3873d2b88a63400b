# TLA+ models of mtl-agents-api

mtl-agents-api is a set of small services: a Go **gateway** (HTTP and
websockets), a Go **user** service (PostgreSQL), a Go **configuration** service
(MongoDB, encrypted API keys), a Python **agent** service (conversations with
language-model agents) and Consul for discovery. They talk gRPC
(`common/api/*.proto`).

This directory models the parts whose correctness depends on interleaving,
failure and order. TLC checks them on small instances; TLAPS proves every safety
property that a run finds to hold, for every instance.

## 1. Inventory

| component | state it keeps | operations | what is hard |
|---|---|---|---|
| Agent service (`agent/service`) | `user_conversations`, a lock, an event loop, a pool of 10 workers | INITIALIZE, USER_MESSAGE, CLOSE, end or cancellation of a stream, hourly sweep | three kinds of threads; state read before an `await` and used after it; a lock held across an `await`; a close that runs twice |
| Agent factory (`agent/models`) | one process-wide agent, one process-wide OpenAI key | `create_agent_for_user` | a user's agent runs with the key and hand-offs of whoever initialized last |
| Configuration client (`agent/clients`) | a cached stub | `connect`, `get_configuration` | the stub is never refreshed; a blocking call on the event loop |
| Configuration service (`configuration/`) | one MongoDB collection, the encryption key | create, get, update, delete | create and update are two database operations; no unique index; values encrypted with an earlier key |
| User service (`user/`) | table `users`, one shared connection | create, authenticate, get, delete | email looked up, hashed for, then inserted; concurrent use of one connection |
| Gateway, websocket bridge (`gateway/internal/handler/agent.go`) | two goroutines, the channel `done`, a two-hour context | copy in both directions, shut down | each goroutine may be blocked when the other one stops; cancellation overtakes CLOSE |
| Gateway, HTTP handlers (`gateway/internal/handler`, `gateway/internal/gateway`) | none | users and configurations | a user is deleted, its configuration and its token stay |
| Tokens (`common/utils/jwt.go`) | none (24-hour tokens) | create, parse, middleware | a token outlives its user |
| Discovery (`common/consul`, `common/grpc.go`, `agent/utils/consul.py`, the `main`s) | Consul's catalogue with TTL checks | register, heartbeat, discover, deregister | heartbeats that stop or come too late, removal without a new registration, no healthy instance |

Interactions: browser ⇄ websocket ⇄ gateway bridge ⇄ one gRPC stream per
websocket ⇄ a worker of the agent service → event loop → configuration service
(blocking) and the model. The gateway's HTTP handlers call the user and the
configuration service, one connection each per request, found through Consul.

What makes each component correct:

- *Agent service*: a stream that was told its conversation is initialized finds
  it until it closes or a sweep takes it; answers are recorded where they
  belong; streams that end leave nothing behind; memory is bounded in time;
  workers come back.
- *Configuration service*: one configuration per user; what an update
  acknowledges is stored, and only the fields it gives change; a deleted
  configuration does not come back.
- *Bridge*: a browser that leaves frees the handler and the agent's worker; the
  agent learns of the end; one writer on the websocket.
- *User service*: one user per email, and nobody waits for ever for its one
  connection. *Tokens*: got with the password of their user, no use to anyone
  else, of no use in the end when the user is gone. *Discovery*: a live instance
  is found again, a dead one is not.
  *Factory*: an agent uses its own user's key.

## 2. Plan

| | module | depends on | status |
|---|---|---|---|
| 1 | `AgentService`, proofs in `AgentServiceProofs` | | done |
| 2 | `ConfigurationService`, implementing `ConfigurationRegister` | | done; proofs in `ConfigurationServiceProofs` |
| 3 | `WebsocketBridge` | contract of 1 | done; proofs in `WebsocketBridgeProofs` |
| 4 | `AgentFactory`: key and hand-offs shared by all users | 1 | modelled and checked (the property fails) |
| 5 | `ServiceDiscovery`: Consul's TTL, heartbeats, discovery, the cached stub | | done; its type proved in `ServiceDiscoveryProofs` |
| 6 | `Accounts`: gateway routes, tokens, user service and its one connection; proofs in `AccountsProofs` | register of 2 | done |
| 7 | `BrowserSession`: bridge and agent service composed | 1, 3 | done; in `BrowserSessionProofs`, it is proved to implement 1 and the contract of 3 |

Abstract specifications: the register of configurations, implemented by
`ConfigurationService`; the agent's end of a stream as `WebsocketBridge` assumes
it, implemented by `AgentService` (`BrowserSession`).

What is left to prove: that `AgentFactory` is `AgentService` with two variables
more; for `ServiceDiscovery`, an action property or two beside its type (what a
client asks is a process it discovered; a catalogue entry belongs to a process
that registered); for `Accounts`, that what the configuration routes do is the
register of `ConfigurationRegister`.

## 3. Modules

### AgentService

One element of `Streams` is one call of `AgentWebsocketStream`; a client that
reconnects uses another element.

| model | code (`agent/service/service.py`) |
|---|---|
| `pc[s]` | where the generator (101-214) or the coroutine it waits for is |
| `user_id[s]` | its local variable (102, 121) |
| `user_conversations` | the dictionary (19); a conversation has an identity, the set of conversations its history holds answers to, and its idle time |
| `taken[s]` | the conversation `_process_message` took before it awaited the model (50-58) |
| `loop`, `Dispatch` | the event-loop thread (23-32): it runs one coroutine up to its next `await`, and nothing else while that coroutine waits for the lock |
| `lock` | the `threading.Lock` (20); a variable because `_close_agent` can hold it across an `await` (90-95). Every other critical section has no `await` and is one step |
| `cleaner`, `elapsed`, `Tick` | the cleanup thread (34-46): sleep, read the clock, wait for the lock, decide with the clock it read |
| `own`, `swept`, `contested` | history variables for the properties; `contested` has the streams that were open while another open stream named the same user |
| `MaxWorkers`, `StartStream` | the pool of `initialise.py:8` |

`_initialize_agent` is two actions by outcome (configuration found or not),
`_process_message` two critical sections around `Runner.run`, `_close_agent` one
or, if the agent has a `cleanup()`, two. `LeaveRequestLoop` is what follows the
request loop: the second, automatic `_close_agent`. A cancelled call ends in
`StreamAborted`: reading the next request raises outside the `try` (104), and a
generator whose response cannot be delivered is dropped at its `yield`; neither
way reaches line 207.

The code lets a client name any user at any time, and so do all runs
(`ClientRule = "any"`) but the two that look for a particular trace:
`agent_double_close` opens the second stream only after the first was answered
CLOSE, `agent_factory` gives each user one stream. What a stream may rely on is
stated without an assumption about clients: `OwnConversation` is about every
stream that is not `contested`, and `HistoryProvenance` admits an answer in the
wrong conversation only where its stream was contested.

### ConfigurationService and ConfigurationRegister

`ConfigurationService` has one element of `Requests` per gRPC call, with the
steps of `service.go` over `store.go`. A MongoDB operation is one step; create is
`CreateChecks`, `CreateInserts`, update is `UpdateReads`, `UpdateReplaces`. `docs`
is a set of documents in which a `user_id` may occur twice, since the collection
has no index on it. A field's value is the request that gave it and the
encryption key it was stored with: `Decrypted` is what `GetConfiguration` makes of
it with the present key. `Acknowledge` lets the answer to a write that was
applied be lost. `Restart` drops what is in flight and may bring another
`ENCRYPTION_KEY`. `Fail` is every return of an error; `Encrypt` has none to return
with the key `NewService` has checked (its source of random numbers is taken to
work), so the branch that stores an empty Google key is not in the model.

Requests overlap as they like. The history variable `overlapped` has the requests
that may write (create, update, delete) and were in flight together with another
one of the same user; the properties say what such an overlap may do, and that
nothing else does it.

`ConfigurationRegister` is what `config.proto` promises: per user at most one
configuration, read and changed atomically between call and reply, secrets
readable under the key they were written with. The promise is to users whose
writes have not overlapped; the others are `free`. The refinement (`IsRegister`)
maps `configs` to the documents of the users to whom the promise is still made,
and `free` to the users of `overlapped` requests.

### WebsocketBridge

`HandleWebsocket` (`gateway/internal/handler/agent.go`, 52-212): the handler, its two
goroutines, the channel `done`, the context. Each goroutine looks at `done`
between iterations only (`ReceiverChecks`, `ReaderChecks`) and is otherwise blocked
in `Recv` or `ReadJSON`. The agent's end of the stream follows
`AgentWebsocketStream`: a response to each request, the end of the stream after
CLOSE, an abort when it notices that the context is over, perhaps before it has
read everything that was sent. The agent never sends a message of type CLOSE, so
that case of the receiver (137-139) is left out, as is an upgrade that fails
(nothing has been started).

### ServiceDiscovery

Processes of a Go service (`Servers`) and of the agent (`Agents`), from
registration to death; a restarted process is another element, as its instance
id is random, perhaps with the same address.

| model | code |
|---|---|
| `catalogue[i]`, `Tick`, `Reap` | Consul's entry and the age of its last report; TTL and `DeregisterCriticalServiceAfter` (`common/consul/consul.go:45-51`, `agent/utils/consul.py:24`). Ticks are abstract: heartbeats have no timing guarantee |
| `Registers`, `ServerStarts`, `AgentStarts` | the `main`s; a server reports before it listens, an agent after |
| `Beat`, `BeatFails` | the heartbeat loops: a Go server goes on after an error, an agent's thread ends (`agent/utils/consul.py:44-51`) |
| `Dies` | a signal or `logger.Fatal`: `os.Exit` runs nothing deferred, the entry stays |
| `Leaves` | the agent's `finally`; for a server only a panic of `Serve`, since nothing else returns from `main` |
| `hollow`, `CallCrashes` | `main` and the heartbeat goroutine share `err` without synchronization (`configuration/cmd/main.go:79`). Of what that may do, the model has: exit although nothing failed (`Dies`), `Serve` without a listener (`Leaves`), and serving although `NewService` failed, which the first request ends |
| `Discovers`, `Finish` | `ServiceConnection`: any passing instance, one connection per request; `ConfigurationClient.connect`: the same, kept |

### Accounts

A client has one request at a time; `req[c]` says how far it is. `Credentials` are
pairs of an address and a password, so that someone may present another's
address with his own password. A row's id is its position in `row`, ids are never
used again, `users` are the rows in the table.

| model | code |
|---|---|
| `HandleCreateUser` ... `HandleWebsocket` | the routes (`gateway/internal/handler/user.go`, `configuration.go`, `agent.go`); what the gateway itself refuses changes nothing and is left out |
| `Valid`, `Authorized`, `CreateToken` | `common/utils/jwt.go`, and the comparison of the path with the token's user in the handlers |
| `Fail` | every error without an effect; also the nil connection the gateway goes on with when discovery failed (`gateway/internal/gateway/user.go:26-30`): the handler panics, and `net/http` ends the request |
| `conn`, `StatementBegins` ... `StatementCut` | the one `pgx.Conn` of `Store`: one statement at a time, `conn busy` for the others, closed for good when a client leaves during its statement |
| `CheckEnds`, `WriteEnds`, `ReadEnds`, `Compares` | `Store.CreateUser` in two statements with a bcrypt hash between them, `Store.AuthUser` with the comparison and the token after its statement |
| `Restart` | the process ends, requests in it end with it, `pgx.ConnectConfig` anew (`user/cmd/main.go:55`) |
| `ConfigurationAnswers` | one step, as `ConfigurationRegister` has it when requests do not overlap |
| `SessionEnds`, `WebsocketEnds` | the context of a websocket ends the agent's stream after two hours at the latest (`handler/agent.go:66`); the handler stays in `ReadJSON` (160-161) until the browser acts |
| `contested` | history: the addresses for which two sign-ups overlapped |

pgx looks at the state of its connection without synchronization; the model
takes that look to be atomic.

### BrowserSession

The state of `WebsocketBridge` and of `AgentService` for one call and one user, by
`INSTANCE`, joined at the stream: `AgentReads` takes the next request of the bridge
and does with it what the generator does, `AgentReplies` puts the response on its
way down, `CallCancelled` is the gateway's cancelled or expired context reaching
the agent. `End` is the agent's end as the bridge sees it. All other actions are
those of one of the two modules, with the other's state unchanged. The agent's
process does not fail here (`WebsocketBridge` has `AgentFails`).

Each module had assumed something of the other. `IsBridge` discharges what the
bridge assumed of the agent, by refinement: a request that is being worked on
counts as unread. `AgentService` assumed that a call is cancelled some time; here
nobody assumes it, and `LeavingFreesEverything` follows from the gateway's code.
`Unanswered` and `AgentEnd` are what is substituted for the bridge's `up` and `agent`.

### AgentFactory

`AgentService` with the two variables `create_agent_for_user` shares among all
conversations: the default OpenAI key and `gateway_agent.handoffs`. It runs on the
loop thread within `_initialize_agent`; `Runner.run` reads both some time later
(`ModelCalled`), on whatever agent was passed to it, as all are the same object.

## 4. Runs

| run | what it asks | bounds |
|---|---|---|
| `agent_streams` | all safety properties of the agent service | 2 streams that overlap, 2 users, 1 INITIALIZE per stream, interval 1, lock wait 1 tick, agents with `cleanup()` |
| `agent_reinitialize` | does a second INITIALIZE, of the same or another user, harm anyone? | 2 streams, 2 users, 2 INITIALIZEs per stream, 1 worker |
| `agent_release` | workers and abandoned conversations are given back, whatever clients do | 2 streams, also of one user at once |
| `agent_double_close` (violation) | does CLOSE close only its own conversation? | 2 streams, one opened after the other's CLOSE was answered |
| `agent_factory` (violation) | is a user's agent run with that user's key and hand-offs? | 2 streams of 2 users |
| `config_requests` | is the service the register, to whom, and what holds when writes overlap and keys change? | 3 requests, 2 users, 2 keys |
| `config_duplicate` (violation) | is a user id unique? | 2 overlapping requests |
| `bridge` | shut-down of the bridge, its two writers, and CLOSE as the last message of a stream | 3 messages from the browser |
| `bridge_close` (violation) | is the agent told CLOSE? | 3 messages |
| `session` | does the agent service keep what the bridge assumes, and is everything freed when a browser leaves? | 2 messages from the browser, 1 INITIALIZE |
| `accounts` | accounts, tokens and configurations under lost connections, restarts, deletion and new sign-up | 2 clients, 1 address with 2 passwords, 2 accounts ever, tokens of 1 tick |
| `discovery` | are dead processes forgotten, live ones found again, clients served again? | 2 servers, 1 agent, 2 addresses, TTL of 1 tick |

Why these bounds suffice. Two streams are what it takes for one to act between
two steps of the other, or after it on the same user; with two users they also
share none. Two streams, two users *and* two INITIALIZEs are too many states for
one run, so `agent_reinitialize` has one worker: its streams come one after the
other, the first one's conversations still there. With an interval of 1 the
boundary case of the sweep (idle exactly one interval) is the usual case. The
theorems below remove the bounds for every safety property. Three requests are
two writes that overlap and one that comes before, between or after them, or an
update whose document is deleted under it. Three browser messages allow a
message, a CLOSE and something after it.

Two servers and two addresses are a restart in place, a restart elsewhere, and
two processes that compete for an address. The TTL is one tick and not none, so
that a server that reports in time stays discoverable without a gap; with
`ReapAfter = 0` Consul may drop an entry as soon as it is critical, which only
adds behaviours.

In `accounts`, two clients present one address, each with either of two passwords: a
wrong password, sign-ups that overlap, and two different accounts of one address
one after the other. Addresses are only compared, so another one would meet
neither. Two accounts ever is what it takes
for a deleted account and its successor. A token's life of one tick makes it
expire between any two steps. In `session` two messages are one that is being
answered and one behind it, or one and the CLOSE.

Named bounds of the models: `MaxAccounts`, `TokenLife`, `MaxInitialize`, `MaxLockWait`, `MaxWorkers`,
`MaxMessages`, `TTL`, `ReapAfter` (ages in the catalogue stop at their sum).
The ages of conversations are not capped: the sweep bounds them.

`CHECK_DEADLOCK FALSE` is set where the system may really stop: all requests
answered, a connection over, or an event loop that waits for the lock held by
one of its own suspended coroutines (`agent_streams`; the hazard exists only
for agents with a `cleanup()`, which the present agent has not).

Symmetry is used for the safety runs only; streams, users, requests and keys are
compared and never ordered.

### Findings

- **A closed stream closes again** (`agent_double_close`). CLOSE runs
  `_close_agent`, and so does the end of the generator. A conversation the user
  initialized between the two is deleted, and the new stream is then told that
  there is no active conversation.
- **Another user's key** (`agent_factory`). The key and the hand-offs of whoever
  initialized last with a key serve everybody's model calls.
- **Two configurations for one user** (`config_duplicate`).
- **CLOSE overtaken** (`bridge_close`): the handler cancels the stream on the heels
  of CLOSE, or without having sent it; the agent's stream is aborted, its
  automatic close never runs, and the conversation waits for the sweep.

The following are facts of the code that no document of the repository
contradicts, so no run is kept for them.

- *An answer in the wrong conversation*: the second critical section of
  `_process_message` looks the user's conversation up again (`service.py:61`), and
  another stream of that user may have replaced it during the model run: the
  exception in `HistoryProvenance`.
- *A lost update*: two updates of different fields read the same document and the
  second replaces what the first stored: the exception in
  `OnlyGivenFieldsChange`.
- *Two accounts of one address*, from sign-ups that overlap: the exception in
  `OneUserPerEmail`. The table's schema is not in the repository; a unique index
  would prevent it.
- *A closed connection stays closed*: after a client left during its statement, or
  PostgreSQL closed the connection, the user service refuses every request until
  it is restarted, which nothing in the repository does (`StatementCut`,
  `StatementRefused`).
- *A configuration without a user*: `DeleteUser` leaves it behind, and after the
  user's tokens have expired nobody can delete it.

## 5. Fairness

*Agent service.* Threads are scheduled (weak fairness of worker, loop, cleanup
thread and clock). asyncio runs ready coroutines in the order in which they
became ready, so a submitted one is not passed over for ever while the loop
serves others: strong fairness of `Dispatch`. The model run, `agent.cleanup()` and
`get_configuration` return; the last has no deadline in the code, so this is an
assumption about the configuration service. `Cancel` is fair because the
gateway's context ends every stream after two hours (`handler/agent.go:66`).
Clients owe nothing: a request is never fair.

*Bridge.* Goroutines are scheduled and the agent answers. The deadline, failures
and everything the browser does are not fair, so the liveness properties do not
lean on the two hours. That the *reader* ends when the stream ends is not
claimed: it does not, until the browser sends something or leaves.

*Session.* That of the two modules, without the fair cancellation: a call is
cancelled when the handler returns or the deadline passes, and gRPC then tells
the agent some time. The deadline is not fair, so nothing leans on it.

*Accounts.* Time passes, and for each client the services, PostgreSQL and the
context of a websocket (two hours) are weakly fair: a request that is waiting for
something gets it or an error. No client is fair, and neither is the restart of
the user service, so `EveryRequestAnswered` says that a closed connection answers
too, if only with errors. A websocket is not such a request: the end of its
context ends what is done for the user (`SessionEnds`, fair), its handler waits for
the browser (`WebsocketEnds`, not fair). `DeletedLockedOut` needs the expiry of tokens
and the end of those contexts.

*Discovery.* Time passes; a heartbeat loop that runs reaches Consul some time
(weak), a discovery that is asked for again and again succeeds some time if a
server is passing (strong: single answers of Consul may fail). Starts, deaths,
requests and the dropping of entries are not fair. `GatewayServed` and
`AgentServed` are about a time from which on every server that is handed out
serves and one always is; `AgentServed` needs in addition that servers keep their
address, since `ConfigurationClient` never looks its stub up again.

## 6. Proofs

`AgentServiceProofs` (TLAPS; no assumption but those on the constants):

- `TypeCorrect`: `TypeOK`, by one lemma per group of actions.
- `RetentionBounded`: the bound alone is not inductive, it depends on where the
  cleanup thread is. `AgeInv` says: asleep, everything is at most
  `CleanupInterval + MaxLockWait + elapsed` old; with the clock read, one interval
  more. A sweep restores the first from the second, since it spares only what
  was at most one interval old when the clock was read.
- `SweepSparesActiveAlways`: the clock a sweep decides with is late, never early.
- `CleanupKeepsEntryAlways`: inductive as it stands; it is the discipline of the
  lock across the `await`.
- `LoopNeverBlocked`, under `AgentHasCleanup = FALSE`: the deadlock that
  `agent_streams` has (section 4) needs an agent with a
  `cleanup()`; without one the lock is free whenever the loop runs a coroutine.
- `OrderlyEndReleasesAlways`, whatever clients do: `MakerInv` ties each entry to
  a stream that read INITIALIZE and to the user it still names, so the automatic
  close of that user removes it.
- `OwnConversationAlways`, `HistoryProvenanceAlways`, whatever clients do: `SharedInv`
  says that two open streams of one user are both contested (`RivalsContested`),
  for which user an entry was made (`EntriesMadeFor`), and what an uncontested
  stream may rely on about its own entry and the one it took before the model
  run (`Rows`). The lemmas `StreamStepFrame` and `EntriesAfterStreamStep` say what a
  step of one stream can change for others.

`AccountsProofs` (TLAPS; no assumption but those on the constants):

- `TypeCorrect`: `TypeInv` adds that a request at a statement of sign-up or sign-in
  has credentials, and one made for a user has a user's id.
- `TokensAlwaysEarned`: rows are appended and never written again, so what a
  sign-in read (`ReadRow`) is still what the token's row says when the password
  has been compared, whether the user still exists or not.
- `OnlyOwnersAct`: `OwnRequest` ties a request made for a user to its caller's
  token, which cannot be replaced while the request is under way; with
  `TokenRow` its holder presented that user's address and password.
- `OneUserPerEmailAlways`, with sign-ups that overlap: `Apart` says that of two
  sign-ups under way the address is contested, so that for any other address
  what a sign-up found out (`Unregistered`) is still true when it inserts.

`ConfigurationServiceProofs` (for any requests, users, keys and number of
restarts; beside the constants' own assumptions it uses `AbsenceAssumption`: a
field that is not set and a request that was not made are none of the values):

- `TypeCorrect`: `TypeInv` adds that a request under way has a call, that its user
  is known, and that it has not been answered.
- `UpdateNeverCreates`, `NoForeignValueAlways`, for overlapping requests:
  `OriginInv` says of each document who inserted it and that the values in it,
  *and in what an update has read and not yet written back*, were given by
  requests of the same user. The second half is what makes it inductive.
- `SuccessMeansStoredAlways`, for overlapping requests: the replaced document and
  the answer are one step.
- `OneDocumentPerUserAlways`, `OnlyGivenFieldsChangeAlways`: `OverlapInv` says that two
  writes of one user in flight are both in `overlapped` (`Overlap`), and that what
  the look-up of a create found (`Absent`) and what an update read (`Current`) stays
  true until the second operation, unless the request is in `overlapped`. That the
  exceptions are needed `config_duplicate` shows for the first.
- `ImplementsRegister`, without a condition: `Sole` says that a user to whom the
  promise is still made has one document, the lemmas on `View` how inserting,
  replacing and deleting it, and dropping a user from the promise, change the
  mapping; each request maps to its last statement, all others to stutters.

`WebsocketBridgeProofs` (for any number of messages):

- `TypeCorrect`, with the bound on both queues: `Conserved` counts what was sent up
  and not yet received, against what the reader's position has allowed it to send
  (`Allowance`).
- `OneWriterAlways`: `CloseIsLast` says that from the moment CLOSE is queued the
  reader only ends, so its `Send` cannot fail because the agent has ended on
  CLOSE; `ErrorCaused` that an error of `Send` has a cause outside; `AbortCaused`
  that the agent aborts only after the context.
- `NothingAfterCloseAlways`, from the same invariant.

`ServiceDiscoveryProofs`: `TypeCorrect`, where `Addressed` (a server that runs, or that
Consul hands out, has an address) makes it inductive.

`BrowserSessionProofs` reuses the proofs of the two sides instead of repeating
them: it instantiates the two proof modules (`AP`, `BP`) and shows that each step
of the session is a step, or none, of each.

- `ImplementsAgent`: from the definition of the actions alone. All theorems of
  `AgentServiceProofs` follow for the session.
- `ImplementsBridge`: needs `SessionInv`. `RequestAtLabel` says which request the
  generator works on at which label, `EndByClose` that its request loop is left by
  CLOSE only, `CancelCaused` that a cancellation comes from the gateway; and the
  invariant of `WebsocketBridgeProofs` under the mapping is needed for the one case
  in which the two views of the agent's end differ: it has answered CLOSE and is
  still closing the conversation a second time, and a message sent in that moment
  would be queued by the one and lost by the other. None is sent, as CLOSE is
  the last.
- `TypeCorrect`, `OneWriterInSession`, `NothingAfterCloseInSession`: what follows from
  the invariants of both sides. In a session the agent's end never fails, so the
  two writers meet only after the deadline, which is more than `OneWriter` says.

Only model-checked: all liveness (`WorkerReleased`, `AbandonedReclaimed`, the
bridge's three, discovery's four, `EveryRequestAnswered`, `DeletedLockedOut`,
`LeavingFreesEverything`), since fairness is beyond the prover. The violations are
counterexamples and need no proof.

## 7. Not modelled

- The gateway's own start and registration: it sends no heartbeats, so it is
  never passing, and nobody looks for it. Its signal handler cancels a context
  nothing waits for (`gateway/cmd/main.go:46-50`), so it ends only when killed. Connections that the gateway opens per
  request and does not close.
- Requests the gateway refuses by itself (no token, another user's path, a body
  that does not parse): they change nothing. The signature of tokens.
- What an unsynchronized look at the state of the `pgx` connection may do.
- Loss of Consul's catalogue.
- A write that the database applies only after its client was told of an error or
  the connection was closed: in `Accounts` and `ConfigurationService` it takes effect
  at that moment or never.
- A failing source of random numbers in `Encrypt`.
- `AgentServicer.__del__` (216-227): the object lives as long as its process.
- The content of messages, prompts, tools and configurations, generated protocol
  code, logging, JSON helpers and the scripts: no state of their own.
- In `BrowserSession`, a failure of the agent's process; in `Accounts`, the steps
  inside the configuration service.
