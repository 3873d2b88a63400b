-------------------------- MODULE ServiceDiscovery --------------------------
(***************************************************************************)
(* How the processes find each other through Consul: registration, TTL     *)
(* heartbeats, discovery, start and end of a process.                      *)
(*                                                                         *)
(* Servers are processes of a Go service (configuration/cmd/main.go; that  *)
(* of user is the same), Agents those of agent/main.py.  A process that is *)
(* started again is another element: its instance id is random.  The       *)
(* gateway finds a server anew for every request, an agent once for all.   *)
(***************************************************************************)
EXTENDS Naturals, FiniteSets

CONSTANTS Servers, Agents,
          Gateway,
          Addresses,  \* what a server may be given as its ADDRESS
          NoAddress,
          TTL,        \* bound: ticks after which a check that was not passed is critical
          ReapAfter   \* bound: critical ticks after which Consul drops a server

ASSUME DistinctAssumption ==
  /\ Servers \cap Agents = {}
  /\ Gateway \notin Agents
  /\ NoAddress \notin Addresses
ASSUME TimeAssumption == TTL \in Nat /\ ReapAfter \in Nat

Processes == Servers \cup Agents
Clients   == Agents \cup {Gateway}  \* of the configuration service
Oldest    == TTL + ReapAfter + 1

VARIABLES
  catalogue,  \* for each registered process, the ticks since it reported
  proc,       \* proc[i]: new, registered, serving, hollow or dead
  beating,    \* beating[i]: does its heartbeat loop run?
  address,    \* address[g]: where server g listens, or is about to
  call,       \* call[c]: idle (or failed), asked, connected or answered
  target      \* target[c]: the address that c's stub is connected to

vars == <<catalogue, proc, beating, address, call, target>>

TypeOK ==
  /\ DOMAIN catalogue \subseteq Processes
  /\ \A i \in DOMAIN catalogue : catalogue[i] \in 0..Oldest
  /\ proc \in [Processes -> {"new", "registered", "serving", "hollow", "dead"}]
  /\ beating \in [Processes -> BOOLEAN]
  /\ address \in [Servers -> Addresses \cup {NoAddress}]
  /\ call \in [Clients -> {"idle", "asked", "connected", "answered"}]
  /\ target \in [Clients -> Addresses \cup {NoAddress}]
  /\ \A i \in Processes : beating[i] => proc[i] \notin {"new", "dead"}
  /\ \A c \in Clients : call[c] = "connected" => target[c] # NoAddress

Init ==
  /\ catalogue = [i \in {} |-> 0]
  /\ proc = [i \in Processes |-> "new"]
  /\ beating = [i \in Processes |-> FALSE]
  /\ address = [g \in Servers |-> NoAddress]
  /\ call = [c \in Clients |-> "idle"]
  /\ target = [c \in Clients |-> NoAddress]

-----------------------------------------------------------------------------
(* Consul.  A check is critical until it is passed for the first time.     *)

Entered(i) == [j \in DOMAIN catalogue \cup {i} |-> IF j = i THEN TTL + 1 ELSE catalogue[j]]
Without(i) == [j \in DOMAIN catalogue \ {i} |-> catalogue[j]]

(* Mutant: a registration without a TTL check. *)
Discoverable_Unchecked(i) == i \in DOMAIN catalogue

Discoverable(i) == i \in DOMAIN catalogue /\ catalogue[i] <= TTL

Tick ==
  /\ catalogue' = [i \in DOMAIN catalogue |->
                     IF catalogue[i] < Oldest THEN catalogue[i] + 1 ELSE Oldest]
  /\ UNCHANGED <<proc, beating, address, call, target>>

(* DeregisterCriticalServiceAfter, which an agent does not ask for. *)
Reap(g) ==
  /\ g \in DOMAIN catalogue
  /\ catalogue[g] = Oldest
  /\ catalogue' = Without(g)
  /\ UNCHANGED <<proc, beating, address, call, target>>

-----------------------------------------------------------------------------
(* A process *)

Live(i) == proc[i] \notin {"new", "dead"}

(* Mutant: the heartbeats go on when main has returned. *)
End_KeepsBeating(i) ==
  /\ proc' = [proc EXCEPT ![i] = "dead"]
  /\ call' = [c \in Clients |-> IF c = i THEN "idle" ELSE call[c]]
  /\ target' = [c \in Clients |-> IF c = i THEN NoAddress ELSE target[c]]
  /\ UNCHANGED beating

End(i) ==
  /\ proc' = [proc EXCEPT ![i] = "dead"]
  /\ beating' = [beating EXCEPT ![i] = FALSE]
  /\ call' = [c \in Clients |-> IF c = i THEN "idle" ELSE call[c]]
  /\ target' = [c \in Clients |-> IF c = i THEN NoAddress ELSE target[c]]

(* A server's heartbeats start here, before it listens. *)
Registers(i) ==
  /\ proc[i] = "new"
  /\ catalogue' = Entered(i)
  /\ proc' = [proc EXCEPT ![i] = "registered"]
  /\ beating' = [beating EXCEPT ![i] = i \in Servers]
  /\ IF i \in Servers
     THEN \E a \in Addresses : address' = [address EXCEPT ![i] = a]
     ELSE UNCHANGED address
  /\ UNCHANGED <<call, target>>

(* Registration reports an error; Consul may have the entry nevertheless.  *)
RegisterFails(i) ==
  /\ proc[i] = "new"
  /\ catalogue' \in {catalogue, Entered(i)}
  /\ End(i)
  /\ UNCHANGED address

Bound(a) == \E g \in Servers : address[g] = a /\ proc[g] \in {"serving", "hollow"}

(* net.Listen, NewService, Serve.  main and the heartbeat goroutine share  *)
(* the variable err without synchronization, so that main may miss the     *)
(* failure of NewService and serve without a service behind the handlers.  *)
ServerStarts(g) ==
  /\ proc[g] = "registered"
  /\ ~Bound(address[g])
  /\ \E state \in {"serving", "hollow"} : proc' = [proc EXCEPT ![g] = state]
  /\ UNCHANGED <<catalogue, beating, address, call, target>>

(* serve(), then the heartbeat thread. *)
AgentStarts(a) ==
  /\ proc[a] = "registered"
  /\ proc' = [proc EXCEPT ![a] = "serving"]
  /\ beating' = [beating EXCEPT ![a] = TRUE]
  /\ UNCHANGED <<catalogue, address, call, target>>

(* Killed, or logger.Fatal: nothing deferred is run, the entry stays.      *)
Dies(i) ==
  /\ Live(i)
  /\ End(i)
  /\ UNCHANGED <<catalogue, address>>

(* Ends through `finally` (agent), or by a panic of Serve after main had   *)
(* missed the failure of net.Listen (server): deregisters, if Consul can   *)
(* be reached.                                                             *)
Leaves(i) ==
  /\ Live(i)
  /\ i \in Servers => proc[i] = "registered"
  /\ catalogue' \in {catalogue, Without(i)}
  /\ End(i)
  /\ UNCHANGED address

Beat(i) ==
  /\ Live(i)
  /\ beating[i]
  /\ i \in DOMAIN catalogue
  /\ catalogue' = [catalogue EXCEPT ![i] = 0]
  /\ UNCHANGED <<proc, beating, address, call, target>>

(* Mutant: a server too gives up. *)
BeatFails_GivesUp(i) ==
  /\ beating[i]
  /\ beating' = [beating EXCEPT ![i] = FALSE]
  /\ UNCHANGED <<catalogue, proc, address, call, target>>

(* A server logs the error and goes on, an agent's thread ends.            *)
BeatFails(i) ==
  /\ beating[i]
  /\ beating' = [beating EXCEPT ![i] = i \in Servers]
  /\ UNCHANGED <<catalogue, proc, address, call, target>>

-----------------------------------------------------------------------------
(* A client of the configuration service *)

May(c) == c \in Agents => proc[c] = "serving"

Ask(c) ==
  /\ May(c)
  /\ call[c] \in {"idle", "answered"}
  /\ call' = [call EXCEPT ![c] = "asked"]
  /\ UNCHANGED <<catalogue, proc, beating, address, target>>

(* ServiceConnection takes any instance, connect() the first that Consul   *)
(* names, in no promised order.                                            *)
Discovers(c) ==
  /\ call[c] = "asked"
  /\ target[c] = NoAddress
  /\ \E g \in Servers :
       /\ Discoverable(g)
       /\ target' = [target EXCEPT ![c] = address[g]]
  /\ call' = [call EXCEPT ![c] = "connected"]
  /\ UNCHANGED <<catalogue, proc, beating, address>>

(* Mutant: the stub is made before it is known whether there is a server.  *)
DiscoverFails_LeavesStub(c) ==
  /\ call[c] = "asked"
  /\ target[c] = NoAddress
  /\ target' = [target EXCEPT ![c] = "nowhere"]
  /\ call' = [call EXCEPT ![c] = "idle"]
  /\ UNCHANGED <<catalogue, proc, beating, address>>

(* No instance is passing (the gateway's handler panics, connect() gives   *)
(* up), or Consul does not answer.                                         *)
DiscoverFails(c) ==
  /\ call[c] = "asked"
  /\ target[c] = NoAddress
  /\ call' = [call EXCEPT ![c] = "idle"]
  /\ UNCHANGED <<catalogue, proc, beating, address, target>>

Reuses(c) ==
  /\ call[c] = "asked"
  /\ target[c] # NoAddress
  /\ call' = [call EXCEPT ![c] = "connected"]
  /\ UNCHANGED <<catalogue, proc, beating, address, target>>

(* Mutant: the gateway keeps its connection, too. *)
Finish_Keeps(c, outcome) ==
  /\ call' = [call EXCEPT ![c] = outcome]
  /\ UNCHANGED target

(* The gateway's connection is that of one request, an agent keeps its own.*)
Finish(c, outcome) ==
  /\ call' = [call EXCEPT ![c] = outcome]
  /\ target' = IF c = Gateway THEN [target EXCEPT ![c] = NoAddress] ELSE target

Answers(a) == \E g \in Servers : proc[g] = "serving" /\ address[g] = a

CallAnswered(c) ==
  /\ call[c] = "connected"
  /\ Answers(target[c])
  /\ Finish(c, "answered")
  /\ UNCHANGED <<catalogue, proc, beating, address>>

CallFails(c) ==
  /\ call[c] = "connected"
  /\ ~Bound(target[c])
  /\ Finish(c, "idle")
  /\ UNCHANGED <<catalogue, proc, beating, address>>

(* A handler without a service panics, and the process with it. *)
CallCrashes(c) ==
  /\ call[c] = "connected"
  /\ \E g \in Servers :
       /\ proc[g] = "hollow"
       /\ address[g] = target[c]
       /\ proc' = [proc EXCEPT ![g] = "dead"]
       /\ beating' = [beating EXCEPT ![g] = FALSE]
  /\ Finish(c, "idle")
  /\ UNCHANGED <<catalogue, address>>

-----------------------------------------------------------------------------
ProcessStep(i) ==
  Registers(i) \/ RegisterFails(i) \/ Dies(i) \/ Leaves(i) \/ Beat(i) \/ BeatFails(i)

ClientStep(c) ==
  \/ Ask(c)
  \/ Discovers(c) \/ DiscoverFails(c) \/ Reuses(c)
  \/ CallAnswered(c) \/ CallFails(c) \/ CallCrashes(c)

Next ==
  \/ Tick
  \/ \E g \in Servers : Reap(g) \/ ServerStarts(g)
  \/ \E a \in Agents : AgentStarts(a)
  \/ \E i \in Processes : ProcessStep(i)
  \/ \E c \in Clients : ClientStep(c)

(* Time passes; a heartbeat loop that runs gets through to Consul some     *)
(* time, and so does a discovery that is tried again and again; a call     *)
(* ends.  Nothing is assumed of starts, failures, requests, nor of when    *)
(* Consul drops an entry.                                                  *)
Fairness ==
  /\ WF_vars(Tick)
  /\ \A i \in Processes : WF_vars(Beat(i))
  /\ \A c \in Clients :
       /\ SF_vars(Discovers(c))
       /\ WF_vars(Discovers(c) \/ DiscoverFails(c) \/ Reuses(c))
       /\ WF_vars(CallAnswered(c) \/ CallFails(c) \/ CallCrashes(c))

Spec == Init /\ [][Next]_vars /\ Fairness

-----------------------------------------------------------------------------
(* Properties *)

(* A process that died without deregistering (logger.Fatal, a signal) is   *)
(* not handed out for ever: the TTL runs out.                              *)
DeadForgotten == \A i \in Processes : proc[i] = "dead" ~> ~Discoverable(i)

(* A server whose heartbeats failed for a while is found again, unless     *)
(* Consul has dropped it in the meantime.                                  *)
ServerReturns ==
  \A g \in Servers :
    proc[g] = "serving" ~> \/ Discoverable(g)
                           \/ g \notin DOMAIN catalogue
                           \/ proc[g] = "dead"

(* Every server that is handed out serves, and there is one.               *)
Healthy ==
  /\ \E g \in Servers : Discoverable(g)
  /\ \A g \in Servers : Discoverable(g) => Answers(address[g])

Served(c) == []<>(call[c] = "asked") => []<>(call[c] = "answered")

(* After any failures, once the servers that are handed out serve, the     *)
(* gateway's requests are answered: no earlier outcome is held on to.      *)
GatewayServed == <>[]Healthy => Served(Gateway)

OneAddress == Cardinality({address[g] : g \in Servers} \ {NoAddress}) <= 1

(* The same for an agent's configuration client, whose stub is never       *)
(* looked up again, if servers are restarted at the address they had.      *)
AgentServed == []OneAddress /\ <>[]Healthy => \A a \in Agents : Served(a)
=============================================================================
