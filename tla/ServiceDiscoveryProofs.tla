---------------------- MODULE ServiceDiscoveryProofs ------------------------
(* Proofs about ServiceDiscovery, for any processes, clients and times.    *)
EXTENDS ServiceDiscovery, TLAPS

(* A server that runs, or whose check has been passed lately, has told its *)
(* address: an entry that a failed registration left was never passed.     *)
Addressed ==
  \A g \in Servers :
    Live(g) \/ Discoverable(g) => address[g] \in Addresses

TypeInv == TypeOK /\ Addressed

-----------------------------------------------------------------------------
(* Entries *)

IsCatalogue(f) == DOMAIN f \subseteq Processes /\ \A i \in DOMAIN f : f[i] \in 0..Oldest

(* What a step may do to the catalogue: an entry that is made is critical, *)
(* and only the check of what lives is passed.                             *)
Orderly == \A i \in DOMAIN catalogue' :
             catalogue'[i] <= TTL => Live(i) \/ Discoverable(i)

LEMMA Times == TTL \in Nat /\ Oldest \in Nat /\ TTL + 1 \in 0..Oldest /\ 0 \in 0..Oldest
  BY TimeAssumption DEF Oldest

LEMMA EnteredParts ==
  ASSUME TypeOK, NEW i \in Processes, catalogue' = Entered(i)
  PROVE  IsCatalogue(catalogue') /\ Orderly
<1>1. DOMAIN catalogue' = DOMAIN catalogue \cup {i}
      /\ \A j \in DOMAIN catalogue' :
           catalogue'[j] = IF j = i THEN TTL + 1 ELSE catalogue[j]
  BY DEF Entered
<1>2. IsCatalogue(catalogue') BY <1>1, Times DEF IsCatalogue, TypeOK
<1>3. Orderly BY <1>1, Times DEF Orderly, Discoverable
<1>4. QED BY <1>2, <1>3

LEMMA WithoutParts ==
  ASSUME TypeOK, NEW i, catalogue' = Without(i)
  PROVE  IsCatalogue(catalogue') /\ Orderly
<1>1. DOMAIN catalogue' = DOMAIN catalogue \ {i}
      /\ \A j \in DOMAIN catalogue' : catalogue'[j] = catalogue[j]
  BY DEF Without
<1>2. QED BY <1>1 DEF IsCatalogue, TypeOK, Orderly, Discoverable

LEMMA TickParts ==
  ASSUME TypeOK, Tick
  PROVE  IsCatalogue(catalogue') /\ Orderly
<1>1. DOMAIN catalogue' = DOMAIN catalogue
      /\ \A j \in DOMAIN catalogue' :
           catalogue'[j] = IF catalogue[j] < Oldest THEN catalogue[j] + 1 ELSE Oldest
  BY DEF Tick
<1>2. \A j \in DOMAIN catalogue : catalogue[j] \in 0..Oldest BY DEF TypeOK
<1>3. IsCatalogue(catalogue') BY <1>1, <1>2, Times DEF IsCatalogue, TypeOK
<1>4. Oldest > TTL BY TimeAssumption DEF Oldest
<1>5. \A j \in DOMAIN catalogue : catalogue'[j] <= TTL => catalogue[j] <= TTL
  BY <1>1, <1>2, <1>4, Times
<1>6. Orderly BY <1>1, <1>5 DEF Orderly, Discoverable
<1>7. QED BY <1>3, <1>6

LEMMA BeatParts ==
  ASSUME TypeOK, NEW i \in Processes, Beat(i)
  PROVE  IsCatalogue(catalogue') /\ Orderly
<1>1. DOMAIN catalogue' = DOMAIN catalogue
      /\ \A j \in DOMAIN catalogue' : catalogue'[j] = IF j = i THEN 0 ELSE catalogue[j]
  BY DEF Beat
<1>2. Live(i) BY DEF Beat
<1>3. QED BY <1>1, <1>2, Times DEF IsCatalogue, TypeOK, Orderly, Discoverable

LEMMA SameParts ==
  ASSUME TypeOK, catalogue' = catalogue
  PROVE  IsCatalogue(catalogue') /\ Orderly
  BY DEF IsCatalogue, TypeOK, Orderly, Discoverable

-----------------------------------------------------------------------------
(* Type correctness *)

LEMMA TypeInvInit == Init => TypeInv
  BY DistinctAssumption, TimeAssumption
  DEF Init, TypeInv, TypeOK, Addressed, Live, Discoverable, Processes

(* No process comes to life, no address changes. *)
LEMMA AddressedKept ==
  ASSUME TypeInv, Orderly, UNCHANGED address,
         \A g \in Servers : proc'[g] \notin {"new", "dead"} => Live(g)
  PROVE  Addressed'
  BY DEF TypeInv, Addressed, Orderly, Live, Discoverable

(* The clients keep their types, and who is connected has an address. *)
ClientsOK ==
  /\ call \in [Clients -> {"idle", "asked", "connected", "answered"}]
  /\ target \in [Clients -> Addresses \cup {NoAddress}]
  /\ \A c \in Clients : call[c] = "connected" => target[c] # NoAddress

ProcsOK ==
  /\ proc \in [Processes -> {"new", "registered", "serving", "hollow", "dead"}]
  /\ beating \in [Processes -> BOOLEAN]
  /\ \A i \in Processes : beating[i] => proc[i] \notin {"new", "dead"}

LEMMA TypeParts ==
  TypeOK <=> /\ IsCatalogue(catalogue) /\ ProcsOK /\ ClientsOK
             /\ address \in [Servers -> Addresses \cup {NoAddress}]
  BY DEF TypeOK, IsCatalogue, ProcsOK, ClientsOK

(* A process ends. *)
LEMMA EndParts ==
  ASSUME TypeInv, NEW i \in Processes, End(i)
  PROVE  /\ ProcsOK' /\ ClientsOK'
         /\ \A g \in Servers : proc'[g] \notin {"new", "dead"} => Live(g)
<1>1. \A j \in Processes : /\ proc'[j] = IF j = i THEN "dead" ELSE proc[j]
                           /\ beating'[j] = IF j = i THEN FALSE ELSE beating[j]
  BY DEF End, TypeInv, TypeOK
<1>2. proc' \in [Processes -> {"new", "registered", "serving", "hollow", "dead"}]
      /\ beating' \in [Processes -> BOOLEAN]
  BY DEF End, TypeInv, TypeOK
<1>3. ProcsOK' BY <1>1, <1>2 DEF ProcsOK, TypeInv, TypeOK
<1>4. ClientsOK' BY DEF ClientsOK, End, TypeInv, TypeOK
<1>5. QED BY <1>1, <1>3, <1>4 DEF Live, Processes

LEMMA TypeInvEnds ==
  ASSUME TypeInv, NEW i \in Processes, RegisterFails(i) \/ Dies(i) \/ Leaves(i)
  PROVE  TypeInv'
<1>1. End(i) /\ UNCHANGED address BY DEF RegisterFails, Dies, Leaves
<1>2. catalogue' \in {catalogue, Entered(i), Without(i)} BY DEF RegisterFails, Dies, Leaves
<1>3. IsCatalogue(catalogue') /\ Orderly
  BY <1>2, SameParts, EnteredParts, WithoutParts DEF TypeInv
<1>4. Addressed' BY <1>1, <1>3, EndParts, AddressedKept
<1>5. address' \in [Servers -> Addresses \cup {NoAddress}] BY <1>1 DEF TypeInv, TypeOK
<1>6. TypeOK' BY <1>1, <1>3, <1>5, EndParts DEF TypeOK, IsCatalogue, ProcsOK, ClientsOK
<1>7. QED BY <1>4, <1>6 DEF TypeInv

LEMMA TypeInvRegisters ==
  ASSUME TypeInv, NEW i \in Processes, Registers(i)
  PROVE  TypeInv'
<1>1. IsCatalogue(catalogue') /\ Orderly BY EnteredParts DEF Registers, TypeInv
<1>2. \A j \in Processes : /\ proc'[j] = IF j = i THEN "registered" ELSE proc[j]
                           /\ beating'[j] = IF j = i THEN i \in Servers ELSE beating[j]
  BY DEF Registers, TypeInv, TypeOK
<1>3. ProcsOK'
  <2>1. proc' \in [Processes -> {"new", "registered", "serving", "hollow", "dead"}]
    BY DEF Registers, TypeInv, TypeOK
  <2>2. beating' \in [Processes -> BOOLEAN]
    <3>1. (i \in Servers) \in BOOLEAN OBVIOUS
    <3>2. QED BY <3>1 DEF Registers, TypeInv, TypeOK
  <2>3. QED BY <1>2, <2>1, <2>2 DEF ProcsOK, TypeInv, TypeOK
<1>4. ClientsOK' BY DEF Registers, ClientsOK, TypeInv, TypeOK
<1>5. address' \in [Servers -> Addresses \cup {NoAddress}]
      /\ \A g \in Servers : IF g = i THEN address'[g] \in Addresses ELSE address'[g] = address[g]
  <2>1. CASE i \in Servers BY <2>1 DEF Registers, TypeInv, TypeOK
  <2>2. CASE i \notin Servers BY <2>2 DEF Registers, TypeInv, TypeOK
  <2>3. QED BY <2>1, <2>2
<1>6. Addressed'
  <2>1. \A g \in Servers : g # i => (Live(g)' => Live(g))
    BY <1>2 DEF Live, Processes
  <2>2. QED BY <1>1, <1>5, <2>1 DEF TypeInv, Addressed, Orderly, Live, Discoverable
<1>7. TypeOK' BY <1>1, <1>3, <1>4, <1>5 DEF TypeOK, IsCatalogue, ProcsOK, ClientsOK
<1>8. QED BY <1>6, <1>7 DEF TypeInv

LEMMA TypeInvRuns ==
  ASSUME TypeInv,
         NEW i \in Processes,
         (i \in Servers /\ ServerStarts(i)) \/ (i \in Agents /\ AgentStarts(i)) \/ BeatFails(i)
  PROVE  TypeInv'
<1>1. UNCHANGED <<catalogue, address, call, target>>
  BY DEF ServerStarts, AgentStarts, BeatFails
<1>2. \A j \in Processes : proc'[j] \notin {"new", "dead"} <=> proc[j] \notin {"new", "dead"}
  BY DEF ServerStarts, AgentStarts, BeatFails, TypeInv, TypeOK
<1>3. proc' \in [Processes -> {"new", "registered", "serving", "hollow", "dead"}]
  BY DEF ServerStarts, AgentStarts, BeatFails, TypeInv, TypeOK
<1>4. beating' \in [Processes -> BOOLEAN]
  <2>1. TRUE \in BOOLEAN /\ (i \in Servers) \in BOOLEAN OBVIOUS
  <2>2. \E b \in BOOLEAN : beating' = beating \/ beating' = [beating EXCEPT ![i] = b]
    BY <2>1, Zenon DEF ServerStarts, AgentStarts, BeatFails
  <2>3. QED BY <2>2 DEF TypeInv, TypeOK
<1>5. \A j \in Processes : beating'[j] => beating[j] \/ Live(j)
  BY DEF ServerStarts, AgentStarts, BeatFails, TypeInv, TypeOK, Live
<1>6. ProcsOK' BY <1>2, <1>3, <1>4, <1>5 DEF ProcsOK, TypeInv, TypeOK, Live
<1>7. IsCatalogue(catalogue') /\ Orderly BY <1>1, SameParts DEF TypeInv
<1>8. Addressed' BY <1>1, <1>2, <1>7, AddressedKept DEF Live, Processes
<1>9. ClientsOK' BY <1>1 DEF ClientsOK, TypeInv, TypeOK
<1>10. TypeOK' BY <1>1, <1>6, <1>7, <1>9 DEF TypeInv, TypeOK, IsCatalogue, ProcsOK, ClientsOK
<1>11. QED BY <1>8, <1>10 DEF TypeInv

LEMMA TypeInvTime ==
  ASSUME TypeInv, Tick \/ (\E g \in Servers : Reap(g)) \/ (\E i \in Processes : Beat(i))
  PROVE  TypeInv'
<1>1. UNCHANGED <<proc, beating, address, call, target>> BY DEF Tick, Reap, Beat
<1>2. IsCatalogue(catalogue') /\ Orderly
  BY TickParts, WithoutParts, BeatParts DEF Reap, TypeInv
<1>3. Addressed' BY <1>1, <1>2, AddressedKept DEF Live
<1>4. TypeOK' BY <1>1, <1>2 DEF TypeInv, TypeOK, IsCatalogue
<1>5. QED BY <1>3, <1>4 DEF TypeInv

LEMMA TypeInvClient ==
  ASSUME TypeInv, NEW c \in Clients, ClientStep(c)
  PROVE  TypeInv'
<1>1. UNCHANGED <<catalogue, address>>
  BY DEF ClientStep, Ask, Discovers, DiscoverFails, Reuses, CallAnswered, CallFails, CallCrashes
<1>2. ClientsOK'
  <2>1. CASE Ask(c) \/ DiscoverFails(c) \/ Reuses(c)
    BY <2>1 DEF Ask, DiscoverFails, Reuses, ClientsOK, TypeInv, TypeOK
  <2>2. CASE Discovers(c)
    <3>1. PICK g \in Servers : Discoverable(g) /\ target' = [target EXCEPT ![c] = address[g]]
      BY <2>2 DEF Discovers
    <3>2. address[g] \in Addresses /\ address[g] # NoAddress
      BY <3>1, DistinctAssumption DEF TypeInv, Addressed
    <3>3. call' = [call EXCEPT ![c] = "connected"] BY <2>2 DEF Discovers
    <3>4. QED BY <3>1, <3>2, <3>3 DEF ClientsOK, TypeInv, TypeOK
  <2>3. CASE CallAnswered(c) \/ CallFails(c) \/ CallCrashes(c)
    <3>1. PICK outcome \in {"idle", "answered"} : Finish(c, outcome)
      BY <2>3 DEF CallAnswered, CallFails, CallCrashes
    <3>2. QED BY <3>1 DEF Finish, ClientsOK, TypeInv, TypeOK
  <2>4. QED BY <2>1, <2>2, <2>3 DEF ClientStep
<1>3. ProcsOK' /\ \A g \in Servers : proc'[g] \notin {"new", "dead"} => Live(g)
  <2>1. CASE CallCrashes(c)
    <3>1. PICK g \in Servers : /\ proc' = [proc EXCEPT ![g] = "dead"]
                               /\ beating' = [beating EXCEPT ![g] = FALSE]
      BY <2>1 DEF CallCrashes
    <3>2. \A j \in Processes : /\ proc'[j] = IF j = g THEN "dead" ELSE proc[j]
                               /\ beating'[j] = IF j = g THEN FALSE ELSE beating[j]
      BY <3>1 DEF TypeInv, TypeOK
    <3>3. proc' \in [Processes -> {"new", "registered", "serving", "hollow", "dead"}]
          /\ beating' \in [Processes -> BOOLEAN]
      BY <3>1 DEF TypeInv, TypeOK
    <3>4. ProcsOK' BY <3>2, <3>3 DEF ProcsOK, TypeInv, TypeOK
    <3>5. QED BY <3>2, <3>4 DEF Live, Processes
  <2>2. CASE UNCHANGED <<proc, beating>>
    BY <2>2 DEF ProcsOK, TypeInv, TypeOK, Live
  <2>3. QED
    BY <2>1, <2>2
    DEF ClientStep, Ask, Discovers, DiscoverFails, Reuses, CallAnswered, CallFails
<1>4. IsCatalogue(catalogue') /\ Orderly BY <1>1, SameParts DEF TypeInv
<1>5. Addressed' BY <1>1, <1>3, <1>4, AddressedKept
<1>6. TypeOK' BY <1>1, <1>2, <1>3, <1>4 DEF TypeInv, TypeOK, IsCatalogue, ProcsOK, ClientsOK
<1>7. QED BY <1>5, <1>6 DEF TypeInv

LEMMA TypeInvInductive == TypeInv /\ [Next]_vars => TypeInv'
<1>1. TypeInv /\ UNCHANGED vars => TypeInv'
  BY DEF vars, TypeInv, TypeOK, Addressed, Live, Discoverable
<1>2. ASSUME TypeInv, NEW i \in Processes, ProcessStep(i) PROVE TypeInv'
  BY <1>2, TypeInvRegisters, TypeInvEnds, TypeInvRuns, TypeInvTime DEF ProcessStep
<1>3. Servers \subseteq Processes /\ Agents \subseteq Processes BY DEF Processes
<1>4. QED BY <1>1, <1>2, <1>3, TypeInvTime, TypeInvRuns, TypeInvClient DEF Next

(* Every variable keeps its type, a heartbeat loop runs only in a process  *)
(* that lives, and a client is connected to an address, never to none:     *)
(* what Consul hands out has registered with the address it serves at.     *)
THEOREM TypeCorrect == Spec => []TypeOK
<1>1. TypeInv => TypeOK BY DEF TypeInv
<1>2. QED BY <1>1, TypeInvInit, TypeInvInductive, PTL DEF Spec

=============================================================================
