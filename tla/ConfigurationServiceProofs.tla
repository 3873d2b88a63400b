--------------------- MODULE ConfigurationServiceProofs ---------------------
(* Proofs about ConfigurationService, for all requests, users and keys.    *)
EXTENDS ConfigurationService, TLAPS

(* What a request asks is fixed when it is received; the statements that   *)
(* write are reached with a user; the reply is given at the end.           *)
Called    == \A r \in Requests : IF pc[r] = "idle" THEN call[r] = NoCall ELSE call[r] \in Calls
WithUser  == \A r \in Requests :
               /\ pc[r] = "insert"  => call[r].kind = "create" /\ call[r].user # NoUser
               /\ pc[r] = "replace" => call[r].kind = "update" /\ call[r].user # NoUser
Replied   == \A r \in Requests :
               IF pc[r] = "done" THEN reply[r].status \in {"ok", "error"}
               ELSE reply[r] = [status |-> "none", config |-> Empty]
Received  == \A r \in overlapped : pc[r] # "idle"

TypeInv == TypeOK /\ Called /\ WithUser /\ Replied /\ Received

(* Request r was made by user u and gives field f. *)
Gave(r, u, f) == pc[r] # "idle" /\ call[r].user = u /\ f \in call[r].sets

OwnValues(config, u) ==
  \A f \in Fields : config[f] # Unset => Gave(config[f].by, u, f)

(* Where documents come from: each was inserted by a create of its user    *)
(* that is over and inserted no other; its values, and those that an       *)
(* update has read, were given by its user.                                *)
Inserted   == \A d \in docs : /\ pc[d.id] = "done"
                             /\ call[d.id].kind = "create" /\ call[d.id].user = d.user
OwnId      == \A d, e \in docs : d.id = e.id => d = e
OwnDocs    == \A d \in docs : OwnValues(d.config, d.user)
OwnReading == \A r \in Requests : pc[r] = "replace" => OwnValues(read[r], call[r].user)

OriginInv == Inserted /\ OwnId /\ OwnDocs /\ OwnReading

(* Writes of one user that do not overlap: what a request has seen of the  *)
(* collection is still true when it writes.                                *)
Writes(r) == pc[r] \in InFlight /\ call[r].kind # "get"
Overlap   == \A r, q \in Requests :
               Writes(r) /\ Writes(q) /\ call[r].user = call[q].user /\ r # q
                 => {r, q} \subseteq overlapped
Absent    == \A r \in Requests : pc[r] = "insert" =>
               \A d \in Matching(r) : {r, d.id} \subseteq overlapped
Current   == \A r \in Requests : pc[r] = "replace" /\ r \notin overlapped =>
               \E d \in Matching(r) : d.config = read[r]

OverlapInv == Overlap /\ OneDocumentPerUser /\ Absent /\ Current
-----------------------------------------------------------------------------
(* Documents, configurations and what is asked. *)

Document == [id : Requests, user : Users, config : Config]

(* A call names a known user or none, and gives known fields. *)
LEMMA CallParts ==
  ASSUME NEW c \in Calls
  PROVE  c.user \in Users \cup {NoUser} /\ c.sets \subseteq Fields
  BY DEF Calls

LEMMA EmptyType == Empty \in Config /\ Empty \in Reading
  BY DEF Empty, Config, Reading

(* What a get returns is made of the requests that gave the values. *)
LEMMA DecryptedType ==
  ASSUME NEW config \in Config
  PROVE  Decrypted(config) \in Reading
  BY DEF Decrypted, Decrypts, Config, Reading, Value

(* What an update writes is a configuration. *)
LEMMA MergedType ==
  ASSUME TypeInv, NEW r \in Requests
  PROVE  Merged(r) \in Config
  BY DEF TypeInv, TypeOK, Merged, Config, Value

(* A request has one place, one call and one reply; only its own change. *)
LEMMA AnswerParts ==
  ASSUME TypeInv, NEW r \in Requests, NEW status, NEW config, Answer(r, status, config)
  PROVE  /\ \A q \in Requests : pc'[q] = IF q = r THEN "done" ELSE pc[q]
         /\ \A q \in Requests : reply'[q] = IF q = r THEN [status |-> status, config |-> config]
                                                     ELSE reply[q]
  BY DEF TypeInv, TypeOK, Answer

LEMMA ContinueParts ==
  ASSUME TypeInv, NEW r \in Requests, NEW next, Continue(r, next)
  PROVE  \A q \in Requests : pc'[q] = IF q = r THEN next ELSE pc[q]
  BY DEF TypeInv, TypeOK, Continue

(* A document that is replaced keeps its id and its user. *)
LEMMA Replaced ==
  ASSUME NEW d \in Document, NEW config
  PROVE  [d EXCEPT !.config = config] = [id |-> d.id, user |-> d.user, config |-> config]
  BY DEF Document

-----------------------------------------------------------------------------
(* Type correctness *)

LEMMA TypeInvInit == Init => TypeInv
  BY EmptyType, AbsenceAssumption
  DEF Init, TypeInv, TypeOK, Called, WithUser, Replied, Received, Reading

(* A request ends. *)
LEMMA TypeInvAnswer ==
  ASSUME TypeInv, NEW r \in Requests, pc[r] \in InFlight,
         NEW status \in {"ok", "error"}, NEW config \in Reading, Answer(r, status, config),
         docs' \subseteq Document, UNCHANGED <<key, call, read, overlapped>>
  PROVE  TypeInv'
<1>1. \A q \in Requests : pc'[q] = IF q = r THEN "done" ELSE pc[q] BY AnswerParts
<1>2. \A q \in Requests : reply'[q] = IF q = r THEN [status |-> status, config |-> config]
                                               ELSE reply[q]
  BY AnswerParts
<1>3. TypeOK' BY DEF TypeInv, TypeOK, Answer, Document
<1>4. Called' BY <1>1 DEF TypeInv, Called, InFlight
<1>5. WithUser' BY <1>1 DEF TypeInv, WithUser
<1>6. Replied' BY <1>1, <1>2 DEF TypeInv, Replied
<1>7. Received' BY <1>1 DEF TypeInv, TypeOK, Received
<1>8. QED BY <1>3, <1>4, <1>5, <1>6, <1>7 DEF TypeInv

(* A request goes on to its write. *)
LEMMA TypeInvContinue ==
  ASSUME TypeInv, NEW r \in Requests, pc[r] = "begun",
         NEW next \in {"insert", "replace"}, Continue(r, next),
         call[r].kind = (IF next = "insert" THEN "create" ELSE "update"), call[r].user # NoUser,
         read' \in [Requests -> Config], UNCHANGED <<docs, key, call, overlapped>>
  PROVE  TypeInv'
<1>1. \A q \in Requests : pc'[q] = IF q = r THEN next ELSE pc[q] BY ContinueParts
<1>2. TypeOK' BY DEF TypeInv, TypeOK, Continue, InFlight
<1>3. Called' BY <1>1 DEF TypeInv, Called
<1>4. WithUser' BY <1>1 DEF TypeInv, WithUser
<1>5. Replied' BY <1>1 DEF TypeInv, Replied, Continue
<1>6. Received' BY <1>1 DEF TypeInv, TypeOK, Received
<1>7. QED BY <1>2, <1>3, <1>4, <1>5, <1>6 DEF TypeInv

LEMMA TypeInvReceive ==
  ASSUME TypeInv, NEW r \in Requests, NEW c \in Calls, Receive(r, c)
  PROVE  TypeInv'
<1>1. \A q \in Requests : pc'[q] = IF q = r THEN "begun" ELSE pc[q]
  BY ContinueParts DEF Receive
<1>2. \A q \in Requests : call'[q] = IF q = r THEN c ELSE call[q]
  BY DEF TypeInv, TypeOK, Receive
<1>3. TypeOK' BY DEF TypeInv, TypeOK, Receive, Rivals, Continue, InFlight
<1>4. Called' BY <1>1, <1>2 DEF TypeInv, Called
<1>5. WithUser' BY <1>1, <1>2 DEF TypeInv, WithUser
<1>6. Replied' BY <1>1 DEF TypeInv, Replied, Receive, Continue
<1>7. Received' BY <1>1 DEF TypeInv, TypeOK, Received, Receive, Rivals, InFlight
<1>8. QED BY <1>3, <1>4, <1>5, <1>6, <1>7 DEF TypeInv

LEMMA TypeInvRestart ==
  ASSUME TypeInv, Restart
  PROVE  TypeInv'
<1>1. \A q \in Requests : pc'[q] = IF pc[q] \in InFlight THEN "done" ELSE pc[q]
  BY DEF Restart
<1>2. \A q \in Requests :
        reply'[q] = IF pc[q] \in InFlight THEN [status |-> "error", config |-> Empty] ELSE reply[q]
  BY DEF Restart
<1>3. TypeOK' BY EmptyType DEF TypeInv, TypeOK, Restart
<1>4. Called' BY <1>1 DEF TypeInv, Called, Restart, InFlight
<1>5. WithUser' BY <1>1 DEF TypeInv, WithUser, InFlight
<1>6. Replied' BY <1>1, <1>2 DEF TypeInv, TypeOK, Replied, InFlight
<1>7. Received' BY <1>1 DEF TypeInv, TypeOK, Received, Restart, InFlight
<1>8. QED BY <1>3, <1>4, <1>5, <1>6, <1>7 DEF TypeInv

LEMMA TypeInvStep ==
  ASSUME TypeInv, NEW r \in Requests, Step(r)
  PROVE  TypeInv'
<1> USE EmptyType
<1>1. docs \subseteq Document /\ Matching(r) \subseteq docs
  BY DEF TypeInv, TypeOK, Document, Matching
<1>2. CASE Fail(r)
  BY <1>1, <1>2, TypeInvAnswer DEF Fail
<1>3. CASE CreateChecks(r)
  <2>1. read' \in [Requests -> Config] BY <1>3 DEF CreateChecks, TypeInv, TypeOK
  <2>2. QED BY <1>3, <2>1, TypeInvContinue DEF CreateChecks, Begun
<1>4. CASE CreateInserts(r)
  <2>1. call[r].user \in Users BY <1>4, CallParts DEF CreateInserts, TypeInv, Called, WithUser
  <2>2. docs' \subseteq Document BY <1>1, <1>4, <2>1 DEF CreateInserts, Document
  <2>3. QED BY <1>4, <2>2, TypeInvAnswer DEF CreateInserts, Acknowledge, InFlight
<1>5. CASE Get(r)
  <2>1. PICK d \in Matching(r) : Answer(r, "ok", Decrypted(d.config)) BY <1>5 DEF Get
  <2>2. Decrypted(d.config) \in Reading BY <1>1, DecryptedType DEF Document
  <2>3. QED BY <1>1, <1>5, <2>1, <2>2, TypeInvAnswer DEF Get, Begun, InFlight
<1>6. CASE UpdateReads(r)
  <2>1. read' \in [Requests -> Config]
    BY <1>1, <1>6 DEF UpdateReads, TypeInv, TypeOK, Document
  <2>2. QED BY <1>6, <2>1, TypeInvContinue DEF UpdateReads, Begun
<1>7. CASE UpdateReplaces(r)
  <2>1. PICK d \in Matching(r) :
          docs' = (docs \ {d}) \cup {[d EXCEPT !.config = Merged(r)]}
    BY <1>7 DEF UpdateReplaces
  <2>2. [d EXCEPT !.config = Merged(r)] \in Document
    BY <1>1, MergedType, Replaced DEF Document
  <2>3. QED BY <1>1, <1>7, <2>1, <2>2, TypeInvAnswer DEF UpdateReplaces, Acknowledge, InFlight
<1>8. CASE Delete(r)
  <2>1. docs' \subseteq Document BY <1>1, <1>8 DEF Delete
  <2>2. QED BY <1>8, <2>1, TypeInvAnswer DEF Delete, Acknowledge, Begun, InFlight
<1>9. QED BY <1>2, <1>3, <1>4, <1>5, <1>6, <1>7, <1>8, TypeInvReceive DEF Step

LEMMA TypeInvStutter ==
  ASSUME TypeInv, UNCHANGED vars
  PROVE  TypeInv'
  BY DEF vars, TypeInv, TypeOK, Called, WithUser, Replied, Received

LEMMA TypeInvInductive == TypeInv /\ [Next]_vars => TypeInv'
  BY TypeInvStep, TypeInvRestart, TypeInvStutter DEF Next

LEMMA TypeInvAlways == Spec => []TypeInv
  BY TypeInvInit, TypeInvInductive, PTL DEF Spec

(* Every stored document has a known user and well-formed fields, in every *)
(* interleaving of any number of requests and restarts.                    *)
THEOREM TypeCorrect == Spec => []TypeOK
<1>1. TypeInv => TypeOK BY DEF TypeInv
<1>2. QED BY <1>1, TypeInvAlways, PTL

-----------------------------------------------------------------------------
(* Origin of documents and values *)

LEMMA OriginInvInit == Init => OriginInv
  BY DEF Init, OriginInv, Inserted, OwnId, OwnDocs, OwnReading

(* What a request gave, it gave for good. *)
LEMMA GaveForGood ==
  ASSUME TypeInv, NEW config \in Config, NEW u, OwnValues(config, u),
         \A q \in Requests : pc[q] # "idle" => pc'[q] # "idle" /\ call'[q] = call[q]
  PROVE  OwnValues(config, u)'
  BY DEF OwnValues, Gave, Config, Value

(* A request moves on, the documents are kept or fewer, what it reads, if  *)
(* it is to write it, is its user's.                                       *)
LEMMA OriginInvMove ==
  ASSUME TypeInv, OriginInv, docs' \subseteq docs,
         \A q \in Requests : /\ pc[q] # "idle" => pc'[q] # "idle" /\ call'[q] = call[q]
                             /\ pc[q] = "done" => pc'[q] = "done"
                             /\ pc'[q] = "replace" =>
                                  IF pc[q] = "replace" THEN read'[q] = read[q]
                                  ELSE pc[q] = "begun"
                                       /\ \E d \in Matching(q) : read'[q] = d.config
  PROVE  OriginInv'
<1>1. docs \subseteq Document BY DEF TypeInv, TypeOK, Document
<1>2. Inserted' BY <1>1 DEF OriginInv, Inserted, Document
<1>3. OwnId' BY DEF OriginInv, OwnId
<1>4. \A d \in docs : OwnValues(d.config, d.user)'
  BY <1>1, GaveForGood DEF OriginInv, OwnDocs, Document
<1>5. OwnDocs' BY <1>4 DEF OwnDocs
<1>6. OwnReading'
  <2> SUFFICES ASSUME NEW q \in Requests, pc'[q] = "replace"
               PROVE  OwnValues(read[q], call[q].user)'
    BY DEF OwnReading
  <2>1. call'[q] = call[q] OBVIOUS
  <2>2. CASE pc[q] = "replace"
    <3>1. read[q] \in Config /\ OwnValues(read[q], call[q].user)
      BY <2>2 DEF TypeInv, TypeOK, OriginInv, OwnReading
    <3>2. read'[q] = read[q] BY <2>2
    <3>3. ASSUME NEW config \in Config, NEW u, OwnValues(config, u),
                 config = read'[q], u = call'[q].user
          PROVE  OwnValues(read[q], call[q].user)'
      <4>1. OwnValues(config, u)' BY <3>3, GaveForGood
      <4>2. QED BY <3>3, <4>1 DEF OwnValues
    <3>4. QED BY <2>1, <3>1, <3>2, <3>3
  <2>3. CASE pc[q] # "replace"
    <3>1. PICK d \in Matching(q) : read'[q] = d.config BY <2>3
    <3>2. d \in docs /\ d.user = call'[q].user BY <2>1 DEF Matching
    <3>3. QED BY <1>4, <3>1, <3>2 DEF OwnValues
  <2>4. QED BY <2>2, <2>3
<1>7. QED BY <1>2, <1>3, <1>5, <1>6 DEF OriginInv

LEMMA OriginInvCreateInserts ==
  ASSUME TypeInv, OriginInv, NEW r \in Requests, CreateInserts(r)
  PROVE  OriginInv'
<1>1. docs \subseteq Document BY DEF TypeInv, TypeOK, Document
<1>2. pc[r] = "insert" /\ UNCHANGED <<call, read>> BY DEF CreateInserts
<1>3. \A q \in Requests : pc'[q] = IF q = r THEN "done" ELSE pc[q]
  BY AnswerParts DEF CreateInserts, Acknowledge
<1>4. \A d \in docs' : d \in docs \/ d = [id |-> r, user |-> call[r].user, config |-> Empty]
  BY DEF CreateInserts
<1>5. Inserted' BY <1>1, <1>2, <1>3, <1>4 DEF OriginInv, Inserted, TypeInv, WithUser, Document
<1>6. \A d \in docs : d.id # r BY <1>2 DEF OriginInv, Inserted
<1>7. OwnId' BY <1>4, <1>6 DEF OriginInv, OwnId
<1>8. \A d \in docs : OwnValues(d.config, d.user)'
  BY <1>1, <1>2, <1>3, GaveForGood DEF OriginInv, OwnDocs, Document
<1>9. OwnDocs'
  <2>1. \A u : OwnValues(Empty, u)' BY DEF OwnValues, Empty
  <2>2. QED BY <1>4, <1>8, <2>1 DEF OwnDocs, OwnValues
<1>10. OwnReading' 
  <2> SUFFICES ASSUME NEW q \in Requests, pc'[q] = "replace"
               PROVE  OwnValues(read[q], call[q].user)'
    BY DEF OwnReading
  <2>1. OwnValues(read[q], call[q].user) BY <1>3 DEF OriginInv, OwnReading
  <2>2. QED BY <1>2, <1>3, <2>1 DEF OwnValues, Gave, TypeInv, TypeOK, Config, Value
<1>11. QED BY <1>5, <1>7, <1>9, <1>10 DEF OriginInv

(* An update merges what its user gave with what it gives itself. *)
LEMMA MergedOwn ==
  ASSUME TypeInv, OriginInv, NEW r \in Requests, pc[r] = "replace"
  PROVE  OwnValues(Merged(r), call[r].user)
<1>1. OwnValues(read[r], call[r].user) BY DEF OriginInv, OwnReading
<1>2. QED BY <1>1 DEF OwnValues, Merged, Gave

LEMMA OriginInvUpdateReplaces ==
  ASSUME TypeInv, OriginInv, NEW r \in Requests, UpdateReplaces(r)
  PROVE  OriginInv'
<1>1. docs \subseteq Document BY DEF TypeInv, TypeOK, Document
<1>2. pc[r] = "replace" /\ UNCHANGED <<call, read>> BY DEF UpdateReplaces
<1>3. \A q \in Requests : pc'[q] = IF q = r THEN "done" ELSE pc[q]
  BY AnswerParts DEF UpdateReplaces, Acknowledge
<1>4. PICK d \in Matching(r) :
        docs' = (docs \ {d}) \cup {[d EXCEPT !.config = Merged(r)]}
  BY DEF UpdateReplaces
<1> DEFINE new == [d EXCEPT !.config = Merged(r)]
<1>5. d \in docs /\ d.user = call[r].user BY DEF Matching
<1>6. new.id = d.id /\ new.user = d.user /\ new.config = Merged(r)
  BY <1>1, <1>5, Replaced
<1>7. \A e \in docs' : e = new \/ (e \in docs /\ e # d) BY <1>4
<1> HIDE DEF new
<1>8. Inserted' BY <1>1, <1>2, <1>3, <1>5, <1>6, <1>7 DEF OriginInv, Inserted, Document
<1>9. OwnId' BY <1>5, <1>6, <1>7 DEF OriginInv, OwnId
<1>10. ASSUME NEW config \in Config, NEW u, OwnValues(config, u)
       PROVE  OwnValues(config, u)'
  BY <1>2, <1>3, <1>10, GaveForGood
<1>11. OwnDocs'
  <2> SUFFICES ASSUME NEW e \in docs' PROVE OwnValues(e.config, e.user)' BY DEF OwnDocs
  <2>1. e.config \in Config /\ OwnValues(e.config, e.user)
    BY <1>1, <1>2, <1>5, <1>6, <1>7, MergedType, MergedOwn DEF OriginInv, OwnDocs, Document
  <2>2. QED BY <1>10, <2>1
<1>12. OwnReading'
  <2> SUFFICES ASSUME NEW q \in Requests, pc'[q] = "replace"
               PROVE  OwnValues(read[q], call[q].user)'
    BY DEF OwnReading
  <2>1. OwnValues(read[q], call[q].user) BY <1>3 DEF OriginInv, OwnReading
  <2>2. QED BY <1>2, <1>3, <2>1 DEF OwnValues, Gave, TypeInv, TypeOK, Config, Value
<1>13. QED BY <1>8, <1>9, <1>11, <1>12 DEF OriginInv

LEMMA OriginInvStep ==
  ASSUME TypeInv, OriginInv, NEW r \in Requests, Step(r)
  PROVE  OriginInv'
<1>1. ASSUME NEW c \in Calls, Receive(r, c) PROVE OriginInv'
  <2>1. \A q \in Requests : pc'[q] = IF q = r THEN "begun" ELSE pc[q]
    BY <1>1, ContinueParts DEF Receive
  <2>2. \A q \in Requests : call'[q] = IF q = r THEN c ELSE call[q]
    BY <1>1 DEF TypeInv, TypeOK, Receive
  <2>3. pc[r] = "idle" /\ docs' = docs /\ read' = read BY <1>1 DEF Receive
  <2>4. QED BY <2>1, <2>2, <2>3, OriginInvMove
<1>2. CASE Fail(r) \/ Get(r) \/ Delete(r)
  <2>1. \A q \in Requests : pc'[q] = IF q = r THEN "done" ELSE pc[q]
    BY <1>2, AnswerParts DEF Fail, Get, Delete, Acknowledge
  <2>2. pc[r] # "idle" /\ docs' \subseteq docs /\ UNCHANGED <<call, read>>
    BY <1>2 DEF Fail, Get, Delete, Begun, InFlight
  <2>3. QED BY <2>1, <2>2, OriginInvMove
<1>3. CASE CreateChecks(r)
  <2>1. \A q \in Requests : pc'[q] = IF q = r THEN "insert" ELSE pc[q]
    BY <1>3, ContinueParts DEF CreateChecks
  <2>2. pc[r] = "begun" /\ UNCHANGED <<docs, call, read>> BY <1>3 DEF CreateChecks, Begun
  <2>3. QED BY <2>1, <2>2, OriginInvMove
<1>4. CASE UpdateReads(r)
  <2>1. \A q \in Requests : pc'[q] = IF q = r THEN "replace" ELSE pc[q]
    BY <1>4, ContinueParts DEF UpdateReads
  <2>2. pc[r] = "begun" /\ UNCHANGED <<docs, call>> BY <1>4 DEF UpdateReads, Begun
  <2>3. PICK d \in Matching(r) : \A q \in Requests :
          read'[q] = IF q = r THEN d.config ELSE read[q]
    BY <1>4 DEF UpdateReads, TypeInv, TypeOK
  <2>4. QED BY <2>1, <2>2, <2>3, OriginInvMove
<1>5. QED
  BY <1>1, <1>2, <1>3, <1>4, OriginInvCreateInserts, OriginInvUpdateReplaces DEF Step

LEMMA OriginInvInductive == TypeInv /\ OriginInv /\ [Next]_vars => OriginInv'
<1> SUFFICES ASSUME TypeInv, OriginInv, [Next]_vars PROVE OriginInv'
  OBVIOUS
<1>1. CASE Restart
  <2>1. \A q \in Requests : pc'[q] = IF pc[q] \in InFlight THEN "done" ELSE pc[q]
    BY <1>1 DEF Restart
  <2>2. UNCHANGED <<docs, call, read>> BY <1>1 DEF Restart
  <2>3. QED BY <2>1, <2>2, OriginInvMove DEF InFlight
<1>2. CASE UNCHANGED vars
  BY <1>2, OriginInvMove DEF vars
<1>3. QED BY <1>1, <1>2, OriginInvStep DEF Next

LEMMA OriginInvAlways == Spec => []OriginInv
  BY OriginInvInit, OriginInvInductive, TypeInvAlways, PTL DEF Spec

(* Updates, deletions and restarts in any interleaving bring back no       *)
(* document that was deleted: each was inserted by a create.               *)
THEOREM UpdateNeverCreates == Spec => []UpdateCreatesNothing
<1>1. OriginInv => UpdateCreatesNothing BY DEF OriginInv, Inserted, UpdateCreatesNothing
<1>2. QED BY <1>1, OriginInvAlways, PTL

(* Every value of a configuration was given for that field by a request of *)
(* the configuration's own user, also where updates overlap.               *)
THEOREM NoForeignValueAlways == Spec => []NoForeignValue
<1>1. OriginInv => NoForeignValue
  BY DEF OriginInv, OwnDocs, OwnValues, Gave, NoForeignValue
<1>2. QED BY <1>1, OriginInvAlways, PTL

-----------------------------------------------------------------------------
(* Updates that succeed *)

(* An update that reports success has stored all it was given, in a        *)
(* configuration of its user, however requests overlap and whatever        *)
(* restarts happen.                                                        *)
THEOREM SuccessMeansStoredAlways == Spec => SuccessMeansStored
<1> DEFINE Stored(r) == \E d \in docs' : /\ d.user = call[r].user
                                         /\ \A f \in call[r].sets :
                                              d.config[f] # Unset /\ d.config[f].by = r
           Stores == \A r \in Requests :
                       pc[r] = "replace" /\ reply'[r].status = "ok" => Stored(r)
<1>1. ASSUME TypeInv, NEW r \in Requests, pc[r] = "replace", reply'[r].status = "ok",
             NEW q \in Requests, Step(q)
      PROVE  Stored(r)
  <2>1. reply[r].status # "ok" BY <1>1 DEF TypeInv, Replied
  <2>2. q = r
    <3>1. ASSUME NEW status, NEW config, Answer(q, status, config), q # r PROVE FALSE
      <4>1. reply'[r] = reply[r] BY <1>1, <3>1, AnswerParts
      <4>2. QED BY <1>1, <2>1, <4>1
    <3>2. reply' # reply BY <1>1, <2>1
    <3>3. QED
      BY <1>1, <3>1, <3>2
      DEF Step, Receive, CreateChecks, UpdateReads, Continue, Fail, CreateInserts, Get,
          UpdateReplaces, Delete, Acknowledge
  <2>3. UpdateReplaces(r)
    <3>1. ~Fail(r)
      <4>1. ASSUME Answer(r, "error", Empty) PROVE FALSE
        <5>1. reply'[r] = [status |-> "error", config |-> Empty] BY <1>1, <4>1, AnswerParts
        <5>2. QED BY <1>1, <5>1
      <4>2. QED BY <4>1 DEF Fail
    <3>2. QED
      BY <1>1, <2>2, <3>1
      DEF Step, Receive, CreateChecks, UpdateReads, CreateInserts, Get, Delete, Begun
  <2>4. PICK d \in Matching(r) :
          docs' = (docs \ {d}) \cup {[d EXCEPT !.config = Merged(r)]}
    BY <2>3 DEF UpdateReplaces
  <2>5. d \in Document /\ d.user = call[r].user
    BY <1>1 DEF Matching, TypeInv, TypeOK, Document
  <2>6. [id |-> d.id, user |-> d.user, config |-> Merged(r)] \in docs'
    BY <2>4, <2>5, Replaced
  <2>7. ASSUME NEW f \in call[r].sets
        PROVE  Merged(r)[f] # Unset /\ Merged(r)[f].by = r
    <3>1. f \in Fields BY <1>1, CallParts DEF TypeInv, Called
    <3>2. Merged(r)[f] = [by |-> r, key |-> key] BY <3>1 DEF Merged
    <3>3. Merged(r)[f] \in Value BY <1>1, <3>2 DEF TypeInv, TypeOK, Value
    <3>4. QED BY <3>2, <3>3, AbsenceAssumption
  <2>8. QED BY <2>5, <2>6, <2>7
<1>2. ASSUME TypeInv, Restart PROVE Stores
  <2>1. \A r \in Requests : pc[r] = "replace" => reply'[r].status = "error"
    BY <1>2 DEF Restart, InFlight
  <2>2. QED BY <2>1
<1>3. ASSUME TypeInv, UNCHANGED vars PROVE Stores
  BY <1>3 DEF vars, TypeInv, Replied
<1>4. TypeInv /\ [Next]_vars => Stores BY <1>1, <1>2, <1>3 DEF Next
<1>5. QED BY <1>4, TypeInvAlways, PTL DEF Spec, SuccessMeansStored

-----------------------------------------------------------------------------
(* Writes of one user that do not overlap *)

LEMMA OverlapInvInit == Init => OverlapInv
  BY DEF Init, OverlapInv, Overlap, OneDocumentPerUser, Absent, Current, Writes, InFlight

LEMMA OverlapInvReceive ==
  ASSUME TypeInv, OverlapInv, NEW r \in Requests, NEW c \in Calls, Receive(r, c)
  PROVE  OverlapInv'
<1>1. \A q \in Requests : pc'[q] = IF q = r THEN "begun" ELSE pc[q]
  BY ContinueParts DEF Receive
<1>2. \A q \in Requests : call'[q] = IF q = r THEN c ELSE call[q]
  BY DEF TypeInv, TypeOK, Receive
<1>3. docs' = docs /\ read' = read /\ overlapped \subseteq overlapped' BY DEF Receive
<1>4. Overlap'
  <2>1. ASSUME NEW q \in Requests, q # r, Writes(q)', c.kind # "get", call[q].user = c.user
        PROVE  {r, q} \subseteq overlapped'
    <3>1. q \in Rivals(c) BY <1>1, <1>2, <2>1 DEF Writes, Rivals
    <3>2. QED BY <3>1 DEF Receive
  <2>2. ASSUME NEW p \in Requests, NEW q \in Requests, Writes(p)', Writes(q)',
               call'[p].user = call'[q].user, p # q, p # r, q # r
        PROVE  {p, q} \subseteq overlapped'
    <3>1. Writes(p) /\ Writes(q) /\ call[p].user = call[q].user
      BY <1>1, <1>2, <2>2 DEF Writes
    <3>2. QED BY <1>3, <2>2, <3>1 DEF OverlapInv, Overlap
  <2>3. Writes(r)' => c.kind # "get" BY <1>2 DEF Writes
  <2>4. ASSUME NEW p \in Requests, NEW q \in Requests, Writes(p)', Writes(q)',
               call'[p].user = call'[q].user, p # q
        PROVE  {p, q} \subseteq overlapped'
    <3>1. CASE p = r BY <1>2, <2>1, <2>3, <2>4, <3>1
    <3>2. CASE q = r
      <4>1. p # r /\ call[p].user = c.user /\ c.kind # "get" BY <1>2, <2>3, <2>4, <3>2
      <4>2. QED BY <2>1, <2>4, <3>2, <4>1
    <3>3. QED BY <2>2, <2>4, <3>1, <3>2
  <2>5. QED BY <2>4 DEF Overlap
<1>5. OneDocumentPerUser' BY <1>3 DEF OverlapInv, OneDocumentPerUser
<1>6. \A q \in Requests : pc'[q] \in {"insert", "replace"} =>
        pc[q] = pc'[q] /\ Matching(q)' = Matching(q)
  BY <1>1, <1>2, <1>3 DEF Matching
<1>7. Absent' BY <1>3, <1>6 DEF OverlapInv, Absent
<1>8. Current' BY <1>3, <1>6 DEF OverlapInv, Current
<1>9. QED BY <1>4, <1>5, <1>7, <1>8 DEF OverlapInv

(* A request ends.  If it has written, it has changed only documents of    *)
(* its user, or inserted its own.                                          *)
LEMMA OverlapInvEnds ==
  ASSUME TypeInv, OverlapInv, NEW r \in Requests, pc[r] \in InFlight,
         NEW status, NEW config, Answer(r, status, config), UNCHANGED <<call, read, overlapped>>,
         docs' = docs \/ call[r].kind # "get",
         \A d \in docs \cup docs' : d.user # call[r].user => (d \in docs <=> d \in docs'),
         \A d \in docs' : d.id = r \/ \E e \in docs : e.id = d.id /\ e.user = d.user,
         OneDocumentPerUser'
  PROVE  OverlapInv'
<1>1. \A q \in Requests : pc'[q] = IF q = r THEN "done" ELSE pc[q] BY AnswerParts
<1>2. Overlap' BY <1>1 DEF OverlapInv, Overlap, Writes, InFlight
<1>3. ASSUME NEW q \in Requests, pc'[q] \in {"insert", "replace"}
      PROVE  /\ pc[q] = pc'[q]
             /\ Matching(q)' = Matching(q) \/ {q, r} \subseteq overlapped
  <2>1. q # r /\ pc[q] = pc'[q] BY <1>1, <1>3
  <2>2. Writes(q) BY <1>3, <2>1 DEF Writes, InFlight, TypeInv, WithUser
  <2>3. CASE call[q].user # call[r].user BY <2>1, <2>3 DEF Matching
  <2>4. CASE docs' = docs BY <2>1, <2>4 DEF Matching
  <2>5. CASE call[q].user = call[r].user /\ call[r].kind # "get"
    BY <2>1, <2>2, <2>5 DEF OverlapInv, Overlap, Writes
  <2>6. QED BY <2>1, <2>3, <2>4, <2>5
<1>4. Absent'
  <2>1. ASSUME NEW q \in Requests, pc'[q] = "insert", NEW d \in Matching(q)'
        PROVE  {q, d.id} \subseteq overlapped
    <3>1. pc[q] = "insert" BY <1>3, <2>1
    <3>2. CASE Matching(q)' = Matching(q) BY <2>1, <3>1, <3>2 DEF OverlapInv, Absent
    <3>3. CASE {q, r} \subseteq overlapped
      <4>1. d \in docs' /\ d.user = call[q].user BY <2>1 DEF Matching
      <4>2. CASE d.id = r BY <3>3, <4>2
      <4>3. CASE d.id # r
        <5>1. PICK e \in docs : e.id = d.id /\ e.user = d.user BY <4>1, <4>3
        <5>2. e \in Matching(q) BY <4>1, <5>1 DEF Matching
        <5>3. QED BY <3>1, <5>1, <5>2 DEF OverlapInv, Absent
      <4>4. QED BY <4>2, <4>3
    <3>4. QED BY <1>3, <2>1, <3>2, <3>3
  <2>2. QED BY <2>1 DEF Absent
<1>5. Current' BY <1>3 DEF OverlapInv, Current
<1>6. QED BY <1>2, <1>4, <1>5 DEF OverlapInv

(* A request goes on to its write, with what it has just seen. *)
LEMMA OverlapInvContinues ==
  ASSUME TypeInv, OverlapInv, NEW r \in Requests, CreateChecks(r) \/ UpdateReads(r)
  PROVE  OverlapInv'
<1>1. pc[r] = "begun" /\ UNCHANGED <<docs, call, overlapped>>
  BY DEF CreateChecks, UpdateReads, Begun
<1>2. PICK next \in {"insert", "replace"} : Continue(r, next)
                                            /\ (next = "insert" => CreateChecks(r))
                                            /\ (next = "replace" => UpdateReads(r))
  BY DEF CreateChecks, UpdateReads
<1>3. \A q \in Requests : pc'[q] = IF q = r THEN next ELSE pc[q]
  BY <1>2, ContinueParts
<1>4. Overlap'
  <2>1. \A q \in Requests : Writes(q)' => Writes(q) BY <1>1, <1>3 DEF Writes, InFlight
  <2>2. QED BY <1>1, <2>1 DEF OverlapInv, Overlap
<1>5. OneDocumentPerUser' BY <1>1 DEF OverlapInv, OneDocumentPerUser
<1>6. \A q \in Requests : Matching(q)' = Matching(q) BY <1>1 DEF Matching
<1>7. Absent' BY <1>1, <1>2, <1>3, <1>6 DEF OverlapInv, Absent, CreateChecks
<1>8. Current'
  <2>1. CASE next = "insert"
    BY <1>1, <1>2, <1>3, <1>6, <2>1 DEF OverlapInv, Current, CreateChecks
  <2>2. CASE next = "replace"
    <3>1. PICK d \in Matching(r) : read' = [read EXCEPT ![r] = d.config]
      BY <1>2, <2>2 DEF UpdateReads
    <3>2. \A q \in Requests : read'[q] = IF q = r THEN d.config ELSE read[q]
      BY <3>1 DEF TypeInv, TypeOK
    <3>3. QED BY <1>1, <1>3, <1>6, <3>2 DEF OverlapInv, Current
  <2>3. QED BY <2>1, <2>2
<1>9. QED BY <1>4, <1>5, <1>7, <1>8 DEF OverlapInv

LEMMA OverlapInvStep ==
  ASSUME TypeInv, OverlapInv, NEW r \in Requests, Step(r)
  PROVE  OverlapInv'
<1>1. CASE Fail(r) \/ Get(r) \/ Delete(r)
  <2>1. docs' = docs \/ (call[r].kind # "get" /\ \E d \in Matching(r) : docs' = docs \ {d})
    BY <1>1 DEF Fail, Get, Delete, Begun
  <2>2. \A d \in docs \cup docs' : d.user # call[r].user => (d \in docs <=> d \in docs')
    BY <2>1 DEF Matching
  <2>3. OneDocumentPerUser'
    BY <1>1, <2>1 DEF OverlapInv, OneDocumentPerUser, Fail, Get, Delete
  <2>4. PICK status, config : Answer(r, status, config)
    BY <1>1 DEF Fail, Get, Delete, Acknowledge
  <2>5. pc[r] \in InFlight /\ UNCHANGED <<call, read, overlapped>>
    BY <1>1 DEF Fail, Get, Delete, Begun, InFlight
  <2>6. \A d \in docs' : \E e \in docs : e.id = d.id /\ e.user = d.user BY <2>1
  <2>7. QED BY <2>1, <2>2, <2>3, <2>4, <2>5, <2>6, OverlapInvEnds
<1>2. CASE CreateInserts(r)
  <2> DEFINE new == [id |-> r, user |-> call[r].user, config |-> Empty]
  <2>1. pc[r] = "insert" /\ docs' = docs \cup {new} /\ UNCHANGED <<call, read, overlapped>>
    BY <1>2 DEF CreateInserts
  <2>2. \A d \in docs : d.user = call[r].user => {r, d.id} \subseteq overlapped
    BY <2>1 DEF OverlapInv, Absent, Matching
  <2>3. new.user = call[r].user /\ new.id = r OBVIOUS
  <2> HIDE DEF new
  <2>4. OneDocumentPerUser' BY <2>1, <2>2, <2>3 DEF OverlapInv, OneDocumentPerUser
  <2>5. \A d \in docs \cup docs' : d.user # call[r].user => (d \in docs <=> d \in docs')
    BY <2>1, <2>3
  <2>6. \A d \in docs' : d.id = r \/ \E e \in docs : e.id = d.id /\ e.user = d.user
    BY <2>1, <2>3
  <2>7. PICK status \in {"ok", "error"} : Answer(r, status, Empty)
    BY <1>2 DEF CreateInserts, Acknowledge
  <2>8. call[r].kind # "get" /\ pc[r] \in InFlight
    BY <2>1 DEF TypeInv, WithUser, InFlight
  <2>9. QED BY <2>1, <2>4, <2>5, <2>6, <2>7, <2>8, OverlapInvEnds
<1>3. CASE UpdateReplaces(r)
  <2>1. PICK d \in Matching(r) :
          docs' = (docs \ {d}) \cup {[d EXCEPT !.config = Merged(r)]}
    BY <1>3 DEF UpdateReplaces
  <2> DEFINE new == [d EXCEPT !.config = Merged(r)]
  <2>2. d \in docs /\ d \in Document /\ d.user = call[r].user
    BY DEF Matching, TypeInv, TypeOK, Document
  <2>3. new.id = d.id /\ new.user = d.user BY <2>2, Replaced
  <2>4. docs' = (docs \ {d}) \cup {new} BY <2>1
  <2> HIDE DEF new
  <2>5. UNCHANGED <<call, read, overlapped>> /\ pc[r] = "replace" BY <1>3 DEF UpdateReplaces
  <2>6. OneDocumentPerUser'
    BY <2>2, <2>3, <2>4, <2>5 DEF OverlapInv, OneDocumentPerUser
  <2>7. \A e \in docs \cup docs' : e.user # call[r].user => (e \in docs <=> e \in docs')
    BY <2>2, <2>3, <2>4
  <2>8. \A x \in docs' : \E e \in docs : e.id = x.id /\ e.user = x.user
    BY <2>2, <2>3, <2>4
  <2>9. PICK status \in {"ok", "error"} : Answer(r, status, Empty)
    BY <1>3 DEF UpdateReplaces, Acknowledge
  <2>10. call[r].kind # "get" /\ pc[r] \in InFlight
    BY <2>5 DEF TypeInv, WithUser, InFlight
  <2>11. QED BY <2>5, <2>6, <2>7, <2>8, <2>9, <2>10, OverlapInvEnds
<1>4. QED BY <1>1, <1>2, <1>3, OverlapInvReceive, OverlapInvContinues DEF Step

LEMMA OverlapInvRestart ==
  ASSUME OverlapInv, Restart
  PROVE  OverlapInv'
<1>1. \A q \in Requests : pc'[q] \notin InFlight BY DEF Restart, InFlight
<1>2. OneDocumentPerUser' BY DEF OverlapInv, OneDocumentPerUser, Restart
<1>3. Overlap' /\ Absent' /\ Current'
  BY <1>1 DEF Overlap, Absent, Current, Writes, InFlight
<1>4. QED BY <1>2, <1>3 DEF OverlapInv

LEMMA OverlapInvInductive == TypeInv /\ OverlapInv /\ [Next]_vars => OverlapInv'
<1>1. OverlapInv /\ UNCHANGED vars => OverlapInv'
  BY DEF vars, OverlapInv, Overlap, OneDocumentPerUser, Absent, Current, Writes, Matching
<1>2. QED BY <1>1, OverlapInvStep, OverlapInvRestart DEF Next

LEMMA OverlapInvAlways == Spec => []OverlapInv
  BY OverlapInvInit, OverlapInvInductive, TypeInvAlways, PTL DEF Spec

(* Two configurations of one user are the work of creates that overlapped  *)
(* with writes of that user: no failure, restart or retry brings them      *)
(* about, though nothing but the look-up before the insertion prevents it. *)
THEOREM OneDocumentPerUserAlways == Spec => []OneDocumentPerUser
<1>1. OverlapInv => OneDocumentPerUser BY DEF OverlapInv
<1>2. QED BY <1>1, OverlapInvAlways, PTL

(* A stored field of a user's only configuration changes by an update that *)
(* gives it, or by one that another write of the user overlaps: what any   *)
(* other update carries over is what is stored.                            *)
THEOREM OnlyGivenFieldsChangeAlways == Spec => OnlyGivenFieldsChange
<1> DEFINE GivenBy(f) == \E r \in Requests : /\ pc[r] = "replace" /\ pc'[r] = "done"
                                             /\ f \in call[r].sets \/ r \in overlapped
           Only(d) == \A o \in docs : o.user = d.user => o = d
           Kept == \A d \in docs, e \in docs' : d.id = e.id /\ Only(d) =>
                     \A f \in Fields : d.config[f] # e.config[f] => GivenBy(f)
<1>1. ASSUME OwnId, docs' \subseteq docs PROVE Kept
  BY <1>1 DEF OwnId
<1>2. ASSUME TypeInv, OriginInv, OverlapInv, NEW r \in Requests, UpdateReplaces(r)
      PROVE  Kept
  <2>1. PICK x \in Matching(r) :
          docs' = (docs \ {x}) \cup {[x EXCEPT !.config = Merged(r)]}
    BY <1>2 DEF UpdateReplaces
  <2>2. x \in docs /\ x \in Document BY <1>2 DEF Matching, TypeInv, TypeOK, Document
  <2> DEFINE new == [x EXCEPT !.config = Merged(r)]
  <2>3. new.id = x.id /\ new.config = Merged(r) BY <2>2, Replaced
  <2>4. \A e \in docs' : e = new \/ e \in docs BY <2>1
  <2> HIDE DEF new
  <2>5. pc[r] = "replace" /\ pc'[r] = "done"
    BY <1>2, AnswerParts DEF UpdateReplaces, Acknowledge
  <2>6. ASSUME Only(x), r \notin overlapped PROVE x.config = read[r]
    <3>1. PICK d \in Matching(r) : d.config = read[r]
      BY <1>2, <2>5, <2>6 DEF OverlapInv, Current
    <3>2. d = x BY <2>1, <2>6, <3>1 DEF Matching
    <3>3. QED BY <3>1, <3>2
  <2>7. ASSUME Only(x), NEW f \in Fields, x.config[f] # new.config[f] PROVE GivenBy(f)
    <3>1. f \in call[r].sets \/ r \in overlapped BY <2>3, <2>6, <2>7 DEF Merged
    <3>2. QED BY <2>5, <3>1
  <2>8. ASSUME NEW d \in docs, NEW e \in docs', d.id = e.id, Only(d), NEW f \in Fields,
               d.config[f] # e.config[f]
        PROVE  GivenBy(f)
    <3>1. e = new BY <1>2, <2>4, <2>8 DEF OriginInv, OwnId
    <3>2. d = x BY <1>2, <2>2, <2>3, <2>8, <3>1 DEF OriginInv, OwnId
    <3>3. QED BY <2>7, <2>8, <3>1, <3>2
  <2>9. QED BY <2>8
<1>3. ASSUME OriginInv, NEW r \in Requests, CreateInserts(r) PROVE Kept
  <2> DEFINE new == [id |-> r, user |-> call[r].user, config |-> Empty]
  <2>1. docs' = docs \cup {new} /\ pc[r] = "insert" BY <1>3 DEF CreateInserts
  <2>2. \A d \in docs : d.id # new.id BY <1>3, <2>1 DEF OriginInv, Inserted
  <2> HIDE DEF new
  <2>3. QED BY <1>3, <2>1, <2>2 DEF OriginInv, OwnId
<1>4. ASSUME TypeInv, OriginInv, OverlapInv, [Next]_vars PROVE Kept
  <2>1. docs' \subseteq docs \/ \E r \in Requests : CreateInserts(r) \/ UpdateReplaces(r)
    BY <1>4
    DEF Next, vars, Step, Receive, Fail, CreateChecks, Get, UpdateReads, Delete, Restart
  <2>2. OwnId BY <1>4 DEF OriginInv
  <2> HIDE DEF Kept
  <2>3. QED BY <1>1, <1>2, <1>3, <1>4, <2>1, <2>2
<1>5. TypeInv /\ OriginInv /\ OverlapInv /\ [Next]_vars => Kept BY <1>4
<1>6. QED
  BY <1>5, TypeInvAlways, OriginInvAlways, OverlapInvAlways, PTL
  DEF Spec, OnlyGivenFieldsChange

-----------------------------------------------------------------------------
(* The service implements the register *)

(* The users of D outside F have one document each. *)
Sole(D, F) == \A d, e \in D : d.user = e.user /\ d.user \notin F => d = e

(* A user of the mapping has the configuration of its document. *)
LEMMA ViewAt ==
  ASSUME NEW D, NEW F, Sole(D, F), NEW d \in D, d.user \notin F
  PROVE  d.user \in DOMAIN View(D, F) /\ View(D, F)[d.user] = d.config
<1>1. (CHOOSE e \in D : e.user = d.user) = d BY DEF Sole
<1>2. QED BY <1>1 DEF View

(* Documents of the users in F do not count. *)
LEMMA ViewSame ==
  ASSUME NEW D, NEW E, NEW F, Sole(D, F), Sole(E, F),
         \A d \in D \cup E : d.user \notin F => (d \in D <=> d \in E)
  PROVE  View(E, F) = View(D, F)
<1>1. DOMAIN View(E, F) = DOMAIN View(D, F)
  <2>1. DOMAIN View(E, F) = {d.user : d \in E} \ F /\ DOMAIN View(D, F) = {d.user : d \in D} \ F
    BY DEF View
  <2>2. QED BY <2>1
<1>2. ASSUME NEW v \in DOMAIN View(E, F) PROVE View(E, F)[v] = View(D, F)[v]
  <2>1. PICK e \in E : e.user = v /\ v \notin F BY <1>2 DEF View
  <2>2. e \in D BY <2>1
  <2>3. QED BY <2>1, <2>2, ViewAt
<1>3. View(E, F) = [v \in DOMAIN View(E, F) |-> View(E, F)[v]]
      /\ View(D, F) = [v \in DOMAIN View(D, F) |-> View(D, F)[v]]
  BY DEF View
<1>4. QED BY <1>1, <1>2, <1>3

Put(configs, u, config) ==
  [v \in DOMAIN configs \cup {u} |-> IF v = u THEN config ELSE configs[v]]

(* A document is inserted, or replaced by one of the same user. *)
LEMMA ViewPut ==
  ASSUME NEW D, NEW E, NEW F, Sole(D, F), Sole(E, F), NEW new \in E, new.user \notin F,
         \A d \in D \cup E : d.user # new.user => (d \in D <=> d \in E)
  PROVE  View(E, F) = Put(View(D, F), new.user, new.config)
<1>1. DOMAIN View(E, F) = DOMAIN View(D, F) \cup {new.user}
  <2>1. DOMAIN View(E, F) = {d.user : d \in E} \ F /\ DOMAIN View(D, F) = {d.user : d \in D} \ F
    BY DEF View
  <2>2. QED BY <2>1
<1>2. ASSUME NEW v \in DOMAIN View(E, F)
      PROVE  View(E, F)[v] = IF v = new.user THEN new.config ELSE View(D, F)[v]
  <2>1. PICK e \in E : e.user = v /\ v \notin F BY <1>2 DEF View
  <2>2. View(E, F)[v] = e.config BY <2>1, ViewAt
  <2>3. CASE v = new.user BY <2>1, <2>3, ViewAt
  <2>4. CASE v # new.user
    <3>1. e \in D BY <2>1, <2>4
    <3>2. View(D, F)[v] = e.config BY <2>1, <3>1, ViewAt
    <3>3. QED BY <2>2, <2>4, <3>2
  <2>5. QED BY <2>3, <2>4
<1>3. View(E, F) = [v \in DOMAIN View(E, F) |-> View(E, F)[v]] BY DEF View
<1>4. QED BY <1>1, <1>2, <1>3 DEF Put

(* A document is deleted. *)
LEMMA ViewDelete ==
  ASSUME NEW D, NEW F, Sole(D, F), NEW d \in D, d.user \notin F
  PROVE  View(D \ {d}, F) = [v \in DOMAIN View(D, F) \ {d.user} |-> View(D, F)[v]]
<1> DEFINE E == D \ {d}
<1>1. Sole(E, F) /\ E \subseteq D /\ \A e \in E : e.user # d.user \/ e.user \in F BY DEF Sole
<1>2. \A e \in D : e.user # d.user => e \in E OBVIOUS
<1> HIDE DEF E
<1>3. DOMAIN View(E, F) = DOMAIN View(D, F) \ {d.user}
  <2>1. DOMAIN View(E, F) = {e.user : e \in E} \ F /\ DOMAIN View(D, F) = {e.user : e \in D} \ F
    BY DEF View
  <2>2. QED BY <1>1, <1>2, <2>1
<1>4. ASSUME NEW v \in DOMAIN View(E, F) PROVE View(E, F)[v] = View(D, F)[v]
  <2>1. PICK e \in E : e.user = v /\ v \notin F BY <1>4 DEF View
  <2>2. View(E, F)[v] = e.config /\ View(D, F)[v] = e.config BY <1>1, <2>1, ViewAt
  <2>3. QED BY <2>2
<1>5. View(E, F) = [v \in DOMAIN View(E, F) |-> View(E, F)[v]] BY DEF View
<1>6. View(E, F) = [v \in DOMAIN View(D, F) \ {d.user} |-> View(D, F)[v]] BY <1>3, <1>4, <1>5
<1>7. QED BY <1>6 DEF E

Without(configs, users) == [u \in DOMAIN configs \ users |-> configs[u]]

(* Users are taken out of the mapping. *)
LEMMA ViewFewer ==
  ASSUME NEW D, NEW F, NEW G, F \subseteq G
  PROVE  View(D, G) = Without(View(D, F), G)
<1>1. DOMAIN View(D, F) \ G = {d.user : d \in D} \ G BY DEF View
<1>2. \A u \in {d.user : d \in D} \ G :
        View(D, F)[u] = (CHOOSE d \in D : d.user = u).config
  BY DEF View
<1>3. QED BY <1>1, <1>2 DEF View, Without

(* A request in flight is one that is pending in the register. *)
LEMMA PendingInFlight ==
  ASSUME TypeInv, NEW r \in Requests
  PROVE  Register!Pending(r) <=> pc[r] \in InFlight
<1>1. pc[r] \in {"idle", "done"} \cup InFlight BY DEF TypeInv, TypeOK
<1>2. CASE pc[r] = "idle" BY <1>2 DEF Register!Pending, TypeInv, Called, InFlight
<1>3. CASE pc[r] = "done" BY <1>3 DEF Register!Pending, TypeInv, Replied, InFlight
<1>4. CASE pc[r] \in InFlight
  BY <1>4, AbsenceAssumption DEF Register!Pending, TypeInv, Called, Replied, InFlight
<1>5. QED BY <1>1, <1>2, <1>3, <1>4

(* What the refinement is proved from, before and after a step. *)
Seen == TypeInv /\ OriginInv /\ OverlapInv /\ Sole(docs, Free)

LEMMA SoleDocuments == TypeInv /\ OriginInv /\ OverlapInv => Sole(docs, Free)
<1> SUFFICES ASSUME TypeInv, OriginInv, OverlapInv, NEW d \in docs, NEW e \in docs,
                    d.user = e.user, d # e
             PROVE  d.user \in Free
  BY DEF Sole
<1>1. d.id \in overlapped BY DEF OverlapInv, OneDocumentPerUser
<1>2. call[d.id].user = d.user BY DEF OriginInv, Inserted
<1>3. QED BY <1>1, <1>2 DEF Free

LEMMA SeenAlways == Spec => []Seen
<1>1. TypeInv /\ OriginInv /\ OverlapInv => Seen BY SoleDocuments DEF Seen
<1>2. QED BY <1>1, TypeInvAlways, OriginInvAlways, OverlapInvAlways, PTL

(* The register's own definitions are the service's. *)
LEMMA SameShown ==
  ASSUME NEW config
  PROVE  Register!Shown(config) = Decrypted(config)
  BY DEF Register!Shown, Register!Readable, Decrypted, Decrypts

(* A request begins. *)
LEMMA ReceiveImplements ==
  ASSUME Seen, NEW r \in Requests, NEW c \in Calls, Receive(r, c)
  PROVE  Register!Invoke(r)
<1>1. call[r] = NoCall BY DEF Receive, Seen, TypeInv, Called
<1>2. \A q \in Requests : call'[q] = IF q = r THEN c ELSE call[q]
  BY DEF Seen, TypeInv, TypeOK, Receive
<1>3. Register!Overlaps(c) <=> Rivals(c) # {}
  BY PendingInFlight DEF Register!Overlaps, Rivals, Seen
<1>4. \A q \in overlapped \cup Rivals(c) : q \in Requests /\ q # r
  BY DEF Seen, TypeInv, TypeOK, Received, Receive, Rivals, InFlight
<1>5. \A q \in Rivals(c) : call[q].user = c.user BY DEF Rivals
<1>6. Free' = Free \cup {u \in {c.user} : Register!Overlaps(c)}
  <2>1. overlapped' = overlapped \cup Rivals(c) \cup {q \in {r} : Rivals(c) # {}}
    BY DEF Receive
  <2>2. \A u : u \in Free' <=> \E q \in overlapped' : call'[q].user = u BY DEF Free
  <2>3. \A u : u \in Free <=> \E q \in overlapped : call[q].user = u BY DEF Free
  <2>4. CASE Rivals(c) = {} BY <1>2, <1>3, <1>4, <2>1, <2>2, <2>3, <2>4
  <2>5. CASE Rivals(c) # {} BY <1>2, <1>3, <1>4, <1>5, <2>1, <2>2, <2>3, <2>5
  <2>6. QED BY <2>4, <2>5
<1>7. Configs' = View(docs, Free') BY DEF Configs, Receive
<1>8. Configs' = [u \in DOMAIN Configs \ Free' |-> Configs[u]]
  <2>1. Free \subseteq Free' BY <1>6
  <2>2. View(docs, Free') = Without(View(docs, Free), Free') BY <2>1, ViewFewer
  <2>3. Configs = View(docs, Free) BY DEF Configs
  <2>4. QED BY <1>7, <2>2, <2>3 DEF Without
<1>9. UNCHANGED <<key, reply>> /\ call' = [call EXCEPT ![r] = c] BY DEF Receive, Continue
<1>10. QED BY <1>1, <1>6, <1>8, <1>9 DEF Register!Invoke, Register!Keep

(* The writes of a user to whom nothing is promised any more. *)
LEMMA FreeImplements ==
  ASSUME Seen, Seen', NEW r \in Requests, pc[r] \in InFlight, call[r].user \in Free,
         \A d \in docs \cup docs' : d.user # call[r].user => (d \in docs <=> d \in docs'),
         Acknowledge(r), UNCHANGED <<key, call, overlapped>>
  PROVE  Register!Change(r)
<1>1. Free' = Free BY DEF Free
<1>2. \A d \in docs \cup docs' : d.user \notin Free => (d \in docs <=> d \in docs') OBVIOUS
<1>3. Sole(docs, Free) /\ Sole(docs', Free) BY <1>1 DEF Seen
<1>4. Configs' = Configs BY <1>1, <1>2, <1>3, ViewSame DEF Configs
<1>5. Register!Pending(r) BY PendingInFlight DEF Seen
<1>6. \E status \in {"ok", "error"} : Register!Answer(r, status, Register!Empty)
  BY DEF Acknowledge, Answer, Register!Answer, Register!Empty, Empty
<1>7. QED BY <1>1, <1>4, <1>5, <1>6 DEF Register!Change

(* The writes of the other users. *)
LEMMA CreateImplements ==
  ASSUME Seen, Seen', NEW r \in Requests, CreateInserts(r)
  PROVE  Register!Change(r)
<1> DEFINE new == [id |-> r, user |-> call[r].user, config |-> Empty]
<1>1. pc[r] = "insert" /\ docs' = docs \cup {new} /\ UNCHANGED <<key, call, overlapped>>
  BY DEF CreateInserts
<1>2. new.user = call[r].user /\ new.config = Empty OBVIOUS
<1> HIDE DEF new
<1>3. \A d \in docs \cup docs' : d.user # call[r].user => (d \in docs <=> d \in docs')
  BY <1>1, <1>2
<1>4. CASE call[r].user \in Free
  BY <1>1, <1>3, <1>4, FreeImplements DEF CreateInserts, InFlight
<1>5. CASE call[r].user \notin Free
  <2>1. r \notin overlapped BY <1>5 DEF Free
  <2>2. \A d \in docs : d.user # call[r].user
    BY <1>1, <2>1 DEF Seen, OverlapInv, Absent, Matching
  <2>3. Free' = Free BY <1>1 DEF Free
  <2>4. Sole(docs, Free) /\ Sole(docs', Free) BY <2>3 DEF Seen
  <2>5. View(docs', Free) = Put(View(docs, Free), new.user, new.config)
    <3>1. new \in docs' /\ new.user \notin Free BY <1>1, <1>2, <1>5
    <3>2. QED BY <1>2, <1>3, <2>4, <3>1, ViewPut
  <2>6. Register!Create(r)
    <3>1. call[r].kind = "create" BY <1>1 DEF Seen, TypeInv, WithUser
    <3>2. ~Register!Exists(call[r].user) BY <2>2 DEF Register!Exists, Configs, View
    <3>3. Register!Set(call[r].user, Register!Empty)
      BY <1>2, <2>3, <2>5 DEF Configs, Put, Register!Set, Register!Empty, Empty
    <3>4. QED BY <3>1, <3>2, <3>3 DEF Register!Create
  <2>7. Register!Pending(r) BY <1>1, PendingInFlight DEF Seen, InFlight
  <2>8. \E status \in {"ok", "error"} : Register!Answer(r, status, Register!Empty)
    BY DEF CreateInserts, Acknowledge, Answer, Register!Answer, Register!Empty, Empty
  <2>9. QED BY <1>1, <1>5, <2>3, <2>6, <2>7, <2>8 DEF Register!Change
<1>6. QED BY <1>4, <1>5

LEMMA UpdateImplements ==
  ASSUME Seen, Seen', NEW r \in Requests, UpdateReplaces(r)
  PROVE  Register!Change(r)
<1>1. pc[r] = "replace" /\ UNCHANGED <<key, call, overlapped>> BY DEF UpdateReplaces
<1>2. PICK d \in Matching(r) : docs' = (docs \ {d}) \cup {[d EXCEPT !.config = Merged(r)]}
  BY DEF UpdateReplaces
<1> DEFINE new == [d EXCEPT !.config = Merged(r)]
<1>3. d \in docs /\ d \in Document /\ d.user = call[r].user
  BY DEF Matching, Seen, TypeInv, TypeOK, Document
<1>4. new.user = call[r].user /\ new.config = Merged(r) BY <1>3, Replaced
<1>5. docs' = (docs \ {d}) \cup {new} BY <1>2
<1> HIDE DEF new
<1>6. \A e \in docs \cup docs' : e.user # call[r].user => (e \in docs <=> e \in docs')
  BY <1>3, <1>4, <1>5
<1>7. CASE call[r].user \in Free
  BY <1>1, <1>6, <1>7, FreeImplements DEF UpdateReplaces, InFlight
<1>8. CASE call[r].user \notin Free
  <2>1. r \notin overlapped BY <1>8 DEF Free
  <2>2. Free' = Free BY <1>1 DEF Free
  <2>3. Sole(docs, Free) /\ Sole(docs', Free) BY <2>2 DEF Seen
  <2>4. d.config = read[r]
    <3>1. PICK e \in Matching(r) : e.config = read[r]
      BY <1>1, <2>1 DEF Seen, OverlapInv, Current
    <3>2. e = d BY <1>3, <1>8, <2>3, <3>1 DEF Sole, Matching
    <3>3. QED BY <3>1, <3>2
  <2>5. View(docs', Free) = Put(View(docs, Free), new.user, new.config)
    <3>1. new \in docs' /\ new.user \notin Free BY <1>4, <1>5, <1>8
    <3>2. QED BY <1>4, <1>6, <2>3, <3>1, ViewPut
  <2>6. Register!Update(r)
    <3>1. call[r].kind = "update" BY <1>1 DEF Seen, TypeInv, WithUser
    <3>2. call[r].user \in DOMAIN Configs /\ Configs[call[r].user] = d.config
      BY <1>3, <1>8, <2>3, ViewAt DEF Configs
    <3>3. Merged(r) = [f \in Fields |-> IF f \in call[r].sets THEN [by |-> r, key |-> key]
                                        ELSE Configs[call[r].user][f]]
      BY <2>4, <3>2 DEF Merged
    <3>4. Register!Set(call[r].user, Merged(r))
      BY <1>4, <2>2, <2>5 DEF Configs, Put, Register!Set
    <3>5. QED BY <3>1, <3>2, <3>3, <3>4 DEF Register!Update, Register!Exists
  <2>7. Register!Pending(r) BY <1>1, PendingInFlight DEF Seen, InFlight
  <2>8. \E status \in {"ok", "error"} : Register!Answer(r, status, Register!Empty)
    BY DEF UpdateReplaces, Acknowledge, Answer, Register!Answer, Register!Empty, Empty
  <2>9. QED BY <1>1, <1>8, <2>2, <2>6, <2>7, <2>8 DEF Register!Change
<1>9. QED BY <1>7, <1>8

LEMMA DeleteImplements ==
  ASSUME Seen, Seen', NEW r \in Requests, Delete(r)
  PROVE  Register!Change(r)
<1>1. /\ pc[r] = "begun" /\ call[r].kind = "delete"
      /\ UNCHANGED <<key, call, overlapped>>
  BY DEF Delete, Begun
<1>2. PICK d \in Matching(r) : docs' = docs \ {d} BY DEF Delete
<1>3. d \in docs /\ d.user = call[r].user BY DEF Matching
<1>4. \A e \in docs \cup docs' : e.user # call[r].user => (e \in docs <=> e \in docs')
  BY <1>2, <1>3
<1>5. CASE call[r].user \in Free
  BY <1>1, <1>4, <1>5, FreeImplements DEF Delete, InFlight
<1>6. CASE call[r].user \notin Free
  <2>1. Free' = Free BY <1>1 DEF Free
  <2>2. Sole(docs, Free) BY DEF Seen
  <2>3. Register!Delete(r)
    <3>1. Register!Exists(call[r].user)
      BY <1>3, <1>6, <2>2, ViewAt DEF Register!Exists, Configs
    <3>2. View(docs', Free) =
            [v \in DOMAIN View(docs, Free) \ {call[r].user} |-> View(docs, Free)[v]]
      BY <1>2, <1>3, <1>6, <2>2, ViewDelete
    <3>3. QED BY <1>1, <2>1, <3>1, <3>2 DEF Register!Delete, Register!Keep, Configs
  <2>4. Register!Pending(r) BY <1>1, PendingInFlight DEF Seen, InFlight
  <2>5. \E status \in {"ok", "error"} : Register!Answer(r, status, Register!Empty)
    BY DEF Delete, Acknowledge, Answer, Register!Answer, Register!Empty, Empty
  <2>6. QED BY <1>1, <1>6, <2>1, <2>3, <2>4, <2>5 DEF Register!Change
<1>7. QED BY <1>5, <1>6

(* The step that reads. *)
LEMMA GetImplements ==
  ASSUME Seen, NEW r \in Requests, Get(r)
  PROVE  Register!Get(r)
<1>1. /\ pc[r] = "begun" /\ call[r].kind = "get"
      /\ UNCHANGED <<docs, key, call, read, overlapped>>
  BY DEF Get, Begun
<1>2. PICK d \in Matching(r) :
        /\ LET v == d.config["open_ai_key"] IN v = Unset \/ Decrypts("open_ai_key", v)
        /\ Answer(r, "ok", Decrypted(d.config))
  BY DEF Get
<1>3. d \in docs /\ d.user = call[r].user /\ d.config \in Config
  BY DEF Matching, Seen, TypeInv, TypeOK
<1>4. Register!Pending(r) BY <1>1, PendingInFlight DEF Seen, InFlight
<1>5. Free' = Free /\ UNCHANGED <<Configs, key, call>> BY <1>1 DEF Configs, Free
<1>6. CASE call[r].user \in Free
  <2>1. Decrypted(d.config) \in [Fields -> Requests \cup {Unset}]
    BY <1>3, DecryptedType DEF Reading
  <2>2. QED BY <1>1, <1>2, <1>4, <1>5, <1>6, <2>1 DEF Register!Get, Register!Answer, Answer
<1>7. CASE call[r].user \notin Free
  <2>1. call[r].user \in DOMAIN Configs /\ Configs[call[r].user] = d.config
    BY <1>3, <1>7, ViewAt DEF Configs, Seen
  <2>2. d.config["open_ai_key"] = Unset
        \/ Register!Readable("open_ai_key", d.config["open_ai_key"])
    BY <1>2 DEF Decrypts, Register!Readable
  <2>3. Register!Answer(r, "ok", Register!Shown(d.config))
    BY <1>2, SameShown DEF Register!Answer, Answer
  <2>4. QED BY <1>1, <1>4, <1>5, <1>7, <2>1, <2>2, <2>3 DEF Register!Get, Register!Exists
<1>8. QED BY <1>6, <1>7

LEMMA StepImplements ==
  ASSUME Seen, Seen', NEW r \in Requests, Step(r)
  PROVE  Register!Next \/ UNCHANGED Register!vars
<1>1. ASSUME UNCHANGED <<docs, key, call, overlapped>>
      PROVE  UNCHANGED <<Configs, key, call, Free>>
  BY <1>1 DEF Configs, Free
<1>2. ASSUME NEW c \in Calls, Receive(r, c) PROVE Register!Next
  BY <1>2, ReceiveImplements DEF Register!Next
<1>3. CASE Fail(r)
  <2>1. Register!Pending(r) BY <1>3, PendingInFlight DEF Fail, Seen
  <2>2. UNCHANGED <<Configs, key, call, Free>> BY <1>1, <1>3 DEF Fail
  <2>3. Register!Refuse(r)
    BY <1>3, <2>1, <2>2
    DEF Fail, Answer, Register!Refuse, Register!Answer, Register!Empty, Empty
  <2>4. QED BY <2>3 DEF Register!Next
<1>4. CASE CreateChecks(r) \/ UpdateReads(r)
  <2>1. UNCHANGED <<Configs, key, call, Free>> BY <1>1, <1>4 DEF CreateChecks, UpdateReads
  <2>2. QED BY <1>4, <2>1 DEF CreateChecks, UpdateReads, Continue, Register!vars
<1>5. CASE CreateInserts(r) BY <1>5, CreateImplements DEF Register!Next
<1>6. CASE Get(r) BY <1>6, GetImplements DEF Register!Next
<1>7. CASE UpdateReplaces(r) BY <1>7, UpdateImplements DEF Register!Next
<1>8. CASE Delete(r) BY <1>8, DeleteImplements DEF Register!Next
<1>9. QED BY <1>2, <1>3, <1>4, <1>5, <1>6, <1>7, <1>8 DEF Step

LEMMA RestartImplements ==
  ASSUME Seen, Restart
  PROVE  Register!Restart
<1>1. \A q \in Requests : pc[q] \in InFlight =>
        [reply[q] EXCEPT !.status = "error"] = [status |-> "error", config |-> Empty]
  BY DEF Seen, TypeInv, Replied, InFlight
<1>2. reply' = [q \in Requests |-> IF Register!Pending(q)
                                   THEN [reply[q] EXCEPT !.status = "error"] ELSE reply[q]]
  BY <1>1, PendingInFlight DEF Restart, Seen
<1>3. key' \in Keys /\ UNCHANGED <<Configs, call, Free>> BY DEF Restart, Configs, Free
<1>4. QED BY <1>2, <1>3 DEF Register!Restart

(* The service implements the register, in every interleaving of requests  *)
(* and restarts with any keys: until two writes of a user overlap, each of *)
(* the user's requests takes effect at once, at its last statement, and a  *)
(* get returns what the latest updates gave and the present key decrypts.  *)
THEOREM ImplementsRegister == Spec => IsRegister
<1>1. Init => Register!Init
  <2>1. ASSUME docs = {}, overlapped = {} PROVE Configs = [u \in {} |-> Empty] /\ Free = {}
    <3>1. {d.user : d \in docs} \ Free = {} /\ Free = {} BY <2>1 DEF Free
    <3>2. DOMAIN Configs = {} /\ Configs = [u \in DOMAIN Configs |-> Configs[u]]
      BY <3>1 DEF Configs, View
    <3>3. QED BY <3>1, <3>2
  <2>2. QED BY <2>1 DEF Init, Register!Init, Register!Empty, Empty
<1>2. Seen /\ Seen' /\ [Next]_vars => [Register!Next]_(Register!vars)
  <2>1. UNCHANGED vars => UNCHANGED Register!vars BY DEF vars, Register!vars, Configs, Free
  <2>2. Seen /\ Restart => Register!Next BY RestartImplements DEF Register!Next
  <2>3. QED BY <2>1, <2>2, StepImplements DEF Next
<1>3. QED BY <1>1, <1>2, SeenAlways, PTL DEF Spec, IsRegister, Register!Spec

=============================================================================
