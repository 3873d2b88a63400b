----------------------- MODULE ConfigurationService -------------------------
(***************************************************************************)
(* The configuration service: service.go over store.go, one goroutine per  *)
(* request.                                                                *)
(*                                                                         *)
(* The collection has no index but the one on _id, so it is a set of       *)
(* documents of which several may carry the same user_id; FindOne,         *)
(* FindOneAndReplace and DeleteOne each touch one that matches.  A single  *)
(* MongoDB operation is atomic; create and update are two operations.      *)
(*                                                                         *)
(* A field's value is the request that wrote it and, as it is encrypted,   *)
(* the encryption key it was written with.                                 *)
(***************************************************************************)
CONSTANTS Requests,       \* one element per gRPC call
          Users,
          NoUser,         \* the empty user id
          Keys,           \* ENCRYPTION_KEY, one per start of the service
          Unset,          \* the empty string in a field
          NoCall          \* a request not made yet

ASSUME DistinctAssumption == NoUser \notin Users

(* Calendar.Context and Things.Context are treated alike: one "context". *)
Fields  == {"open_ai_key", "google_api_key", "context"}
Secrets == {"open_ai_key", "google_api_key"}

Calls ==
  [kind : {"create", "get", "delete"}, user : Users \cup {NoUser}, sets : {{}}]
    \cup [kind : {"update"}, user : Users \cup {NoUser}, sets : SUBSET Fields]

VARIABLES
  docs,   \* the collection "configs"
  key,    \* svc.encKey
  call,   \* call[r]: what r asks
  pc,     \* pc[r]: idle, begun, insert, replace or done
  read,   \* read[r]: existingConfig
  reply,  \* reply[r]: its status, and the configuration a get returns
  overlapped  \* history: the writing requests that were in flight together
              \* with another one of the same user

vars == <<docs, key, call, pc, read, reply, overlapped>>

Value    == [by : Requests, key : Keys]
Config   == [Fields -> Value \cup {Unset}]
Reading  == [Fields -> Requests \cup {Unset}]
Empty    == [f \in Fields |-> Unset]
InFlight == {"begun", "insert", "replace"}

ASSUME AbsenceAssumption == Unset \notin Value /\ NoCall \notin Calls

TypeOK ==
  /\ docs \subseteq [id : Requests, user : Users, config : Config]
  /\ key \in Keys
  /\ call \in [Requests -> Calls \cup {NoCall}]
  /\ pc \in [Requests -> {"idle", "done"} \cup InFlight]
  /\ read \in [Requests -> Config]
  /\ reply \in [Requests -> [status : {"none", "ok", "error"}, config : Reading]]
  /\ overlapped \subseteq Requests

Init ==
  /\ docs = {}
  /\ key \in Keys
  /\ call = [r \in Requests |-> NoCall]
  /\ pc = [r \in Requests |-> "idle"]
  /\ read = [r \in Requests |-> Empty]
  /\ reply = [r \in Requests |-> [status |-> "none", config |-> Empty]]
  /\ overlapped = {}

-----------------------------------------------------------------------------
(* Mutant: the filter is empty. *)
Matching_Any(r) == docs

(* The documents FindOne, FindOneAndReplace or DeleteOne may choose from.  *)
Matching(r) == {d \in docs : d.user = call[r].user}

Answer(r, status, config) ==
  /\ pc' = [pc EXCEPT ![r] = "done"]
  /\ reply' = [reply EXCEPT ![r] = [status |-> status, config |-> config]]

Continue(r, next) ==
  /\ pc' = [pc EXCEPT ![r] = next]
  /\ UNCHANGED reply

(* A write that was applied is acknowledged unless its answer is lost.     *)
Acknowledge(r) == \E status \in {"ok", "error"} : Answer(r, status, Empty)

Begun(r, kind) == pc[r] = "begun" /\ call[r].kind = kind /\ call[r].user # NoUser

(* The requests in flight that may write what a request c may write. *)
Rivals(c) ==
  {q \in Requests : /\ pc[q] \in InFlight /\ call[q].user = c.user
                    /\ "get" \notin {c.kind, call[q].kind}}

Receive(r, c) ==
  /\ pc[r] = "idle"
  /\ call' = [call EXCEPT ![r] = c]
  /\ overlapped' = overlapped \cup Rivals(c) \cup {q \in {r} : Rivals(c) # {}}
  /\ Continue(r, "begun")
  /\ UNCHANGED <<docs, key, read>>

(* Every return of an error: an empty user id, a document that is already  *)
(* there (create) or is not (the others), a failed MongoDB operation, a    *)
(* cancelled context, an OpenAI key that cannot be decrypted.              *)
Fail(r) ==
  /\ pc[r] \in InFlight
  /\ Answer(r, "error", Empty)
  /\ UNCHANGED <<docs, key, call, read, overlapped>>

(* CreateConfiguration: FindOne, then InsertOne.                           *)

(* Mutant: no look-up before the insertion. *)
CreateChecks_Unchecked(r) ==
  /\ Begun(r, "create")
  /\ Continue(r, "insert")
  /\ UNCHANGED <<docs, key, call, read, overlapped>>

CreateChecks(r) ==
  /\ Begun(r, "create")
  /\ Matching(r) = {}
  /\ Continue(r, "insert")
  /\ UNCHANGED <<docs, key, call, read, overlapped>>

CreateInserts(r) ==
  /\ pc[r] = "insert"
  /\ docs' = docs \cup {[id |-> r, user |-> call[r].user, config |-> Empty]}
  /\ Acknowledge(r)
  /\ UNCHANGED <<key, call, read, overlapped>>

(* GetConfiguration: FindOne and two decryptions.  A secret written with   *)
(* another key does not decrypt: the OpenAI key is then an error, the      *)
(* Google key is returned empty.                                           *)
Decrypts(f, v) == v # Unset /\ (f \in Secrets => v.key = key)

(* Mutant: the stored values are returned as they are. *)
Decrypted_Raw(config) == config

Decrypted(config) ==
  [f \in Fields |-> IF Decrypts(f, config[f]) THEN config[f].by ELSE Unset]

Get(r) ==
  /\ Begun(r, "get")
  /\ \E d \in Matching(r) :
       /\ LET v == d.config["open_ai_key"] IN v = Unset \/ Decrypts("open_ai_key", v)
       /\ Answer(r, "ok", Decrypted(d.config))
  /\ UNCHANGED <<docs, key, call, read, overlapped>>

(* UpdateConfiguration: FindOne, merge in memory, FindOneAndReplace.       *)
UpdateReads(r) ==
  /\ Begun(r, "update")
  /\ \E d \in Matching(r) : read' = [read EXCEPT ![r] = d.config]
  /\ Continue(r, "replace")
  /\ UNCHANGED <<docs, key, call, overlapped>>

(* Mutants: a field the request leaves out is cleared, one it gives is not *)
(* stored if it was empty.                                                 *)
Merged_Clears(r) ==
  [f \in Fields |-> IF f \in call[r].sets THEN [by |-> r, key |-> key] ELSE Unset]
Merged_OnlyOverwrites(r) ==
  [f \in Fields |-> IF f \in call[r].sets /\ read[r][f] # Unset
                    THEN [by |-> r, key |-> key] ELSE read[r][f]]

(* With a key of 32 bytes, which NewService checks, encryption succeeds.   *)
Merged(r) ==
  [f \in Fields |-> IF f \in call[r].sets THEN [by |-> r, key |-> key] ELSE read[r][f]]

(* Mutant: SetUpsert(true). *)
UpdateReplaces_Upserts(r) ==
  /\ pc[r] = "replace"
  /\ LET new == [id |-> r, user |-> call[r].user, config |-> Merged(r)]
     IN  \/ \E d \in Matching(r) :
              docs' = (docs \ {d}) \cup {[d EXCEPT !.config = Merged(r)]}
         \/ Matching(r) = {} /\ docs' = docs \cup {new}
  /\ Acknowledge(r)
  /\ UNCHANGED <<key, call, read, overlapped>>

UpdateReplaces(r) ==
  /\ pc[r] = "replace"
  /\ \E d \in Matching(r) :
       docs' = (docs \ {d}) \cup {[d EXCEPT !.config = Merged(r)]}
  /\ Acknowledge(r)
  /\ UNCHANGED <<key, call, read, overlapped>>

(* Mutant: DeletedCount is not looked at. *)
Delete_Idempotent(r) ==
  /\ Begun(r, "delete")
  /\ docs' = docs \ Matching(r)
  /\ Acknowledge(r)
  /\ UNCHANGED <<key, call, read, overlapped>>

(* DeleteConfiguration: DeleteOne. *)
Delete(r) ==
  /\ Begun(r, "delete")
  /\ \E d \in Matching(r) : docs' = docs \ {d}
  /\ Acknowledge(r)
  /\ UNCHANGED <<key, call, read, overlapped>>

(* The service crashes and is started again, with the same key or another; *)
(* requests in flight end in an error at the client.                       *)
Restart ==
  /\ key' \in Keys
  /\ pc' = [r \in Requests |-> IF pc[r] \in InFlight THEN "done" ELSE pc[r]]
  /\ reply' = [r \in Requests |-> IF pc[r] \in InFlight
                                   THEN [status |-> "error", config |-> Empty] ELSE reply[r]]
  /\ UNCHANGED <<docs, call, read, overlapped>>

Step(r) ==
  \/ \E c \in Calls : Receive(r, c)
  \/ Fail(r)
  \/ CreateChecks(r)
  \/ CreateInserts(r)
  \/ Get(r)
  \/ UpdateReads(r)
  \/ UpdateReplaces(r)
  \/ Delete(r)

Next == (\E r \in Requests : Step(r)) \/ Restart

Spec == Init /\ [][Next]_vars

-----------------------------------------------------------------------------
(* Properties *)

(* A user has one configuration, unless the creates of two overlapped:     *)
(* CreateConfiguration looks for an existing one before it inserts.        *)
OneDocumentPerUser ==
  \A d, e \in docs : d.user = e.user /\ d # e => {d.id, e.id} \subseteq overlapped

(* The same as store.go:31 has it: a user id identifies one configuration. *)
UserIdUnique == \A d, e \in docs : d.user = e.user => d = e

(* A stored field of a user's only configuration changes by an update that *)
(* gives that field, or that another write of the user overlaps:           *)
(* UpdateConfiguration carries the other fields over from what it read.    *)
OnlyGivenFieldsChange ==
  [][\A d \in docs, e \in docs' :
       d.id = e.id /\ (\A o \in docs : o.user = d.user => o = d) =>
         \A f \in Fields : d.config[f] # e.config[f] =>
           \E r \in Requests : /\ pc[r] = "replace" /\ pc'[r] = "done"
                               /\ f \in call[r].sets \/ r \in overlapped]_vars

(* An update that reports success has stored every field it was given, in  *)
(* a configuration of its user, also where writes of the user overlap.     *)
SuccessMeansStored ==
  [][\A r \in Requests :
       pc[r] = "replace" /\ reply'[r].status = "ok" =>
         \E d \in docs' : /\ d.user = call[r].user
                          /\ \A f \in call[r].sets : d.config[f] # Unset /\ d.config[f].by = r]_vars

(* What is deleted stays deleted until the user is created anew, also when *)
(* an update had read it before: every document was inserted by a create.  *)
UpdateCreatesNothing == \A d \in docs : call[d.id].kind = "create"

(* A configuration never holds what was given for another user.            *)
NoForeignValue ==
  \A d \in docs : \A f \in Fields :
    d.config[f] # Unset => LET c == call[d.config[f].by] IN c.user = d.user /\ f \in c.sets

(* Until two writes of a user overlap, the service is to that user the     *)
(* register that the API describes: each request takes effect at once, at  *)
(* its last statement, whatever other users and restarts do meanwhile.     *)
Free == {call[r].user : r \in overlapped}

View(D, F) == [u \in {d.user : d \in D} \ F |-> (CHOOSE d \in D : d.user = u).config]

Configs == View(docs, Free)

Register == INSTANCE ConfigurationRegister WITH configs <- Configs, free <- Free

IsRegister == Register!Spec
=============================================================================
