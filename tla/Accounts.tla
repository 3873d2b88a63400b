------------------------------ MODULE Accounts ------------------------------
(***************************************************************************)
(* Accounts and what they give access to: the gateway's HTTP routes        *)
(* (gateway/internal/handler), the tokens (common/utils/jwt.go) and the    *)
(* user service (user/internal) with its table users in PostgreSQL.        *)
(*                                                                         *)
(* The user service has ONE pgx connection for all its requests.  It runs  *)
(* one statement at a time; a request that wants it meanwhile is refused   *)
(* ("conn busy"), and a request whose context is cancelled during its      *)
(* statement closes it, for everyone, until the service is restarted.      *)
(*                                                                         *)
(* The configuration service is taken as the register it implements        *)
(* (ConfigurationRegister), with one step for a request.                   *)
(***************************************************************************)
EXTENDS Naturals, Sequences, FiniteSets

CONSTANTS Clients,         \* callers, each with one request at a time
          Credentials,     \* what they present: an email and a password
          Nothing,         \* no credentials
          TokenLife,       \* 24 hours, in ticks
          MaxAccounts      \* bound: rows ever inserted

ASSUME ClientsAssumption == Clients \cap {"idle", "closed"} = {}
ASSUME CredentialsAssumption ==
  /\ Nothing \notin Credentials
  /\ \A k \in Credentials : k = [email |-> k.email, password |-> k.password]
ASSUME ParameterAssumption == TokenLife \in Nat \ {0} /\ MaxAccounts \in Nat

VARIABLES
  row,      \* every row inserted so far: its id is its position
  users,    \* the ids in the table
  conn,     \* the connection: idle, closed, or the client whose statement runs
  configs,  \* the user ids that have a configuration
  req,      \* req[c]: how far the request of c is, and what it is about
  token,    \* token[c]: the token c obtained last, and the credentials it gave
  contested \* history: the addresses for which two sign-ups overlapped

vars == <<row, users, conn, configs, req, token, contested>>

Statements  == {"check", "insert", "read", "get", "delete"}
ConfigCalls == {"config_create", "config_read_or_update", "config_delete"}
Unanswered  == Statements \cup ConfigCalls \cup {"compare"}
Steps       == Unanswered \cup {"idle", "websocket", "lingering"}

Ids         == 1 .. Len(row)
Emails      == {k.email : k \in Credentials}

TypeOK ==
  /\ row \in Seq(Credentials)
  /\ users \subseteq Ids /\ configs \subseteq Ids
  /\ conn \in Clients \cup {"idle", "closed"}
  /\ req \in [Clients -> [step : Steps, with : Credentials \cup {Nothing}, id : {0} \cup Ids]]
  /\ token \in [Clients -> [with : Credentials \cup {Nothing}, id : {0} \cup Ids,
                            age : 0 .. TokenLife]]
  /\ \A c \in Clients : conn = c => req[c].step \in Statements
  /\ contested \subseteq Emails

Idle    == [step |-> "idle", with |-> Nothing, id |-> 0]
NoToken == [with |-> Nothing, id |-> 0, age |-> TokenLife]

Init ==
  /\ row = << >> /\ users = {} /\ configs = {}
  /\ conn = "idle"
  /\ req = [c \in Clients |-> Idle]
  /\ token = [c \in Clients |-> NoToken]
  /\ contested = {}

At(c, step)   == req[c].step = step
Becomes(c, r) == req' = [req EXCEPT ![c] = r]
Answer(c)     == Becomes(c, Idle)

-----------------------------------------------------------------------------
(* The gateway: routes and the token middleware *)

(* Requests that the gateway refuses by itself (body, token, path) change  *)
(* nothing and are left out.                                               *)
Begin(c, r) ==
  /\ At(c, "idle")
  /\ Becomes(c, r)
  /\ UNCHANGED <<row, users, conn, configs, token>>

SigningUp(c) == At(c, "check") \/ At(c, "insert")

(* The address of k, if somebody is signing up for it already.             *)
Overlap(k) == {k.email} \cap {req[d].with.email : d \in {c \in Clients : SigningUp(c)}}

(* POST /sign-up *)
HandleCreateUser(c, k) ==
  /\ Len(row) + Cardinality({d \in Clients : SigningUp(d)}) < MaxAccounts
  /\ Begin(c, [Idle EXCEPT !.step = "check", !.with = k])
  /\ contested' = contested \cup Overlap(k)

(* POST /sign-in *)
HandleAuthUser(c, k) ==
  Begin(c, [Idle EXCEPT !.step = "read", !.with = k]) /\ UNCHANGED contested

(* Mutant: ParseToken does not validate the expiry. *)
Valid_Forever(c) == token[c].id # 0

(* ParseToken accepts the token of c. *)
Valid(c) == token[c].age < TokenLife

(* Mutant: the path's user id is not compared with the token's. *)
Authorized_AnyUser(c, id) == Valid(c)

(* Only the user of the token: by comparison with the path (DeleteUser,    *)
(* GetConfiguration, DeleteConfiguration) or because the handler takes the *)
(* id from the token (Create- and UpdateConfiguration, the websocket).     *)
Authorized(c, id) == Valid(c) /\ token[c].id = id

(* GET /{userId}, for any user *)
HandleGetUser(c) ==
  Valid(c) /\ Begin(c, [Idle EXCEPT !.step = "get"]) /\ UNCHANGED contested

BeginOwn(c, step, id) ==
  Authorized(c, id) /\ Begin(c, [Idle EXCEPT !.step = step, !.id = id]) /\ UNCHANGED contested

HandleDeleteUser(c, id)          == BeginOwn(c, "delete", id)
HandleConfiguration(c, step, id) == BeginOwn(c, step, id)
HandleWebsocket(c, id)           == BeginOwn(c, "websocket", id)

ClientStep(c) ==
  \/ \E k \in Credentials : HandleCreateUser(c, k) \/ HandleAuthUser(c, k)
  \/ HandleGetUser(c)
  \/ \E id \in Ids :
       \/ HandleDeleteUser(c, id)
       \/ \E step \in ConfigCalls : HandleConfiguration(c, step, id)
       \/ HandleWebsocket(c, id)

(* A request ends in an error without having had an effect: no instance    *)
(* was discovered (the handler goes on with a nil connection and panics),  *)
(* the client left before its statement began, the hash or the token could *)
(* not be made, a database or the service failed.                          *)
Fail(c) ==
  /\ ~At(c, "idle") /\ conn # c
  /\ Answer(c)
  /\ UNCHANGED <<row, users, conn, configs, token, contested>>

(* The configuration service answers; a create that finds a configuration, *)
(* or another request that finds none, is an error and changes nothing.    *)
ConfigurationAnswers(c) ==
  /\ \/ At(c, "config_create") /\ configs' = configs \cup {req[c].id}
     \/ At(c, "config_delete") /\ configs' = configs \ {req[c].id}
     \/ At(c, "config_read_or_update") /\ UNCHANGED configs
  /\ Answer(c)
  /\ UNCHANGED <<row, users, conn, token, contested>>

(* The context of a websocket ends the agent's stream, after two hours at  *)
(* the latest: no more is done for the user of the token.  The handler     *)
(* itself may stay, blocked in ReadJSON.                                   *)
SessionEnds(c) ==
  /\ At(c, "websocket")
  /\ Becomes(c, [Idle EXCEPT !.step = "lingering"])
  /\ UNCHANGED <<row, users, conn, configs, token, contested>>

(* The browser leaves, or sends what cannot be sent on, and the handler    *)
(* returns.  Nobody owes this step.                                        *)
WebsocketEnds(c) ==
  /\ At(c, "websocket") \/ At(c, "lingering")
  /\ Answer(c)
  /\ UNCHANGED <<row, users, conn, configs, token, contested>>

-----------------------------------------------------------------------------
(* The user service *)

StatementBegins(c) ==
  /\ req[c].step \in Statements
  /\ conn = "idle"
  /\ conn' = c
  /\ UNCHANGED <<row, users, configs, req, token, contested>>

(* Mutant: a statement waits for a connection that is in use or closed. *)
StatementRefused_Waits(c) == FALSE /\ UNCHANGED vars

(* "conn busy" or "conn closed" *)
StatementRefused(c) ==
  /\ req[c].step \in Statements
  /\ conn \notin {c, "idle"}
  /\ Answer(c)
  /\ UNCHANGED <<row, users, conn, configs, token, contested>>

Ends(c, step) ==
  /\ conn = c /\ At(c, step)
  /\ conn' = "idle"
  /\ UNCHANGED <<configs, token, contested>>

(* The rows with the address of the request of c. *)
Registered(c) == {id \in users : row[id].email = req[c].with.email}

(* Mutant: the look-up's result is ignored. *)
CheckEnds_Ignored(c) ==
  /\ Ends(c, "check")
  /\ Becomes(c, [req[c] EXCEPT !.step = "insert"])
  /\ UNCHANGED <<row, users>>

(* Store.CreateUser: SELECT, then the hash, then INSERT.                   *)
CheckEnds(c) ==
  /\ Ends(c, "check")
  /\ IF Registered(c) = {}
     THEN Becomes(c, [req[c] EXCEPT !.step = "insert"])
     ELSE Answer(c)
  /\ UNCHANGED <<row, users>>

Inserts(c) ==
  /\ At(c, "insert")
  /\ row' = Append(row, req[c].with)
  /\ users' = users \cup {Len(row) + 1}

(* Store.DeleteUser: it is an error if there is no such user (any more).   *)
Deletes(c) ==
  /\ At(c, "delete")
  /\ users' = users \ {req[c].id}
  /\ UNCHANGED row

WriteEnds(c) ==
  /\ Ends(c, "insert") \/ Ends(c, "delete")
  /\ Inserts(c) \/ Deletes(c)
  /\ Answer(c)

(* Store.GetUser *)
GetEnds(c) ==
  /\ Ends(c, "get")
  /\ Answer(c)
  /\ UNCHANGED <<row, users>>

(* Store.AuthUser: SELECT, then the comparison, then the token.            *)
ReadEnds(c) ==
  /\ Ends(c, "read")
  /\ \/ \E id \in Registered(c) :
          Becomes(c, [req[c] EXCEPT !.step = "compare", !.id = id])
     \/ Registered(c) = {} /\ Answer(c)
  /\ UNCHANGED <<row, users>>

CreateToken(r) == [with |-> r.with, id |-> r.id, age |-> 0]

(* Mutant: the comparison's result is ignored. *)
Compares_Ignored(c) ==
  /\ At(c, "compare")
  /\ token' = [token EXCEPT ![c] = CreateToken(req[c])]
  /\ Answer(c)
  /\ UNCHANGED <<row, users, conn, configs, contested>>

(* The user may be deleted by now: the token is made from what was read.   *)
Compares(c) ==
  LET r == req[c] IN
  /\ At(c, "compare")
  /\ token' = IF row[r.id].password # r.with.password THEN token
              ELSE [token EXCEPT ![c] = CreateToken(r)]
  /\ Answer(c)
  /\ UNCHANGED <<row, users, conn, configs, contested>>

(* The client leaves, or the connection breaks, while a statement runs:    *)
(* pgx closes the connection, the statement took effect or did not.        *)
StatementCut(c) ==
  /\ conn = c
  /\ conn' = "closed"
  /\ Inserts(c) \/ Deletes(c) \/ UNCHANGED <<row, users>>
  /\ Answer(c)
  /\ UNCHANGED <<configs, token, contested>>

ConnectionLost ==
  /\ conn = "idle"
  /\ conn' = "closed"
  /\ UNCHANGED <<row, users, configs, req, token, contested>>

(* Mutant: the new process finds the connection as it was. *)
Restart_KeepsConnection ==
  /\ req' = [c \in Clients |-> IF req[c].step \in Statements \cup {"compare"} THEN Idle ELSE req[c]]
  /\ UNCHANGED <<row, users, conn, configs, token, contested>>

(* The user service is restarted and connects anew.                        *)
Restart ==
  /\ conn' = "idle"
  /\ req' = [c \in Clients |-> IF req[c].step \in Statements \cup {"compare"} THEN Idle ELSE req[c]]
  /\ UNCHANGED <<row, users, configs, token, contested>>

(* Ages are not counted beyond the life of a token.                        *)
Tick ==
  /\ \E c \in Clients : token[c].age < TokenLife
  /\ token' = [c \in Clients |-> [token[c] EXCEPT !.age = IF @ < TokenLife THEN @ + 1 ELSE @]]
  /\ UNCHANGED <<row, users, conn, configs, req, contested>>

-----------------------------------------------------------------------------
ServiceStep(c) ==
  \/ StatementBegins(c) \/ StatementRefused(c)
  \/ CheckEnds(c) \/ WriteEnds(c) \/ GetEnds(c) \/ ReadEnds(c)
  \/ Compares(c)
  \/ ConfigurationAnswers(c) \/ SessionEnds(c)

Next ==
  \/ \E c \in Clients :
       ClientStep(c) \/ ServiceStep(c) \/ WebsocketEnds(c) \/ Fail(c) \/ StatementCut(c)
  \/ ConnectionLost \/ Restart \/ Tick

Spec == Init /\ [][Next]_vars

(* Services and PostgreSQL answer what they are asked, the context of a    *)
(* websocket ends the agent's stream, time passes.  Clients owe nothing,   *)
(* not even to leave, and nobody is counted on to restart the user         *)
(* service.                                                                *)
Fairness == WF_vars(Tick) /\ \A c \in Clients : WF_vars(ServiceStep(c))

FairSpec == Spec /\ Fairness

-----------------------------------------------------------------------------
(* Properties *)

(* An address has one account ("user with this email already exists"),     *)
(* also when the answer to a sign-up was lost and the client tries again:  *)
(* whoever has two signed up twice at the same time.                       *)
OneUserPerEmail ==
  \A i, j \in users : row[i].email = row[j].email => i = j \/ row[i].email \in contested

(* A token is for an account whose address and password were presented to  *)
(* get it, although it is made from a row read some time before.           *)
TokensEarned ==
  \A c \in Clients : token[c].id # 0 => row[token[c].id] = token[c].with

(* A user disappears, and a configuration appears or disappears, only by a *)
(* request of someone who presented that user's password: a token never    *)
(* reaches the account that reuses its address.                            *)
Touched(id) == \/ id \in users /\ id \notin users'
               \/ (id \in configs) # (id \in configs')
OnlyOwnerActs ==
  [][\A id \in Ids : Touched(id) =>
       \E c \in Clients : /\ req[c].id = id /\ req'[c] # req[c]
                          /\ token[c].with = row[id]]_vars

(* Nobody waits for ever for the one connection, busy, closed or lost.     *)
(* (A websocket is not answered: its handler waits for the browser.)       *)
EveryRequestAnswered == \A c \in Clients : []<>(req[c].step \notin Unanswered)

(* Tokens of a deleted user work on, and a sign-in under way may even get  *)
(* one; but some time nothing is done in the deleted user's name any more. *)
DeletedLockedOut ==
  \A id \in 1 .. MaxAccounts :
    <>[](id \in Ids \ users => \A c \in Clients : req[c].id # id)
=============================================================================
