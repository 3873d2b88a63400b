--------------------------- MODULE AccountsProofs ---------------------------
(* Proofs about Accounts, for all clients, credentials and parameters.     *)
EXTENDS Accounts, TLAPS

(* Requests made with credentials, and requests made for the user of the   *)
(* caller's token.                                                         *)
WithCredentials == {"check", "insert", "read", "compare"}
ForOwner        == {"delete"} \cup ConfigCalls

Presented == \A c \in Clients : req[c].step \in WithCredentials => req[c].with \in Credentials
Named     == \A c \in Clients : req[c].step \in ForOwner => req[c].id # 0

TypeInv == TypeOK /\ Presented /\ Named

(* The row a sign-in was read from, the row of a token, the token of a     *)
(* request made for its user.                                              *)
ReadRow    == \A c \in Clients : At(c, "compare") =>
                req[c].id \in Ids /\ row[req[c].id].email = req[c].with.email
TokenRow   == \A c \in Clients : token[c].id # 0 =>
                token[c].id \in Ids /\ row[token[c].id] = token[c].with
OwnRequest == \A c \in Clients : req[c].step \in ForOwner =>
                token[c].id = req[c].id /\ req[c].id # 0

TokenInv == ReadRow /\ TokenRow /\ OwnRequest

(* Unless its address is contested, a sign-up has it for itself, and what  *)
(* it found out is still true when it inserts.                             *)
Apart        == \A c, d \in Clients :
                  /\ c # d /\ SigningUp(c) /\ SigningUp(d)
                  /\ req[c].with.email = req[d].with.email
                  => req[c].with.email \in contested
Unregistered == \A c \in Clients :
                  At(c, "insert") => Registered(c) = {} \/ req[c].with.email \in contested

SignUpInv == OneUserPerEmail /\ Apart /\ Unregistered

-----------------------------------------------------------------------------
LEMMA TypeInvInit == Init => TypeInv
  BY ClientsAssumption, ParameterAssumption
  DEF Init, TypeInv, TypeOK, Presented, Named, Idle, NoToken, Ids, Steps, WithCredentials,
      ForOwner, ConfigCalls

(* A request begins: only req[c] changes, and c was idle. *)
LEMMA TypeInvBegin ==
  ASSUME TypeInv, NEW c \in Clients, NEW r, Begin(c, r),
         r \in [step : Steps, with : Credentials \cup {Nothing}, id : {0} \cup Ids],
         r.step \in WithCredentials => r.with \in Credentials,
         r.step \in ForOwner => r.id # 0,
         contested' \subseteq Emails
  PROVE  TypeInv'
  BY ClientsAssumption
  DEF TypeInv, TypeOK, Presented, Named, Begin, Becomes, At, Ids, Steps, Unanswered, Statements,
      WithCredentials, ForOwner, ConfigCalls

LEMMA TypeInvClientStep ==
  ASSUME TypeInv, NEW c \in Clients, ClientStep(c)
  PROVE  TypeInv'
<1> USE DEF Idle, Steps, Unanswered, Statements, WithCredentials, ForOwner, ConfigCalls
<1>0. contested \subseteq Emails BY DEF TypeInv, TypeOK
<1>1. ASSUME NEW k \in Credentials, HandleCreateUser(c, k) PROVE TypeInv'
  <2>1. Begin(c, [Idle EXCEPT !.step = "check", !.with = k]) BY <1>1 DEF HandleCreateUser
  <2>2. contested' \subseteq Emails BY <1>0, <1>1 DEF HandleCreateUser, Overlap, Emails
  <2>3. QED BY <2>1, <2>2, <1>1, TypeInvBegin
<1>2. ASSUME NEW k \in Credentials, HandleAuthUser(c, k) PROVE TypeInv'
  <2>1. Begin(c, [Idle EXCEPT !.step = "read", !.with = k]) /\ UNCHANGED contested
    BY <1>2 DEF HandleAuthUser
  <2>2. QED BY <1>0, <2>1, <1>2, TypeInvBegin
<1>3. CASE HandleGetUser(c)
  <2>1. Begin(c, [Idle EXCEPT !.step = "get"]) /\ UNCHANGED contested
    BY <1>3 DEF HandleGetUser
  <2>2. QED BY <1>0, <2>1, TypeInvBegin
<1>4. ASSUME NEW id \in Ids, NEW step \in ConfigCalls \cup {"delete", "websocket"},
             BeginOwn(c, step, id)
      PROVE  TypeInv'
  <2>1. Begin(c, [Idle EXCEPT !.step = step, !.id = id]) /\ UNCHANGED contested
    BY <1>4 DEF BeginOwn
  <2>2. id # 0 BY DEF Ids
  <2>3. QED BY <1>0, <2>1, <2>2, TypeInvBegin
<1>5. QED
  BY <1>1, <1>2, <1>3, <1>4
  DEF ClientStep, HandleDeleteUser, HandleConfiguration, HandleWebsocket, ConfigCalls

(* A request ends: everything but req[c] keeps its type. *)
LEMMA TypeInvAnswer ==
  ASSUME TypeInv, NEW c \in Clients, Answer(c),
         row' \in Seq(Credentials), Len(row) <= Len(row'),
         users' \subseteq Ids', configs' \subseteq Ids',
         token' \in [Clients -> [with : Credentials \cup {Nothing}, id : {0} \cup Ids',
                                 age : 0 .. TokenLife]],
         (conn' = conn /\ conn # c) \/ conn' \in {"idle", "closed"}, contested' = contested
  PROVE  TypeInv'
<1>1. Len(row) \in Nat /\ Len(row)' \in Nat BY DEF TypeInv, TypeOK
<1>2. Ids \subseteq Ids' BY <1>1 DEF Ids
<1>3. Idle \in [step : Steps, with : Credentials \cup {Nothing}, id : {0} \cup Ids']
  BY DEF Idle, Steps
<1>4. req' \in [Clients -> [step : Steps, with : Credentials \cup {Nothing}, id : {0} \cup Ids']]
  BY <1>2, <1>3 DEF TypeInv, TypeOK, Answer, Becomes
<1>5. \A d \in Clients : req'[d] = IF d = c THEN Idle ELSE req[d]
  BY DEF TypeInv, TypeOK, Answer, Becomes
<1>6. Presented' /\ Named'
  <2>1. \A d \in Clients : req'[d] = req[d] \/ req'[d].step = "idle" BY <1>5 DEF Idle
  <2>2. "idle" \notin WithCredentials \cup ForOwner BY DEF WithCredentials, ForOwner, ConfigCalls
  <2>3. QED BY <2>1, <2>2 DEF TypeInv, Presented, Named
<1>7. conn' \in Clients \cup {"idle", "closed"}
      /\ \A d \in Clients : conn' = d => req'[d].step \in Statements
  BY <1>5, ClientsAssumption DEF TypeInv, TypeOK
<1>8. QED BY <1>4, <1>6, <1>7 DEF TypeInv, TypeOK

LEMMA TypeInvAnswerOnly ==
  ASSUME TypeInv, NEW c \in Clients, Answer(c),
         row' = row, users' \subseteq users, configs' \subseteq Ids,
         token' \in [Clients -> [with : Credentials \cup {Nothing}, id : {0} \cup Ids,
                                 age : 0 .. TokenLife]],
         (conn' = conn /\ conn # c) \/ conn' \in {"idle", "closed"}, contested' = contested
  PROVE  TypeInv'
<1>1. Ids' = Ids /\ Len(row) <= Len(row') BY DEF Ids, TypeInv, TypeOK
<1>2. users' \subseteq Ids' /\ row' \in Seq(Credentials) BY <1>1 DEF TypeInv, TypeOK
<1>3. QED BY <1>1, <1>2, TypeInvAnswer

LEMMA TypeInvService ==
  ASSUME TypeInv, NEW c \in Clients,
         ServiceStep(c) \/ WebsocketEnds(c) \/ Fail(c) \/ StatementCut(c)
  PROVE  TypeInv'
<1> USE ClientsAssumption DEF At
<1>1. CASE StatementBegins(c)
  BY <1>1 DEF TypeInv, TypeOK, Presented, Named, StatementBegins, Ids, Statements
<1>2. CASE Fail(c) \/ StatementRefused(c) \/ WebsocketEnds(c) \/ GetEnds(c)
  <2>1. Answer(c) /\ UNCHANGED <<row, users, configs, token, contested>>
        /\ ((conn' = conn /\ conn # c) \/ conn' \in {"idle", "closed"})
    BY <1>2 DEF Fail, StatementRefused, WebsocketEnds, GetEnds, Ends, TypeInv, TypeOK, Statements
  <2>2. QED BY <2>1, TypeInvAnswerOnly DEF TypeInv, TypeOK
<1>3. CASE ConfigurationAnswers(c)
  <2>1. configs' \subseteq Ids
    BY <1>3 DEF ConfigurationAnswers, TypeInv, TypeOK, Named, ForOwner, ConfigCalls
  <2>2. Answer(c) /\ UNCHANGED <<row, users, conn, token, contested>> /\ conn # c
    BY <1>3 DEF ConfigurationAnswers, TypeInv, TypeOK, Statements
  <2>3. QED BY <2>1, <2>2, TypeInvAnswerOnly DEF TypeInv, TypeOK
<1>4. CASE Compares(c)
  <2>1. token' \in [Clients -> [with : Credentials \cup {Nothing}, id : {0} \cup Ids,
                                age : 0 .. TokenLife]]
    BY <1>4, ParameterAssumption DEF Compares, CreateToken, TypeInv, TypeOK
  <2>2. Answer(c) /\ UNCHANGED <<row, users, conn, configs, contested>> /\ conn # c
    BY <1>4 DEF Compares, TypeInv, TypeOK, Statements
  <2>3. QED BY <2>1, <2>2, TypeInvAnswerOnly DEF TypeInv, TypeOK
<1>5. CASE CheckEnds(c) \/ ReadEnds(c)
  <2>1. ASSUME Ends(c, "check") \/ Ends(c, "read"), UNCHANGED <<row, users>>, Answer(c)
        PROVE  TypeInv'
    <3>1. conn' = "idle" /\ UNCHANGED <<configs, token, contested>> BY <2>1 DEF Ends
    <3>2. QED BY <2>1, <3>1, TypeInvAnswerOnly DEF TypeInv, TypeOK
  <2>2. ASSUME Ends(c, "check") \/ Ends(c, "read"), UNCHANGED <<row, users>>,
               NEW step \in {"insert", "compare"}, NEW id \in {0} \cup Ids,
               Becomes(c, [req[c] EXCEPT !.step = step, !.id = id])
        PROVE  TypeInv'
    <3> DEFINE r == [req[c] EXCEPT !.step = step, !.id = id]
               Request == [step : Steps, with : Credentials \cup {Nothing}, id : {0} \cup Ids]
    <3>1. req \in [Clients -> Request] /\ Ids' = Ids BY <2>2 DEF TypeInv, TypeOK, Ids
    <3>2. r \in Request /\ r.step = step /\ r.with = req[c].with
      BY <3>1 DEF Steps, Unanswered, Statements
    <3>3. req[c].with \in Credentials
      BY <2>2 DEF Ends, TypeInv, Presented, WithCredentials
    <3> HIDE DEF r, Request
    <3>4. req' = [req EXCEPT ![c] = r] BY <2>2 DEF Becomes, r
    <3>5. req' \in [Clients -> Request] /\ \A d \in Clients : req'[d] = IF d = c THEN r ELSE req[d]
      BY <3>1, <3>2, <3>4
    <3>6. Presented' BY <3>2, <3>3, <3>5 DEF TypeInv, Presented
    <3>7. Named' BY <3>2, <3>5 DEF TypeInv, Named, ForOwner, ConfigCalls
    <3>8. conn' = "idle" /\ UNCHANGED <<row, users, configs, token, contested>>
      BY <2>2 DEF Ends
    <3>9. QED BY <3>1, <3>5, <3>6, <3>7, <3>8 DEF TypeInv, TypeOK, Request
  <2>3. [req[c] EXCEPT !.step = "insert"] = [req[c] EXCEPT !.step = "insert", !.id = req[c].id]
    BY DEF TypeInv, TypeOK
  <2>4. req[c].id \in {0} \cup Ids /\ Registered(c) \subseteq Ids
    BY DEF TypeInv, TypeOK, Registered
  <2>5. QED BY <1>5, <2>1, <2>2, <2>3, <2>4 DEF CheckEnds, ReadEnds
<1>6. CASE WriteEnds(c) \/ StatementCut(c)
  <2>1. CASE Inserts(c)
    <3>1. row' = Append(row, req[c].with) /\ req[c].with \in Credentials
      BY <2>1 DEF Inserts, TypeInv, Presented, WithCredentials
    <3>2. row' \in Seq(Credentials) /\ Len(row') = Len(row) + 1 /\ Len(row) \in Nat
      BY <3>1 DEF TypeInv, TypeOK
    <3>3. Ids \subseteq Ids' /\ Len(row) + 1 \in Ids' BY <3>2 DEF Ids
    <3>4. users' \subseteq Ids' /\ configs' \subseteq Ids' /\ Answer(c)
          /\ conn' \in {"idle", "closed"} /\ UNCHANGED <<token, contested>>
      BY <1>6, <2>1, <3>3 DEF WriteEnds, StatementCut, Ends, Inserts, TypeInv, TypeOK
    <3>5. QED BY <3>2, <3>3, <3>4, TypeInvAnswer DEF TypeInv, TypeOK
  <2>2. CASE UNCHANGED row /\ users' \subseteq users
    <3>1. /\ Answer(c) /\ conn' \in {"idle", "closed"}
          /\ UNCHANGED <<configs, token, contested>>
      BY <1>6 DEF WriteEnds, StatementCut, Ends
    <3>2. QED BY <2>2, <3>1, TypeInvAnswerOnly DEF TypeInv, TypeOK
  <2>3. QED BY <1>6, <2>1, <2>2 DEF WriteEnds, StatementCut, Deletes
<1>7. CASE SessionEnds(c)
  <2>1. conn # c BY <1>7 DEF SessionEnds, TypeInv, TypeOK, Statements
  <2>2. [Idle EXCEPT !.step = "lingering"] = [step |-> "lingering", with |-> Nothing, id |-> 0]
    BY DEF Idle
  <2>3. QED
    BY <1>7, <2>1, <2>2
    DEF SessionEnds, Becomes, TypeInv, TypeOK, Presented, Named, Ids, Steps, Statements,
        WithCredentials, ForOwner, ConfigCalls
<1>8. QED BY <1>1, <1>2, <1>3, <1>4, <1>5, <1>6, <1>7 DEF ServiceStep

LEMMA TypeInvAlone ==
  ASSUME TypeInv, ConnectionLost \/ Restart \/ Tick \/ UNCHANGED vars
  PROVE  TypeInv'
<1>1. CASE ConnectionLost \/ UNCHANGED vars
  BY <1>1, ClientsAssumption DEF ConnectionLost, vars, TypeInv, TypeOK, Presented, Named, Ids
<1>2. CASE Restart
  BY <1>2, ClientsAssumption
  DEF Restart, TypeInv, TypeOK, Presented, Named, Ids, Idle, Steps, WithCredentials, ForOwner,
      ConfigCalls
<1>3. CASE Tick
  <2> DEFINE Token == [with : Credentials \cup {Nothing}, id : {0} \cup Ids, age : 0 .. TokenLife]
             Older(a) == IF a < TokenLife THEN a + 1 ELSE a
  <2>1. token' \in [Clients -> Token]
    <3>1. ASSUME NEW t \in Token PROVE [t EXCEPT !.age = Older(t.age)] \in Token
      <4>1. Older(t.age) \in 0 .. TokenLife BY ParameterAssumption
      <4>2. QED BY <4>1
    <3>2. token \in [Clients -> Token] BY DEF TypeInv, TypeOK
    <3>3. token' = [d \in Clients |-> [token[d] EXCEPT !.age = Older(token[d].age)]]
      BY <1>3 DEF Tick
    <3> HIDE DEF Token, Older
    <3>4. QED BY <3>1, <3>2, <3>3
  <2>2. QED BY <1>3, <2>1 DEF Tick, TypeInv, TypeOK, Presented, Named, Ids
<1>4. QED BY <1>1, <1>2, <1>3

LEMMA TypeInvAlways == Spec => []TypeInv
<1>1. TypeInv /\ [Next]_vars => TypeInv'
  BY TypeInvClientStep, TypeInvService, TypeInvAlone DEF Next
<1>2. QED BY <1>1, TypeInvInit, PTL DEF Spec

(* Every variable keeps its type, and a statement is always that of a      *)
(* request that is at one.                                                 *)
THEOREM TypeCorrect == Spec => []TypeOK
  BY TypeInvAlways, PTL DEF TypeInv

-----------------------------------------------------------------------------
(* Tokens *)

(* Rows stay as they are. *)
LEMMA RowsKept ==
  ASSUME TypeInv, row' = row \/ \E k \in Credentials : row' = Append(row, k)
  PROVE  Ids \subseteq Ids' /\ \A i \in Ids : row'[i] = row[i]
<1>1. row \in Seq(Credentials) BY DEF TypeInv, TypeOK
<1>2. CASE row' = row BY <1>2 DEF Ids
<1>3. ASSUME NEW k \in Credentials, row' = Append(row, k)
      PROVE  Ids \subseteq Ids' /\ \A i \in Ids : row'[i] = row[i]
  <2>1. Len(row') = Len(row) + 1 /\ Len(row) \in Nat BY <1>1, <1>3
  <2>2. \A i \in 1 .. Len(row) : row'[i] = row[i] BY <1>1, <1>3
  <2>3. QED BY <2>1, <2>2 DEF Ids
<1>4. QED BY <1>2, <1>3

(* Steps that change one request and no token. *)
LEMMA TokenInvOneRequest ==
  ASSUME TypeInv, TokenInv, NEW c \in Clients, NEW r,
         Becomes(c, r), UNCHANGED token,
         row' = row \/ \E k \in Credentials : row' = Append(row, k),
         r.step = "compare" => r.id \in Ids /\ row[r.id].email = r.with.email,
         r.step \in ForOwner => token[c].id = r.id /\ r.id # 0
  PROVE  TokenInv'
<1>1. Ids \subseteq Ids' /\ \A i \in Ids : row'[i] = row[i] BY RowsKept
<1>2. \A d \in Clients : req'[d] = req[d] \/ (d = c /\ req'[d] = r)
  BY DEF TypeInv, TypeOK, Becomes
<1>3. ReadRow' BY <1>1, <1>2 DEF TokenInv, ReadRow, At
<1>4. TokenRow' BY <1>1 DEF TokenInv, TokenRow
<1>5. OwnRequest' BY <1>2 DEF TokenInv, OwnRequest
<1>6. QED BY <1>3, <1>4, <1>5 DEF TokenInv

LEMMA TokenInvClientStep ==
  ASSUME TypeInv, TokenInv, NEW c \in Clients, ClientStep(c)
  PROVE  TokenInv'
<1>1. ASSUME NEW r, Begin(c, r), r.step \notin ForOwner \cup {"compare"} PROVE TokenInv'
  BY <1>1, TokenInvOneRequest DEF Begin
<1>2. ASSUME NEW id \in Ids, NEW step \in ConfigCalls \cup {"delete", "websocket"},
             BeginOwn(c, step, id)
      PROVE  TokenInv'
  <2>1. id # 0 /\ token[c].id = id BY <1>2 DEF Ids, BeginOwn, Authorized
  <2>2. Begin(c, [Idle EXCEPT !.step = step, !.id = id]) BY <1>2 DEF BeginOwn
  <2>3. QED BY <2>1, <2>2, TokenInvOneRequest DEF Begin, Idle, ForOwner, ConfigCalls
<1>3. ASSUME NEW k \in Credentials, HandleCreateUser(c, k) \/ HandleAuthUser(c, k)
      PROVE  TokenInv'
  BY <1>1, <1>3 DEF HandleCreateUser, HandleAuthUser, Idle, ForOwner, ConfigCalls
<1>4. CASE HandleGetUser(c)
  BY <1>1, <1>4 DEF HandleGetUser, Idle, ForOwner, ConfigCalls
<1>5. QED
  BY <1>2, <1>3, <1>4
  DEF ClientStep, HandleDeleteUser, HandleConfiguration, HandleWebsocket, ConfigCalls

LEMMA TokenInvService ==
  ASSUME TypeInv, TokenInv, NEW c \in Clients,
         ServiceStep(c) \/ WebsocketEnds(c) \/ Fail(c) \/ StatementCut(c)
  PROVE  TokenInv'
<1>1. ASSUME Answer(c), UNCHANGED token,
             row' = row \/ \E k \in Credentials : row' = Append(row, k)
      PROVE  TokenInv'
  BY <1>1, TokenInvOneRequest DEF Answer, Idle, ForOwner, ConfigCalls
<1>2. CASE StatementBegins(c)
  BY <1>2 DEF StatementBegins, TokenInv, ReadRow, TokenRow, OwnRequest, At, Ids
<1>3. CASE Fail(c) \/ StatementRefused(c) \/ ConfigurationAnswers(c) \/ WebsocketEnds(c) \/ GetEnds(c)
  BY <1>1, <1>3
  DEF Fail, StatementRefused, ConfigurationAnswers, WebsocketEnds, GetEnds, Ends
<1>4. CASE WriteEnds(c) \/ StatementCut(c)
  <2>1. Answer(c) /\ UNCHANGED token BY <1>4 DEF WriteEnds, StatementCut, Ends
  <2>2. row' = row \/ \E k \in Credentials : row' = Append(row, k)
    BY <1>4
    DEF WriteEnds, StatementCut, Inserts, Deletes, At, TypeInv, Presented, WithCredentials
  <2>3. QED BY <1>1, <2>1, <2>2
<1>5. CASE CheckEnds(c)
  <2>1. Answer(c) \/ Becomes(c, [req[c] EXCEPT !.step = "insert"]) BY <1>5 DEF CheckEnds
  <2>2. UNCHANGED <<row, token>> BY <1>5 DEF CheckEnds, Ends
  <2>3. [req[c] EXCEPT !.step = "insert"].step = "insert" BY DEF TypeInv, TypeOK
  <2>4. QED BY <1>1, <2>1, <2>2, <2>3, TokenInvOneRequest DEF ForOwner, ConfigCalls
<1>6. CASE ReadEnds(c)
  <2>1. UNCHANGED <<row, token>> BY <1>6 DEF ReadEnds, Ends
  <2>2. ASSUME NEW id \in Registered(c), Becomes(c, [req[c] EXCEPT !.step = "compare", !.id = id])
        PROVE  TokenInv'
    <3> DEFINE r == [req[c] EXCEPT !.step = "compare", !.id = id]
    <3>1. r.step = "compare" /\ r.id = id /\ r.with = req[c].with BY DEF TypeInv, TypeOK
    <3>2. id \in Ids /\ row[id].email = req[c].with.email BY DEF Registered, TypeInv, TypeOK
    <3> HIDE DEF r
    <3>3. Becomes(c, r) BY <2>2 DEF r
    <3>4. QED BY <2>1, <3>1, <3>2, <3>3, TokenInvOneRequest DEF ForOwner, ConfigCalls
  <2>3. QED BY <1>1, <1>6, <2>1, <2>2 DEF ReadEnds
<1>7. CASE Compares(c)
  <2>1. Answer(c) /\ UNCHANGED row /\ At(c, "compare") BY <1>7 DEF Compares
  <2>2. CASE token' = token BY <1>1, <2>1, <2>2
  <2>3. CASE /\ token' = [token EXCEPT ![c] = CreateToken(req[c])]
             /\ row[req[c].id].password = req[c].with.password
    <3>1. req[c].id \in Ids /\ row[req[c].id].email = req[c].with.email
      BY <2>1 DEF TokenInv, ReadRow
    <3>2. row[req[c].id] \in Credentials /\ req[c].with \in Credentials
      BY <2>1, <3>1 DEF TypeInv, TypeOK, Presented, WithCredentials, At, Ids
    <3>3. row[req[c].id] = req[c].with BY <2>3, <3>1, <3>2, CredentialsAssumption
    <3>4. \A d \in Clients : /\ req'[d] = IF d = c THEN Idle ELSE req[d]
                             /\ token'[d] = IF d = c THEN CreateToken(req[c]) ELSE token[d]
      BY <2>1, <2>3 DEF Answer, Becomes, TypeInv, TypeOK
    <3>5. Ids' = Ids BY <2>1 DEF Ids
    <3>6. TokenRow' BY <2>1, <3>1, <3>3, <3>4, <3>5 DEF TokenInv, TokenRow, CreateToken
    <3>7. ReadRow' /\ OwnRequest'
      BY <2>1, <3>4, <3>5
      DEF TokenInv, ReadRow, OwnRequest, At, Idle, ForOwner, ConfigCalls
    <3>8. QED BY <3>6, <3>7 DEF TokenInv
  <2>4. QED BY <1>7, <2>2, <2>3 DEF Compares
<1>8. CASE SessionEnds(c)
  BY <1>8, TokenInvOneRequest DEF SessionEnds, Idle, ForOwner, ConfigCalls
<1>9. QED BY <1>2, <1>3, <1>4, <1>5, <1>6, <1>7, <1>8 DEF ServiceStep

LEMMA TokenInvAlone ==
  ASSUME TypeInv, TokenInv, ConnectionLost \/ Restart \/ Tick \/ UNCHANGED vars
  PROVE  TokenInv'
<1>1. Ids' = Ids /\ row' = row BY DEF ConnectionLost, Restart, Tick, vars, Ids
<1>2. \A c \in Clients : req'[c] = req[c] \/ req'[c] = Idle
  BY DEF ConnectionLost, Restart, Tick, vars, TypeInv, TypeOK
<1>3. \A c \in Clients : token'[c].id = token[c].id /\ token'[c].with = token[c].with
  <2>1. CASE UNCHANGED token BY <2>1
  <2>2. CASE Tick BY <2>2 DEF Tick, TypeInv, TypeOK
  <2>3. QED BY <2>1, <2>2 DEF ConnectionLost, Restart, vars
<1>4. ReadRow' BY <1>1, <1>2 DEF TokenInv, ReadRow, At, Idle
<1>5. TokenRow' BY <1>1, <1>3 DEF TokenInv, TokenRow
<1>6. OwnRequest' BY <1>2, <1>3 DEF TokenInv, OwnRequest, Idle, ForOwner, ConfigCalls
<1>7. QED BY <1>4, <1>5, <1>6 DEF TokenInv

LEMMA TokenInvAlways == Spec => [](TypeInv /\ TokenInv)
<1>1. Init => TokenInv
  BY DEF Init, TokenInv, ReadRow, TokenRow, OwnRequest, At, Idle, NoToken, ForOwner, ConfigCalls
<1>2. TypeInv /\ TokenInv /\ [Next]_vars => TokenInv'
  BY TokenInvClientStep, TokenInvService, TokenInvAlone DEF Next
<1>3. QED BY <1>1, <1>2, TypeInvAlways, PTL DEF Spec

(* A token is for the account whose address and password were presented    *)
(* for it, whatever happened to that account meanwhile.                    *)
THEOREM TokensAlwaysEarned == Spec => []TokensEarned
<1>1. TokenInv => TokensEarned BY DEF TokenInv, TokenRow, TokensEarned
<1>2. QED BY <1>1, TokenInvAlways, PTL

-----------------------------------------------------------------------------
(* Whose requests have an effect *)

(* A user disappears, and a configuration appears or disappears, only by a *)
(* request of someone who presented that user's password.                  *)
THEOREM OnlyOwnersAct == Spec => OnlyOwnerActs
<1> DEFINE Owned == \A id \in Ids : Touched(id) =>
                      \E c \in Clients : /\ req[c].id = id /\ req'[c] # req[c]
                                         /\ token[c].with = row[id]
<1>1. ASSUME TypeInv, TokenInv, NEW c \in Clients, req[c].step \in ForOwner, Answer(c),
             \A id \in Ids : Touched(id) => id = req[c].id
      PROVE  Owned
  <2>1. token[c].id = req[c].id /\ token[c].id # 0
    BY <1>1 DEF TokenInv, OwnRequest
  <2>2. token[c].with = row[req[c].id] BY <2>1, <1>1 DEF TokenInv, TokenRow
  <2>3. req'[c] # req[c]
    BY <1>1 DEF Answer, Becomes, Idle, ForOwner, ConfigCalls, TypeInv, TypeOK
  <2>4. QED BY <1>1, <2>2, <2>3
<1>2. ASSUME TypeInv, UNCHANGED configs, users \subseteq users' PROVE Owned
  BY <1>2 DEF Touched
<1>3. ASSUME TypeInv, TokenInv, NEW c \in Clients, WriteEnds(c) \/ StatementCut(c)
      PROVE  Owned
  <2>1. UNCHANGED configs /\ Answer(c) BY <1>3 DEF WriteEnds, StatementCut, Ends
  <2>2. CASE Deletes(c)
    <3>1. req[c].step \in ForOwner BY <2>2 DEF Deletes, At, ForOwner
    <3>2. \A id \in Ids : Touched(id) => id = req[c].id BY <2>1, <2>2 DEF Touched, Deletes
    <3>3. QED BY <1>1, <1>3, <2>1, <3>1, <3>2
  <2>3. CASE ~Deletes(c)
    <3>1. users \subseteq users' BY <1>3, <2>3 DEF WriteEnds, StatementCut, Inserts
    <3>2. QED BY <1>2, <1>3, <2>1, <3>1
  <2>4. QED BY <2>2, <2>3
<1>4. ASSUME TypeInv, TokenInv, NEW c \in Clients, ConfigurationAnswers(c) PROVE Owned
  <2>1. UNCHANGED users /\ Answer(c) BY <1>4 DEF ConfigurationAnswers
  <2>2. req[c].step \in ForOwner BY <1>4 DEF ConfigurationAnswers, At, ForOwner, ConfigCalls
  <2>3. \A id \in Ids : Touched(id) => id = req[c].id
    BY <1>4, <2>1 DEF ConfigurationAnswers, Touched
  <2>4. QED BY <1>1, <1>4, <2>1, <2>2, <2>3
<1>5. ASSUME NEW c \in Clients,
             \/ ClientStep(c) \/ WebsocketEnds(c) \/ Fail(c)
             \/ (ServiceStep(c) /\ ~WriteEnds(c) /\ ~ConfigurationAnswers(c))
      PROVE  UNCHANGED <<users, configs>>
  BY <1>5
  DEF ClientStep, HandleCreateUser, HandleAuthUser, HandleGetUser, HandleDeleteUser,
      HandleConfiguration, HandleWebsocket, BeginOwn, Begin, Fail, ServiceStep, StatementBegins,
      StatementRefused, CheckEnds, GetEnds, ReadEnds, Ends, Compares, SessionEnds, WebsocketEnds
<1>6. TypeInv /\ TokenInv /\ [Next]_vars => [Owned]_vars
  <2> SUFFICES ASSUME TypeInv, TokenInv, [Next]_vars PROVE Owned OBVIOUS
  <2>1. CASE ConnectionLost \/ Restart \/ Tick \/ UNCHANGED vars
    BY <1>2, <2>1 DEF ConnectionLost, Restart, Tick, vars
  <2>2. QED BY <1>2, <1>3, <1>4, <1>5, <2>1 DEF Next
<1>7. Spec => [][Owned]_vars BY <1>6, TokenInvAlways, PTL DEF Spec
<1>8. QED BY <1>7 DEF OnlyOwnerActs

-----------------------------------------------------------------------------
(* One account per address *)

(* Steps that change one request and add no row.                           *)
LEMMA SignUpInvOneRequest ==
  ASSUME TypeInv, SignUpInv, NEW c \in Clients, NEW r, Becomes(c, r),
         row' = row, users' \subseteq users, contested \subseteq contested',
         r.step \in {"check", "insert"} =>
           \A d \in Clients \ {c} : SigningUp(d) /\ req[d].with.email = r.with.email
                                    => r.with.email \in contested',
         r.step = "insert" => \/ \A id \in users : row[id].email # r.with.email
                              \/ r.with.email \in contested'
  PROVE  SignUpInv'
<1>1. \A d \in Clients : req'[d] = req[d] \/ (d = c /\ req'[d] = r)
  BY DEF TypeInv, TypeOK, Becomes
<1>2. OneUserPerEmail' BY DEF SignUpInv, OneUserPerEmail
<1>3. Apart' BY <1>1 DEF SignUpInv, Apart, SigningUp, At
<1>4. Unregistered' BY <1>1 DEF SignUpInv, Unregistered, Registered, At
<1>5. QED BY <1>2, <1>3, <1>4 DEF SignUpInv

LEMMA SignUpInvClientStep ==
  ASSUME TypeInv, SignUpInv, NEW c \in Clients, ClientStep(c)
  PROVE  SignUpInv'
<1>1. ASSUME NEW r, Begin(c, r), UNCHANGED contested, r.step \notin {"check", "insert"}
      PROVE  SignUpInv'
  BY <1>1, SignUpInvOneRequest DEF Begin
<1>2. ASSUME NEW k \in Credentials, HandleCreateUser(c, k) PROVE SignUpInv'
  <2>1. /\ contested \subseteq contested'
        /\ \A d \in Clients : SigningUp(d) /\ req[d].with.email = k.email
                                => k.email \in contested'
    BY <1>2 DEF HandleCreateUser, Overlap
  <2>2. Begin(c, [Idle EXCEPT !.step = "check", !.with = k]) BY <1>2 DEF HandleCreateUser
  <2>3. QED BY <2>1, <2>2, SignUpInvOneRequest DEF Begin, Idle
<1>3. ASSUME NEW k \in Credentials, HandleAuthUser(c, k) PROVE SignUpInv'
  BY <1>1, <1>3 DEF HandleAuthUser, Idle
<1>4. CASE HandleGetUser(c) BY <1>1, <1>4 DEF HandleGetUser, Idle
<1>5. ASSUME NEW id, NEW step \in ConfigCalls \cup {"delete", "websocket"},
             BeginOwn(c, step, id)
      PROVE  SignUpInv'
  BY <1>1, <1>5 DEF BeginOwn, Idle, ConfigCalls
<1>6. QED
  BY <1>2, <1>3, <1>4, <1>5
  DEF ClientStep, HandleDeleteUser, HandleConfiguration, HandleWebsocket, ConfigCalls

(* An insertion: the address has no row and nobody else signs up for it,   *)
(* or it is contested.                                                     *)
LEMMA SignUpInvInserts ==
  ASSUME TypeInv, SignUpInv, NEW c \in Clients, Inserts(c), Answer(c), UNCHANGED contested
  PROVE  SignUpInv'
<1>1. row \in Seq(Credentials) /\ req[c].with \in Credentials /\ users \subseteq Ids
  BY DEF Inserts, At, TypeInv, TypeOK, Presented, WithCredentials
<1>2. Len(row) \in Nat /\ row'[Len(row) + 1] = req[c].with /\ \A i \in Ids : row'[i] = row[i]
  BY <1>1 DEF Inserts, Ids
<1>3. PICK n : users' = users \cup {n} /\ row'[n] = req[c].with BY <1>2 DEF Inserts
<1>4. \/ \A id \in users : row[id].email # req[c].with.email
      \/ req[c].with.email \in contested
  BY DEF Inserts, SignUpInv, Unregistered, Registered
<1>5. \A id \in users : row'[id] = row[id] BY <1>1, <1>2
<1>6. \A d \in Clients : req'[d] = IF d = c THEN Idle ELSE req[d]
  BY DEF Answer, Becomes, TypeInv, TypeOK
<1>7. OneUserPerEmail' BY <1>3, <1>4, <1>5 DEF SignUpInv, OneUserPerEmail
<1>8. Apart' BY <1>6 DEF SignUpInv, Apart, SigningUp, At, Idle
<1>9. Unregistered'
  <2> SUFFICES ASSUME NEW d \in Clients, At(d, "insert")', NEW id \in users',
                      row'[id].email = req'[d].with.email, req'[d].with.email \notin contested
               PROVE  FALSE
    BY DEF Unregistered, Registered
  <2>1. d # c /\ req'[d] = req[d] /\ At(d, "insert") BY <1>6 DEF At, Idle
  <2>2. req[d].with.email # req[c].with.email
    BY <2>1 DEF SignUpInv, Apart, SigningUp, Inserts
  <2>3. id \in users /\ row[id].email = req[d].with.email BY <1>3, <1>5, <2>1, <2>2
  <2>4. QED BY <2>1, <2>3 DEF SignUpInv, Unregistered, Registered
<1>10. QED BY <1>7, <1>8, <1>9 DEF SignUpInv

LEMMA SignUpInvService ==
  ASSUME TypeInv, SignUpInv, NEW c \in Clients,
         ServiceStep(c) \/ WebsocketEnds(c) \/ Fail(c) \/ StatementCut(c)
  PROVE  SignUpInv'
<1>0. UNCHANGED contested
  BY DEF ServiceStep, WebsocketEnds, Fail, StatementCut, StatementBegins, StatementRefused,
         CheckEnds, WriteEnds, GetEnds, ReadEnds, Ends, Compares, ConfigurationAnswers, SessionEnds
<1>1. ASSUME Answer(c), UNCHANGED row, users' \subseteq users PROVE SignUpInv'
  BY <1>0, <1>1, SignUpInvOneRequest DEF Answer, Idle
<1>2. CASE StatementBegins(c)
  BY <1>0, <1>2
  DEF StatementBegins, SignUpInv, OneUserPerEmail, Apart, Unregistered, Registered, SigningUp, At
<1>3. CASE \/ Fail(c) \/ StatementRefused(c) \/ ConfigurationAnswers(c) \/ WebsocketEnds(c)
           \/ GetEnds(c) \/ Compares(c)
  BY <1>1, <1>3
  DEF Fail, StatementRefused, ConfigurationAnswers, WebsocketEnds, GetEnds, Compares
<1>4. CASE WriteEnds(c) \/ StatementCut(c)
  <2>1. Answer(c) BY <1>4 DEF WriteEnds, StatementCut
  <2>2. CASE Inserts(c) BY <1>0, <2>1, <2>2, SignUpInvInserts
  <2>3. CASE ~Inserts(c) BY <1>1, <1>4, <2>1, <2>3 DEF WriteEnds, StatementCut, Deletes
  <2>4. QED BY <2>2, <2>3
<1>5. CASE CheckEnds(c)
  <2>1. At(c, "check") /\ UNCHANGED <<row, users>> BY <1>5 DEF CheckEnds, Ends
  <2>2. CASE Registered(c) = {} /\ Becomes(c, [req[c] EXCEPT !.step = "insert"])
    <3> DEFINE r == [req[c] EXCEPT !.step = "insert"]
    <3>1. r.with = req[c].with BY DEF TypeInv, TypeOK
    <3>2. \A id \in users : row[id].email # r.with.email BY <2>2, <3>1 DEF Registered
    <3>3. \A d \in Clients \ {c} : SigningUp(d) /\ req[d].with.email = r.with.email
                                   => r.with.email \in contested
      BY <2>1, <3>1 DEF SignUpInv, Apart, SigningUp
    <3> HIDE DEF r
    <3>4. Becomes(c, r) BY <2>2 DEF r
    <3>5. QED BY <1>0, <2>1, <3>2, <3>3, <3>4, SignUpInvOneRequest
  <2>3. QED BY <1>1, <1>5, <2>1, <2>2 DEF CheckEnds
<1>6. CASE ReadEnds(c)
  <2>1. UNCHANGED <<row, users>> BY <1>6 DEF ReadEnds
  <2>2. ASSUME NEW id, Becomes(c, [req[c] EXCEPT !.step = "compare", !.id = id])
        PROVE  SignUpInv'
    <3>1. [req[c] EXCEPT !.step = "compare", !.id = id].step = "compare"
      BY DEF TypeInv, TypeOK
    <3>2. QED BY <1>0, <2>1, <2>2, <3>1, SignUpInvOneRequest
  <2>3. QED BY <1>1, <1>6, <2>1, <2>2 DEF ReadEnds
<1>7. CASE SessionEnds(c)
  <2>1. Becomes(c, [Idle EXCEPT !.step = "lingering"]) /\ UNCHANGED <<row, users>>
    BY <1>7 DEF SessionEnds
  <2>2. QED BY <1>0, <2>1, SignUpInvOneRequest DEF Idle
<1>8. QED BY <1>2, <1>3, <1>4, <1>5, <1>6, <1>7 DEF ServiceStep

LEMMA SignUpInvAlone ==
  ASSUME TypeInv, SignUpInv, ConnectionLost \/ Restart \/ Tick \/ UNCHANGED vars
  PROVE  SignUpInv'
<1>1. UNCHANGED <<row, users, contested>> BY DEF ConnectionLost, Restart, Tick, vars
<1>2. \A c \in Clients : req'[c] = req[c] \/ req'[c] = Idle
  BY DEF ConnectionLost, Restart, Tick, vars, TypeInv, TypeOK
<1>3. QED
  BY <1>1, <1>2
  DEF SignUpInv, OneUserPerEmail, Apart, Unregistered, Registered, SigningUp, At, Idle

(* An address has two accounts only if two sign-ups for it overlapped: not *)
(* after lost answers, cut statements, restarts, deletions and new         *)
(* sign-ups, however often they happen.                                    *)
THEOREM OneUserPerEmailAlways == Spec => []OneUserPerEmail
<1>1. Init => SignUpInv
  BY DEF Init, SignUpInv, OneUserPerEmail, Apart, Unregistered, SigningUp, At, Idle
<1>2. TypeInv /\ SignUpInv /\ [Next]_vars => SignUpInv'
  BY SignUpInvClientStep, SignUpInvService, SignUpInvAlone DEF Next
<1>3. SignUpInv => OneUserPerEmail BY DEF SignUpInv
<1>4. QED BY <1>1, <1>2, <1>3, TypeInvAlways, PTL DEF Spec
=============================================================================
