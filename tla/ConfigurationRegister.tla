----------------------- MODULE ConfigurationRegister ------------------------
(***************************************************************************)
(* What the configuration service promises (common/api/config.proto): one  *)
(* configuration per user, and requests that take effect atomically, in    *)
(* some order, between call and reply.  A request that is answered with an *)
(* error may still have had its effect (its answer was lost).              *)
(*                                                                         *)
(* A secret is readable under the key it was written with: under another   *)
(* one the configuration is refused (OpenAI key) or shows it empty.        *)
(*                                                                         *)
(* The promise is to users whose writes do not overlap; the others are     *)
(* "free", and nothing is said of their configurations.                    *)
(***************************************************************************)
CONSTANTS Requests, Calls, Keys, Fields, Secrets, Unset, NoCall

VARIABLES configs,  \* the configuration of each user that has one
          key,      \* the encryption key in use
          call,     \* call[r]: what request r asks
          reply,    \* reply[r]: its status, and the configuration a get returns
          free      \* the users that had two writes pending

vars == <<configs, key, call, reply, free>>

Empty == [f \in Fields |-> Unset]

Init ==
  /\ configs = [u \in {} |-> Empty]
  /\ key \in Keys
  /\ call = [r \in Requests |-> NoCall]
  /\ reply = [r \in Requests |-> [status |-> "none", config |-> Empty]]
  /\ free = {}

Pending(r) == call[r] # NoCall /\ reply[r].status = "none"
Exists(u)  == u \in DOMAIN configs

Answer(r, status, config) ==
  reply' = [reply EXCEPT ![r] = [status |-> status, config |-> config]]

Keep(users) == configs' = [u \in users |-> configs[u]]

Overlaps(c) ==
  \E q \in Requests :
    Pending(q) /\ call[q].user = c.user /\ "get" \notin {c.kind, call[q].kind}

Invoke(r) ==
  /\ call[r] = NoCall
  /\ \E c \in Calls :
       /\ call' = [call EXCEPT ![r] = c]
       /\ free' = free \cup {u \in {c.user} : Overlaps(c)}
  /\ Keep(DOMAIN configs \ free')
  /\ UNCHANGED <<key, reply>>

Set(u, config) ==
  configs' = [v \in DOMAIN configs \cup {u} |-> IF v = u THEN config ELSE configs[v]]

Create(r) ==
  /\ call[r].kind = "create"
  /\ ~Exists(call[r].user)
  /\ Set(call[r].user, Empty)

Update(r) ==
  LET u == call[r].user IN
  /\ call[r].kind = "update"
  /\ Exists(u)
  /\ Set(u, [f \in Fields |-> IF f \in call[r].sets THEN [by |-> r, key |-> key]
                              ELSE configs[u][f]])

Delete(r) ==
  /\ call[r].kind = "delete"
  /\ Exists(call[r].user)
  /\ Keep(DOMAIN configs \ {call[r].user})

Change(r) ==
  /\ Pending(r)
  /\ IF call[r].user \in free THEN UNCHANGED configs
     ELSE Create(r) \/ Update(r) \/ Delete(r)
  /\ \E status \in {"ok", "error"} : Answer(r, status, Empty)
  /\ UNCHANGED <<key, call, free>>

Readable(f, v) == v # Unset /\ (f \in Secrets => v.key = key)

Shown(config) ==
  [f \in Fields |-> IF Readable(f, config[f]) THEN config[f].by ELSE Unset]

Get(r) ==
  /\ Pending(r)
  /\ call[r].kind = "get"
  /\ IF call[r].user \in free
     THEN \E config \in [Fields -> Requests \cup {Unset}] : Answer(r, "ok", config)
     ELSE LET config == configs[call[r].user]
              secret == config["open_ai_key"]
          IN  /\ Exists(call[r].user)
              /\ secret = Unset \/ Readable("open_ai_key", secret)
              /\ Answer(r, "ok", Shown(config))
  /\ UNCHANGED <<configs, key, call, free>>

Refuse(r) ==
  /\ Pending(r)
  /\ Answer(r, "error", Empty)
  /\ UNCHANGED <<configs, key, call, free>>

Restart ==
  /\ key' \in Keys
  /\ reply' = [r \in Requests |->
                 IF Pending(r) THEN [reply[r] EXCEPT !.status = "error"] ELSE reply[r]]
  /\ UNCHANGED <<configs, call, free>>

Next == (\E r \in Requests : Invoke(r) \/ Change(r) \/ Get(r) \/ Refuse(r)) \/ Restart

Spec == Init /\ [][Next]_vars
=============================================================================
