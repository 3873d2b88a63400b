---------------------------- MODULE AgentFactory ----------------------------
(***************************************************************************)
(* What create_agent_for_user (agent/models/create_agent.py) does to the   *)
(* whole process, added to the steps of AgentService: it sets the default  *)
(* OpenAI key, if the configuration has one, and the hand-offs of the one  *)
(* agent object that every conversation gets.  A run of the model reads    *)
(* both when it calls the model, some time after its message arrived.      *)
(***************************************************************************)
EXTENDS AgentService

VARIABLES
  default_key,  \* whose OpenAI key is the default, NoUser: the environment's
  handoffs,     \* gateway_agent.handoffs
  configured,   \* configured[u]: the configuration the agent of u was made from
  called_with   \* called_with[s]: key and hand-offs the run of s calls the model
                \* with; those of its user's agent before the call

factoryVars == <<default_key, handoffs, configured, called_with>>

(* A configuration, as far as the agent depends on it.                     *)
Configurations == [has_key : BOOLEAN, handoffs : SUBSET {"calendar"}]

NoAgent == [has_key |-> FALSE, handoffs |-> {}]
NotYet  == [key |-> NoUser, handoffs |-> {"not yet"}]

FactoryInit ==
  /\ Init
  /\ default_key = NoUser /\ handoffs = {}
  /\ configured = [u \in Users |-> NoAgent]
  /\ called_with = [s \in Streams |-> NotYet]

CreateAgent(u, config) ==
  /\ default_key' = IF config.has_key THEN u ELSE default_key
  /\ handoffs' = config.handoffs
  /\ configured' = [configured EXCEPT ![u] = config]

(* _initialize_agent calls the factory on the loop thread, with nothing in *)
(* between.                                                                *)
InitializeCreates(s) ==
  /\ InitializeSucceeds(s)
  /\ \E config \in Configurations : CreateAgent(user_id[s], config)
  /\ UNCHANGED called_with

(* Runner.run makes its client, with the default key of that moment, and   *)
(* looks at the agent's hand-offs.                                         *)
ModelCalled(s) ==
  /\ pc[s] = "run"
  /\ called_with[s] = NotYet
  /\ called_with' = [called_with EXCEPT ![s] = [key |-> default_key, handoffs |-> handoffs]]
  /\ UNCHANGED <<vars, default_key, handoffs, configured>>

(* Every other step of the agent service; a run calls the model before it  *)
(* returns.                                                                *)
OtherStep ==
  /\ Next
  /\ \A s \in Streams : own'[s] \in {0, own[s]}
  /\ called_with' = [s \in Streams |-> IF pc'[s] = "run" THEN called_with[s] ELSE NotYet]
  /\ UNCHANGED <<default_key, handoffs, configured>>

FactoryNext ==
  \/ \E s \in Streams : InitializeCreates(s) \/ ModelCalled(s)
  \/ OtherStep

FactorySpec == FactoryInit /\ [][FactoryNext]_<<vars, factoryVars>>

(* The agent created for a user works with the key and the hand-offs of    *)
(* that user's configuration.                                              *)
AgentIsTheUsers ==
  \A s \in Streams : called_with[s] # NotYet =>
    LET config == configured[user_id[s]] IN
    /\ config.has_key => called_with[s].key = user_id[s]
    /\ called_with[s].handoffs = config.handoffs
=============================================================================
