---------------------------- MODULE NodeClients ----------------------------
(***************************************************************************)
(* The readers of the node that ask several questions for one answer:      *)
(* collect, a run's bootstrap, a simulation, and the facts of a wallet.    *)
(* Each is a command, or a worker's task, that shares nothing but the node *)
(* with the others: a behaviour has one of them.                           *)
(***************************************************************************)
EXTENDS CollectCommand, BootstrapRead, NodeQueries

VARIABLE client

collection == <<tables, own>>
clientVars == <<node, collection, run, queries, client>>

Client == {"collect", "run", "simulation", "wallet"}

\* The type of every variable.
ClientTypeOK == TypeOK /\ BootstrapTypeOK /\ QueryTypeOK /\ client \in Client

ClientInit == Init /\ BootstrapInit /\ QueryInit /\ client \in Client

Collecting(step) == client = "collect" /\ step /\ UNCHANGED <<run, queries, client>>

ClientNext ==
  \/ NodeMoves /\ UNCHANGED <<collection, run, queries, client>>
  \/ Collecting(Run) \/ Collecting(Command) \/ Collecting(Crash)
  \/ client = "run" /\ (Runs \/ Bootstrap) /\ UNCHANGED <<collection, queries, client>>
  \/ client = "simulation" /\ Simulating /\ UNCHANGED <<collection, run, client>>
  \/ client = "wallet" /\ WalletFacts /\ UNCHANGED <<collection, run, client>>

ClientSpec == ClientInit /\ [][ClientNext]_clientVars

\* Every request of collect has a timeout and a limit of retries, every write ends or is
\* refused.
LiveClientSpec == ClientSpec /\ WF_clientVars(Collecting(Command))

=============================================================================
