---------------------------- MODULE NodeQueries ----------------------------
(***************************************************************************)
(* The two queries that are made of several requests: simulate, of a       *)
(* candidate on the block it was found on (arb-adapters simulation.rs),    *)
(* and wallet_facts, of what a transaction did (wallet.rs).  The simulated *)
(* call and the balances are asked for by block number; only hashes that   *)
(* come back tell which branch they are of.                                *)
(***************************************************************************)
EXTENDS NodeReads

CONSTANTS
  Fares,     \* how the candidate's call ends on the state of each block
  Tx         \* transactions asked about

VARIABLES
  stage,     \* the answer the simulation or the query waits for
  base,      \* simulate: the candidate's block
  reply,     \* simulate: what the node answered
  simulation,\* what simulate returned last
  tx,        \* wallet_facts: the transaction
  position,  \* wallet_facts: the block of its receipt
  balances,  \* wallet_facts: the blocks the two balances of each asset are of
  facts      \* what wallet_facts returned last

queryVars == <<stage, base, reply, tx, position, balances>>
queries == <<queryVars, simulation, facts>>

Stage == {"idle", "header", "code", "call", "end",
          "transaction", "receipt", "header of it", "parent",
          "before", "after", "wallet code", "final parent", "final header"}
Outcome == {"Succeeded", "Reverted"}
Side == {"before", "after"}

ASSUME QueryAssumption == Fares \in [Block -> Outcome] /\ None \notin Tx

QueryTypeOK ==
  /\ stage \in Stage
  /\ base \in Block \cup {None} /\ position \in Block \cup {None}
  /\ reply = None \/ reply \in [parent : Block, outcome : Outcome]
  /\ simulation = None
     \/ simulation \in [position : Block, outcome : Outcome \cup {"Unknown", "Unavailable"}]
  /\ tx \in Tx \cup {None}
  /\ balances \in [Side -> SUBSET Block]
  /\ facts = None \/ facts \in [tx : Tx, position : Block, balances : [Side -> SUBSET Block]]
  /\ (stage = "idle") = (base = None /\ tx = None)

Forget ==
  /\ stage' = "idle" /\ base' = None /\ reply' = None
  /\ tx' = None /\ position' = None /\ balances' = [s \in Side |-> {}]

QueryInit ==
  /\ stage = "idle" /\ base = None /\ reply = None /\ simulation = None
  /\ tx = None /\ position = None /\ balances = [s \in Side |-> {}] /\ facts = None

At(n) == IF Reaches(n) THEN Canonical(n) ELSE None

-----------------------------------------------------------------------------
(* simulate                                                                *)

\* SimulationTransportError::outcome: the node cannot, or nobody knows.
SimulationEnds(outcome) ==
  /\ simulation' = [position |-> base, outcome |-> outcome]
  /\ Forget
  /\ UNCHANGED <<node, facts>>

\* A worker takes a candidate; its block may have left the node's branch since.
Simulate ==
  /\ stage = "idle"
  /\ base' \in {b \in Block : Number(b) > 0}
  /\ stage' = "header"
  /\ UNCHANGED <<node, reply, tx, position, balances, simulation, facts>>

SimulationHeader ==
  /\ stage = "header"
  /\ IF At(Number(base)) = base
       THEN /\ stage' = "code"
            /\ UNCHANGED <<node, base, reply, tx, position, balances, simulation, facts>>
       ELSE SimulationEnds("Unknown")

\* The code of the contracts and the emptiness of the probe's addresses, at the number;
\* a node that has no such block answers with an error.
SimulationCode ==
  /\ stage = "code"
  /\ IF Reaches(Number(base))
       THEN /\ stage' = "call"
            /\ UNCHANGED <<node, base, reply, tx, position, balances, simulation, facts>>
       ELSE SimulationEnds("Unavailable")

\* eth_simulateV1 on top of the block of that number.
SimulationCall ==
  /\ stage = "call"
  /\ IF Reaches(Number(base))
       THEN LET b == Canonical(Number(base)) IN
            /\ reply' = [parent |-> b, outcome |-> Fares[b]]
            /\ stage' = "end"
            /\ UNCHANGED <<node, base, tx, position, balances, simulation, facts>>
       ELSE SimulationEnds("Unavailable")

\* mutant: what the call was made on is not looked at.
Parsed_AnyParent(b) == TRUE

\* parse_result: the simulated block is the child of the candidate's, and its calls,
\* logs and balances fit together.
Parsed(b) == reply.parent = b

SimulationEnd ==
  /\ stage = "end"
  /\ SimulationEnds(IF At(Number(base)) = base /\ Parsed(base) THEN reply.outcome ELSE "Unknown")

\* A request fails or its answer cannot be parsed.
SimulationFails ==
  /\ base # None
  /\ \E outcome \in {"Unknown", "Unavailable"} : SimulationEnds(outcome)

Simulating ==
  Simulate \/ SimulationHeader \/ SimulationCode \/ SimulationCall \/ SimulationEnd
    \/ SimulationFails

-----------------------------------------------------------------------------
(* wallet_facts                                                            *)

\* Where the node has the transaction; a branch may have it at another height.
BlockOf(t) == {BlockAt(head, n) : n \in {m \in 1 .. Number(head) : t \in Transactions[BlockAt(head, m)]}}

WalletFails ==
  /\ tx # None
  /\ Forget
  /\ UNCHANGED <<node, simulation, facts>>

AskFacts ==
  /\ stage = "idle"
  /\ tx' \in Tx
  /\ stage' = "transaction"
  /\ UNCHANGED <<node, base, reply, position, balances, simulation, facts>>

AskTransaction ==
  /\ stage = "transaction"
  /\ position' \in BlockOf(tx)
  /\ stage' = "receipt"
  /\ UNCHANGED <<node, base, reply, tx, balances, simulation, facts>>

\* A step of the query that only goes on to the next request.
WalletAsks(now, next) ==
  /\ stage = now
  /\ stage' = next
  /\ UNCHANGED <<node, base, reply, tx, position, balances, simulation, facts>>

\* The receipt and the transaction name one block.
AskReceipt == WalletAsks("receipt", "header of it") /\ position \in BlockOf(tx)

\* The header of that block and the one before it: the node may move between the two.
AskHeader == WalletAsks("header of it", "parent") /\ At(Number(position)) = position
AskParent == WalletAsks("parent", "before") /\ At(Number(position) - 1) = Parent(position)

\* The balances of each asset, before the block and after it; the asset is left out.
AskBalance(side) ==
  /\ stage = side
  /\ LET n == Number(position) - (IF side = "before" THEN 1 ELSE 0) IN
     /\ Reaches(n)
     /\ balances' = [balances EXCEPT ![side] = @ \cup {Canonical(n)}]
  /\ stage' \in IF side = "before" THEN {"after"} ELSE {"before", "wallet code"}
  /\ UNCHANGED <<node, base, reply, tx, position, simulation, facts>>

AskCode == WalletAsks("wallet code", "final parent") /\ Reaches(Number(position))

\* Both headers again.
FinalParent ==
  /\ WalletAsks("final parent", "final header")
  /\ At(Number(position) - 1) = Parent(position)

FinalHeader ==
  /\ stage = "final header"
  /\ At(Number(position)) = position
  /\ facts' = [tx |-> tx, position |-> position, balances |-> balances]
  /\ Forget
  /\ UNCHANGED <<node, simulation>>

WalletFacts ==
  AskFacts \/ AskTransaction \/ AskReceipt \/ AskHeader \/ AskParent
    \/ (\E side \in Side : AskBalance(side)) \/ AskCode \/ FinalParent \/ FinalHeader
    \/ WalletFails

-----------------------------------------------------------------------------
(* Properties                                                              *)

\* A simulation that succeeded or reverted did so on the block of its candidate, whatever
\* the node does between the requests, also if it comes back: the reply says what it is of.
SimulationIsOfItsBlock ==
  simulation # None /\ simulation.outcome \in Outcome =>
    simulation.outcome = Fares[simulation.position]

\* The facts of a transaction are of one block and its parent, which has it, as long as
\* the node does not come back to a branch it left.
FactsAreOfOneBlock ==
  ~returns /\ facts # None =>
    /\ facts.tx \in Transactions[facts.position]
    /\ facts.balances = [side \in Side |->
         IF side = "after" THEN {facts.position} ELSE {Parent(facts.position)}]

\* What the two queries return is of one block.
AnswersAreOfOneBlock == SimulationIsOfItsBlock /\ FactsAreOfOneBlock

=============================================================================
