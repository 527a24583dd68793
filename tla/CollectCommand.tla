--------------------------- MODULE CollectCommand ---------------------------
(***************************************************************************)
(* collect (arb-app ingest.rs): a range of blocks, each put together by    *)
(* fetch_block from five answers of the node (rpc.rs), and written by a    *)
(* thread that the command waits for.  One command works on the database   *)
(* at a time, again and again, with any range.                             *)
(***************************************************************************)
EXTENDS NodeReads

VARIABLES
  raw,      \* raw_records: the bundle of a block, by block
  cursor,   \* the "rpc" row of source_cursors
  gaps,     \* ingest_gaps with resolved = 0
  first,    \* history: the height of the first block that was stored
  pc,       \* where collect is
  number,   \* the height it collects
  to,       \* the last one it was asked for
  last,     \* last_hash
  block, receipts, logs   \* the answers of fetch_block

tables == <<raw, cursor, gaps, first>>
answers == <<block, receipts, logs>>
own == <<pc, number, to, last, answers>>
vars == <<node, tables, own>>

\* "idle": no command runs.  Then the answer that is awaited, or the writer.
Control == {"idle", "block", "receipts", "logs", "end", "gap", "batch"}

Cursor == [next : Nat, hash : Block]

ASSUME CursorAssumption == None \notin Cursor

TypeOK ==
  /\ NodeTypeOK
  /\ raw \in [Block -> Bundle \cup {None}]
  /\ cursor = None \/ cursor \in Cursor
  /\ gaps \subseteq Height
  /\ first \in Height \cup {None}
  /\ pc \in Control
  /\ number \in Height /\ to \in Height /\ number <= to
  /\ last \in Block \cup {None}
  /\ block \in Block \cup {None}
  /\ [receipts |-> receipts, logs |-> logs] \in Bundle

Init ==
  /\ NodeInit
  /\ raw = [b \in Block |-> None] /\ cursor = None /\ gaps = {} /\ first = None
  /\ pc = "idle" /\ number = 0 /\ to = 0 /\ last = None
  /\ block = None /\ receipts = {} /\ logs = {}

-----------------------------------------------------------------------------
Forgets ==
  /\ number' = 0 /\ to' = 0 /\ last' = None
  /\ block' = None /\ receipts' = {} /\ logs' = {}

Ends == pc' = "idle" /\ Forgets

\* The stored cursor decides where a command begins; one that would skip blocks is
\* refused, and one that has them all ends at once.
Run ==
  /\ pc = "idle"
  /\ \E from, end \in Height :
       /\ from <= end
       /\ cursor # None => from <= cursor.next /\ cursor.next <= end
       /\ pc' = "block" /\ to' = end
       /\ number' = IF cursor = None THEN from ELSE cursor.next
       /\ last' = IF cursor = None THEN None ELSE cursor.hash
  /\ UNCHANGED <<node, tables, answers>>

-----------------------------------------------------------------------------
(* fetch_block, one request after the other                                *)

AskBlock ==
  /\ pc = "block"
  /\ Reaches(number)
  /\ block' = Canonical(number)
  /\ pc' = "receipts"
  /\ UNCHANGED <<node, tables, number, to, last, receipts, logs>>

\* By number: the receipts may be those of another branch, or too few.
AskReceipts ==
  /\ pc = "receipts"
  /\ Reaches(number)
  /\ receipts' \in SUBSET ReceiptsOf(Canonical(number))
  /\ pc' = "logs"
  /\ UNCHANGED <<node, tables, number, to, last, block, logs>>

\* By hash: the node may know the block, only some of its logs, or none.
AskLogs ==
  /\ pc = "logs"
  /\ logs' \in SUBSET LogsOf(block)
  /\ pc' = IF Valid(block, receipts, logs') THEN "end" ELSE "gap"
  /\ UNCHANGED <<node, tables, number, to, last, block, receipts>>

\* mutant: the bundle need not continue the last one.
AskEnd_NoParent ==
  /\ pc = "end"
  /\ Reaches(number)
  /\ pc' = IF Canonical(number) = block THEN "batch" ELSE "gap"
  /\ UNCHANGED <<node, tables, number, to, last, answers>>

\* mutant: a block that is no longer the node's own is asked for again.
AskEnd_Again ==
  /\ pc = "end"
  /\ Reaches(number)
  /\ IF Canonical(number) # block
       THEN pc' = "block"
       ELSE pc' = IF last # None => Parent(block) = last THEN "batch" ELSE "gap"
  /\ UNCHANGED <<node, tables, number, to, last, answers>>

\* The block is still the node's own, and continues what was collected.
AskEnd ==
  /\ pc = "end"
  /\ Reaches(number)
  /\ pc' = IF /\ Canonical(number) = block
              /\ last # None => Parent(block) = last
             THEN "batch" ELSE "gap"
  /\ UNCHANGED <<node, tables, number, to, last, answers>>

\* No answer after the last retry, an error, or a height the node does not have.
AskFails ==
  /\ pc \in {"block", "receipts", "logs", "end"}
  /\ pc' = "gap"
  /\ UNCHANGED <<node, tables, number, to, last, answers>>

-----------------------------------------------------------------------------
(* The writer                                                              *)

\* mutant: the gap stays open.
AppendRaw_GapStays(b) ==
  /\ raw' = [raw EXCEPT ![b] = [receipts |-> receipts, logs |-> logs]]
  /\ cursor' = [next |-> Number(b) + 1, hash |-> b]
  /\ first' = IF first = None THEN Number(b) ELSE first
  /\ UNCHANGED gaps

\* append_raw: the bundle, the cursor and the gap it closes, in one transaction.
AppendRaw(b) ==
  /\ cursor # None => cursor.next <= Number(b) + 1
  /\ raw' = [raw EXCEPT ![b] = [receipts |-> receipts, logs |-> logs]]
  /\ cursor' = [next |-> Number(b) + 1, hash |-> b]
  /\ gaps' = gaps \ {Number(b)}
  /\ first' = IF first = None THEN Number(b) ELSE first

WriteBatch ==
  /\ pc = "batch"
  /\ AppendRaw(block)
  /\ IF number < to
       THEN /\ pc' = "block" /\ number' = number + 1 /\ last' = block
            /\ block' = None /\ receipts' = {} /\ logs' = {}
            /\ UNCHANGED to
       ELSE Ends
  /\ UNCHANGED node

\* record_gap; the command then ends with the error.
WriteGap ==
  /\ pc = "gap"
  /\ gaps' = gaps \cup {number}
  /\ Ends
  /\ UNCHANGED <<node, raw, cursor, first>>

\* A refused write, or the process is killed: nothing of the transaction stays.
Crash ==
  /\ pc # "idle"
  /\ Ends
  /\ UNCHANGED <<node, tables>>

-----------------------------------------------------------------------------
Command ==
  \/ AskBlock \/ AskReceipts \/ AskLogs \/ AskEnd \/ AskFails
  \/ WriteBatch \/ WriteGap

Next ==
  \/ NodeMoves /\ UNCHANGED <<tables, own>>
  \/ Run \/ Command \/ Crash

Spec == Init /\ [][Next]_vars

\* Every request has a timeout and a limit of retries, every write ends or is refused.
LiveSpec == Spec /\ WF_vars(Command)

-----------------------------------------------------------------------------
(* Properties                                                              *)

Stored == {b \in Block : raw[b] # None}

\* However the node switches between the five requests of fetch_block, and whatever
\* it leaves out of an answer, a stored bundle is all of one block's.
BundleIsOneBlock == \A b \in Stored : raw[b] = BundleOf(b)

\* Over any number of commands, ranges, crashes and switches of the node, the stored
\* blocks are one branch without holes, and the cursor is its end.
StoredIsOneBranch ==
  IF cursor = None THEN Stored = {}
  ELSE /\ cursor.next = Number(cursor.hash) + 1
       /\ Stored = {BlockAt(cursor.hash, n) : n \in first .. Number(cursor.hash)}

\* A gap is open only for a height that was not collected.
OpenGapsAreMissing == \A b \in Stored : Number(b) \notin gaps

\* A command that failed left a gap, or the height it failed at is still the next:
\* no later step passes a gap over, moves the cursor back or touches a bundle.
CollectedStays ==
  [][/\ \A b \in Stored : raw'[b] = raw[b]
     /\ \A g \in gaps \ gaps' : \E b \in Block : Number(b) = g /\ raw[b] = None /\ raw'[b] # None
     /\ cursor # None => cursor'.next \in {cursor.next, cursor.next + 1}]_tables

\* A command ends, also when the node does not stop switching.
EveryCommandEnds == pc # "idle" ~> pc = "idle"

=============================================================================
