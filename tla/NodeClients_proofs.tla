------------------------- MODULE NodeClients_proofs -------------------------
(***************************************************************************)
(* What the readers of the node return, proved for any tree of blocks and  *)
(* any node.  The argument is one for all of them: a node that does not    *)
(* come back keeps, in left, the blocks it left.  A block whose header was *)
(* seen is on the node's branch or in left ever after, so a second look    *)
(* that finds it says that every answer in between was of its branch.      *)
(***************************************************************************)
EXTENDS NodeClients, ForkTree_proofs

-----------------------------------------------------------------------------
(* collect: what its command and its bundles keep                          *)

(***************************************************************************)
(* Lemmas about the bundle and the branch                                  *)
(***************************************************************************)

\* Receipts that are all of one block and pass validate_block with its logs are the
\* whole bundle of that block.
LEMMA ValidIsWhole ==
  ASSUME NEW b \in Block, NEW c \in Block,
         NEW rs \in SUBSET ReceiptsOf(c), NEW ls, Valid(b, rs, ls)
  PROVE  [receipts |-> rs, logs |-> ls] = BundleOf(b)
<1>1. ASSUME NEW r \in rs
      PROVE  r.block = b /\ r = Receipt(b, r.tx) /\ r.tx \in Transactions[b]
             /\ (r.logs <=> r.tx \in Logging[b])
  <2>1. PICK t \in Transactions[c] : r = Receipt(c, t)
    BY DEF ReceiptsOf
  <2>2. r.block = c /\ r.tx = t /\ r.logs = (t \in Logging[c])
    BY <2>1 DEF Receipt
  <2>3. r.block = b /\ r.tx \in Transactions[b]
    BY DEF Valid
  <2>4. QED  BY <2>1, <2>2, <2>3
<1>2. ASSUME NEW t \in Transactions[b]
      PROVE  Receipt(b, t) \in rs
  <2>1. PICK r \in rs : r.tx = t
    BY DEF Valid
  <2>2. QED  BY <2>1, <1>1
<1>3. rs = ReceiptsOf(b)
  BY <1>1, <1>2 DEF ReceiptsOf
<1>4. ls = LogsOf(b)
  <2>1. ASSUME NEW l \in ls  PROVE l \in LogsOf(b)
    <3>1. PICK r \in rs : r.logs /\ l = Log(r.block, r.tx)
      BY DEF Valid
    <3>2. QED  BY <3>1, <1>1 DEF LogsOf
  <2>2. ASSUME NEW t \in Logging[b]  PROVE Log(b, t) \in ls
    <3>1. t \in Transactions[b]
      BY NodeAssumption
    <3>2. Receipt(b, t) \in rs /\ Receipt(b, t).logs /\ Receipt(b, t).block = b
          /\ Receipt(b, t).tx = t
      BY <3>1, <1>2 DEF Receipt
    <3>3. QED  BY <3>2 DEF Valid
  <2>3. QED  BY <2>1, <2>2 DEF LogsOf
<1>5. QED  BY <1>3, <1>4 DEF BundleOf

\* The bundle of a block is a bundle.
LEMMA BundleOfIsBundle ==
  ASSUME NEW b \in Block
  PROVE  BundleOf(b) \in Bundle
BY DEF BundleOf, Bundle

\* A block is at its own height, and below it its ancestors are its parent's.
LEMMA BranchFacts ==
  ASSUME NEW b \in Block
  PROVE  /\ BlockAt(b, Number(b)) = b
         /\ Number(b) # 0 => /\ Number(Parent(b)) = Number(b) - 1
                             /\ \A n \in 0 .. Number(b) - 1 : BlockAt(b, n) = BlockAt(Parent(b), n)
<1>1. b \in Seq(Nat) /\ Number(b) = Len(b) /\ Len(b) \in Nat /\ Parent(b) \in Block
  BY BlockFacts DEF Number
<1>2. BlockAt(b, Number(b)) = b
  BY <1>1, BlockAtFacts, OnChainOrder
<1>3. ASSUME Number(b) # 0
      PROVE  /\ Number(Parent(b)) = Number(b) - 1
             /\ \A n \in 0 .. Number(b) - 1 : BlockAt(b, n) = BlockAt(Parent(b), n)
  <2>1. Number(b) - 1 \in 0 .. Number(b) /\ Parent(b) = BlockAt(b, Number(b) - 1)
    BY <1>1, <1>3 DEF Parent, BlockAt, Number
  <2>2. Number(Parent(b)) = Number(b) - 1 /\ OnChain(Parent(b), b)
    BY <2>1, BlockAtFacts
  <2>3. ASSUME NEW n \in 0 .. Number(b) - 1
        PROVE  BlockAt(b, n) = BlockAt(Parent(b), n)
    <3>1. n \in 0 .. Number(Parent(b)) /\ n \in 0 .. Number(b)
      BY <1>1, <2>2
    <3>2. /\ BlockAt(Parent(b), n) \in Block /\ Number(BlockAt(Parent(b), n)) = n
          /\ OnChain(BlockAt(Parent(b), n), Parent(b))
      BY <1>1, <3>1, BlockAtFacts
    <3>3. OnChain(BlockAt(Parent(b), n), b)
      BY <1>1, <2>2, <3>2, OnChainTransitive
    <3>4. QED  BY <3>1, <3>2, <3>3, BlockAtFacts
  <2>4. QED  BY <2>2, <2>3
<1>4. QED  BY <1>2, <1>3

\* The heights of the tree have no holes.
LEMMA HeightFacts ==
  /\ Height \subseteq Nat /\ 0 \in Height
  /\ \A m \in Height, n \in Nat : n <= m => n \in Height
<1>1. Height \subseteq Nat
  BY BlockFacts DEF Height
<1>2. ASSUME NEW m \in Height, NEW n \in Nat, n <= m
      PROVE  n \in Height
  <2>1. PICK b \in Block : m = Number(b)
    BY DEF Height
  <2>2. n \in 0 .. Number(b) /\ Number(b) \in Nat
    BY <1>2, <2>1, BlockFacts
  <2>3. BlockAt(b, n) \in Block /\ Number(BlockAt(b, n)) = n
    BY <2>2, BlockAtFacts
  <2>4. QED  BY <2>3 DEF Height
<1>3. 0 \in Height
  <2>1. <<>> \in Block /\ Number(<<>>) = 0
    BY BlockAssumption DEF Number
  <2>2. QED  BY <2>1 DEF Height
<1>4. QED  BY <1>1, <1>2, <1>3

\* What the node answers about a height it has.
LEMMA AnswerFacts ==
  ASSUME TypeOK, Reaches(number)
  PROVE  /\ Canonical(number) \in Block /\ Number(Canonical(number)) = number
         /\ number \in Nat
<1>1. head \in Block /\ number \in Height
  BY DEF TypeOK, NodeTypeOK
<1>2. number \in Nat /\ Number(head) \in Nat
  BY <1>1, HeightFacts, BlockFacts
<1>3. number \in 0 .. Number(head)
  BY <1>2 DEF Reaches
<1>4. QED  BY <1>1, <1>2, <1>3, BlockAtFacts DEF Canonical

(***************************************************************************)
(* The inductive invariant                                                 *)
(***************************************************************************)

\* What the answers that were taken so far agree on.
FetchInv ==
  /\ pc \in {"receipts", "logs", "end", "batch"} => block \in Block /\ Number(block) = number
  /\ pc \in {"logs", "end", "batch"} => \E c \in Block : receipts \subseteq ReceiptsOf(c)
  /\ pc \in {"end", "batch"} => Valid(block, receipts, logs)
  /\ pc = "batch" => (last # None => Parent(block) = last)

\* The command goes on where the cursor is.
ContinueInv ==
  pc # "idle" =>
    /\ cursor = None => last = None
    /\ cursor # None => last = cursor.hash /\ number = cursor.next

StoreInv ==
  /\ BundleIsOneBlock /\ StoredIsOneBranch /\ OpenGapsAreMissing
  /\ cursor = None <=> first = None
  /\ cursor # None => first \in 0 .. Number(cursor.hash)

Inv == TypeOK /\ FetchInv /\ ContinueInv /\ StoreInv

\* An empty command is idle.
LEMMA ForgottenIsTyped ==
  /\ 0 \in Height /\ 0 <= 0
  /\ [receipts |-> {}, logs |-> {}] \in Bundle
BY HeightFacts DEF Bundle

\* The initial states satisfy the invariant.
LEMMA InitInv == Init => Inv
<1> SUFFICES ASSUME Init  PROVE Inv
  OBVIOUS
<1> USE DEF Init, NodeInit
<1>1. TypeOK
  BY ForgottenIsTyped, BlockAssumption DEF TypeOK, NodeTypeOK, Control
<1>2. FetchInv /\ ContinueInv
  BY DEF FetchInv, ContinueInv
<1>3. StoreInv
  BY DEF StoreInv, BundleIsOneBlock, StoredIsOneBranch, OpenGapsAreMissing, Stored
<1>4. QED  BY <1>1, <1>2, <1>3 DEF Inv

\* A step that leaves the tables alone.
LEMMA TablesKept ==
  ASSUME StoreInv, UNCHANGED tables
  PROVE  StoreInv'
BY DEF StoreInv, BundleIsOneBlock, StoredIsOneBranch, OpenGapsAreMissing, Stored, tables

\* A command that ends keeps the types and leaves nothing to agree on.
LEMMA EndsKeepsOwn ==
  ASSUME TypeOK, Ends
  PROVE  /\ FetchInv' /\ ContinueInv'
         /\ pc' \in Control /\ number' \in Height /\ to' \in Height /\ number' <= to'
         /\ last' \in Block \cup {None} /\ block' \in Block \cup {None}
         /\ [receipts |-> receipts', logs |-> logs'] \in Bundle
BY ForgottenIsTyped DEF Ends, Forgets, FetchInv, ContinueInv, Control

(***************************************************************************)
(* The steps                                                               *)
(***************************************************************************)

\* The node moves.
LEMMA NodeMovesKeeps ==
  ASSUME Inv, NodeMoves, UNCHANGED <<tables, own>>
  PROVE  Inv'
<1>1. StoreInv'
  BY TablesKept DEF Inv
<1>2. FetchInv' /\ ContinueInv'
  BY DEF Inv, FetchInv, ContinueInv, tables, own, answers
<1>3. NodeTypeOK'
  BY DEF Inv, TypeOK, NodeTypeOK, NodeMoves
<1>4. TypeOK'
  BY <1>3 DEF Inv, TypeOK, Cursor, tables, own, answers
<1>5. QED  BY <1>1, <1>2, <1>4 DEF Inv

\* A command begins.
LEMMA RunKeeps ==
  ASSUME Inv, Run
  PROVE  Inv'
<1>1. PICK from, end \in Height :
        /\ from <= end
        /\ cursor # None => from <= cursor.next /\ cursor.next <= end
        /\ pc' = "block" /\ to' = end
        /\ number' = IF cursor = None THEN from ELSE cursor.next
        /\ last' = IF cursor = None THEN None ELSE cursor.hash
  BY DEF Run
<1>2. UNCHANGED <<node, tables, answers>>
  BY DEF Run
<1>3. StoreInv'
  BY <1>2, TablesKept DEF Inv
<1>4. FetchInv' /\ ContinueInv'
  BY <1>1, <1>2 DEF FetchInv, ContinueInv, tables
<1>5. number' \in Height /\ number' <= to' /\ last' \in Block \cup {None}
  <2>1. CASE cursor = None
    BY <1>1, <2>1
  <2>2. CASE cursor # None
    <3>1. cursor.next \in Nat /\ cursor.hash \in Block /\ cursor.next <= end
      BY <1>1, <2>2 DEF Inv, TypeOK, Cursor
    <3>2. cursor.next \in Height
      BY <3>1, HeightFacts
    <3>3. QED  BY <1>1, <2>2, <3>1, <3>2
  <2>3. QED  BY <2>1, <2>2
<1>6. TypeOK'
  BY <1>1, <1>2, <1>5 DEF Inv, TypeOK, NodeTypeOK, node, tables, answers, Control
<1>7. QED  BY <1>3, <1>4, <1>6 DEF Inv

\* The block of the height.
LEMMA AskBlockKeeps ==
  ASSUME Inv, AskBlock
  PROVE  Inv'
<1>1. Canonical(number) \in Block /\ Number(Canonical(number)) = number
  BY AnswerFacts DEF Inv, AskBlock
<1>2. UNCHANGED tables /\ UNCHANGED <<node, number, to, last, receipts, logs>>
      /\ pc = "block" /\ pc' = "receipts" /\ block' = Canonical(number)
  BY DEF AskBlock
<1>3. StoreInv'
  BY <1>2, TablesKept DEF Inv
<1>4. FetchInv' /\ ContinueInv'
  BY <1>1, <1>2 DEF Inv, FetchInv, ContinueInv, tables
<1>5. TypeOK'
  BY <1>1, <1>2 DEF Inv, TypeOK, NodeTypeOK, node, tables, Control
<1>6. QED  BY <1>3, <1>4, <1>5 DEF Inv

\* Its receipts, or those of another block.
LEMMA AskReceiptsKeeps ==
  ASSUME Inv, AskReceipts
  PROVE  Inv'
<1>1. Canonical(number) \in Block
  BY AnswerFacts DEF Inv, AskReceipts
<1>2. UNCHANGED tables /\ UNCHANGED <<node, number, to, last, block, logs>>
      /\ pc = "receipts" /\ pc' = "logs" /\ receipts' \subseteq ReceiptsOf(Canonical(number))
  BY DEF AskReceipts
<1> DEFINE c == Canonical(number)
<1> HIDE DEF c
<1>3. c \in Block /\ receipts' \subseteq ReceiptsOf(c)
  BY <1>1, <1>2 DEF c
<1>4. StoreInv'
  BY <1>2, TablesKept DEF Inv
<1>5. FetchInv' /\ ContinueInv'
  BY <1>2, <1>3 DEF Inv, FetchInv, ContinueInv, tables
<1>6. [receipts |-> receipts', logs |-> logs'] \in Bundle
  <2>1. receipts' \in SUBSET UNION {ReceiptsOf(b) : b \in Block}
    BY <1>3
  <2>2. logs \in SUBSET UNION {LogsOf(b) : b \in Block}
    BY DEF Inv, TypeOK, Cursor, Bundle
  <2>3. QED  BY <1>2, <2>1, <2>2 DEF Bundle
<1>7. TypeOK'
  BY <1>2, <1>6 DEF Inv, TypeOK, NodeTypeOK, node, tables, Control
<1>8. QED  BY <1>4, <1>5, <1>7 DEF Inv

\* Its logs, and validate_block.
LEMMA AskLogsKeeps ==
  ASSUME Inv, AskLogs
  PROVE  Inv'
<1>1. UNCHANGED tables /\ UNCHANGED <<node, number, to, last, block, receipts>>
      /\ pc = "logs" /\ logs' \subseteq LogsOf(block)
      /\ pc' \in {"end", "gap"} /\ (pc' = "end" => Valid(block, receipts, logs'))
  BY DEF AskLogs
<1>2. block \in Block
  BY <1>1 DEF Inv, FetchInv
<1>3. StoreInv'
  BY <1>1, TablesKept DEF Inv
<1>4. FetchInv' /\ ContinueInv'
  <2>1. FetchInv'
    BY <1>1 DEF Inv, FetchInv
  <2>2. ContinueInv'
    BY <1>1 DEF Inv, ContinueInv, tables
  <2>3. QED  BY <2>1, <2>2
<1>5. [receipts |-> receipts', logs |-> logs'] \in Bundle
  <2>1. logs' \in SUBSET UNION {LogsOf(b) : b \in Block}
    BY <1>1, <1>2
  <2>2. receipts \in SUBSET UNION {ReceiptsOf(b) : b \in Block}
    BY DEF Inv, TypeOK, Cursor, Bundle
  <2>3. QED  BY <1>1, <2>1, <2>2 DEF Bundle
<1>6. TypeOK'
  BY <1>1, <1>5 DEF Inv, TypeOK, NodeTypeOK, node, tables, Control
<1>7. QED  BY <1>3, <1>4, <1>6 DEF Inv

\* The second look at the block, or a request that fails.
LEMMA OtherAnswersKeep ==
  ASSUME Inv, AskEnd \/ AskFails
  PROVE  Inv'
<1>1. /\ UNCHANGED <<node, tables, number, to, last, answers>>
      /\ pc # "idle" /\ pc' \in {"gap", "batch"}
      /\ pc' = "batch" => pc = "end" /\ (last # None => Parent(block) = last)
  BY DEF AskEnd, AskFails
<1>2. StoreInv'
  BY <1>1, TablesKept DEF Inv
<1>3. FetchInv' /\ ContinueInv'
  <2>1. FetchInv'
    BY <1>1 DEF Inv, FetchInv, answers
  <2>2. ContinueInv'
    BY <1>1 DEF Inv, ContinueInv, tables
  <2>3. QED  BY <2>1, <2>2
<1>4. TypeOK'
  BY <1>1 DEF Inv, TypeOK, NodeTypeOK, node, tables, answers, Control
<1>5. QED  BY <1>2, <1>3, <1>4 DEF Inv

\* The process ends without a write.
LEMMA CrashKeeps ==
  ASSUME Inv, Crash
  PROVE  Inv'
<1>1. Ends /\ UNCHANGED <<node, tables>>
  BY DEF Crash
<1>2. StoreInv'
  BY <1>1, TablesKept DEF Inv
<1>3. TypeOK' /\ FetchInv' /\ ContinueInv'
  BY <1>1, EndsKeepsOwn DEF Inv, TypeOK, NodeTypeOK, node, tables
<1>4. QED  BY <1>2, <1>3 DEF Inv

\* No stored block is as high as the height a command works at.
LEMMA NumberIsNext ==
  ASSUME Inv, pc # "idle"
  PROVE  /\ number \in Nat
         /\ \A b \in Stored : Number(b) < number
<1>1. number \in Nat
  BY HeightFacts DEF Inv, TypeOK, Cursor
<1>2. ASSUME NEW b \in Stored  PROVE Number(b) < number
  <2>1. cursor # None
    BY DEF Inv, StoreInv, StoredIsOneBranch
  <2>2. /\ cursor.hash \in Block /\ number = Number(cursor.hash) + 1
        /\ Number(cursor.hash) \in Nat /\ first \in 0 .. Number(cursor.hash)
    BY <2>1, BlockFacts DEF Inv, TypeOK, Cursor, StoreInv, StoredIsOneBranch, ContinueInv
  <2>3. PICK n \in first .. Number(cursor.hash) : b = BlockAt(cursor.hash, n)
    BY <2>1 DEF Inv, StoreInv, StoredIsOneBranch
  <2>4. n \in 0 .. Number(cursor.hash) /\ Number(b) = n
    BY <2>2, <2>3, BlockAtNumber
  <2>5. QED  BY <2>2, <2>4
<1>3. QED  BY <1>1, <1>2

\* A gap at the height the command failed at.
LEMMA WriteGapKeeps ==
  ASSUME Inv, WriteGap
  PROVE  Inv'
<1>1. pc = "gap" /\ gaps' = gaps \cup {number} /\ Ends /\ UNCHANGED <<node, raw, cursor, first>>
  BY DEF WriteGap
<1>2. \A b \in Stored : Number(b) # number
  BY <1>1, NumberIsNext
<1>3. StoreInv'
  <2>1. Stored' = Stored
    BY <1>1 DEF Stored
  <2>2. BundleIsOneBlock' /\ StoredIsOneBranch'
    BY <1>1, <2>1 DEF Inv, StoreInv, BundleIsOneBlock, StoredIsOneBranch
  <2>3. OpenGapsAreMissing'
    BY <1>1, <1>2, <2>1 DEF Inv, StoreInv, OpenGapsAreMissing
  <2>4. QED  BY <1>1, <2>2, <2>3 DEF Inv, StoreInv
<1>4. TypeOK' /\ FetchInv' /\ ContinueInv'
  BY <1>1, EndsKeepsOwn DEF Inv, TypeOK, NodeTypeOK, node
<1>5. QED  BY <1>3, <1>4 DEF Inv

\* What a batch is: the whole bundle of a block that continues the cursor's.
LEMMA BatchFacts ==
  ASSUME Inv, WriteBatch
  PROVE  /\ pc = "batch" /\ block \in Block /\ Number(block) = number /\ number \in Nat
         /\ [receipts |-> receipts, logs |-> logs] = BundleOf(block)
         /\ BundleOf(block) \in Bundle /\ BundleOf(block) # None
         /\ cursor' = [next |-> Number(block) + 1, hash |-> block] /\ cursor' # None
         /\ raw' = [raw EXCEPT ![block] = BundleOf(block)]
         /\ raw \in [Block -> Bundle \cup {None}]
         /\ block \notin Stored /\ Stored' = Stored \cup {block}
         /\ gaps' = gaps \ {number}
         /\ first' = IF first = None THEN number ELSE first
         /\ cursor # None => /\ cursor.hash = Parent(block) /\ cursor.next = number
                             /\ number = Number(cursor.hash) + 1
<1>1. pc = "batch" /\ block \in Block /\ Number(block) = number /\ number \in Nat
  BY HeightFacts DEF Inv, TypeOK, Cursor, FetchInv, WriteBatch
<1>2. [receipts |-> receipts, logs |-> logs] = BundleOf(block)
  <2>1. PICK c \in Block : receipts \subseteq ReceiptsOf(c)
    BY <1>1 DEF Inv, FetchInv
  <2>2. Valid(block, receipts, logs)
    BY <1>1 DEF Inv, FetchInv
  <2>3. QED  BY <1>1, <2>1, <2>2, ValidIsWhole
<1>3. BundleOf(block) \in Bundle /\ BundleOf(block) # None
  BY <1>1, BundleOfIsBundle, BundleAssumption
<1>4. /\ raw' = [raw EXCEPT ![block] = BundleOf(block)]
      /\ raw \in [Block -> Bundle \cup {None}]
      /\ cursor' = [next |-> Number(block) + 1, hash |-> block]
      /\ gaps' = gaps \ {number}
      /\ first' = IF first = None THEN number ELSE first
  BY <1>1, <1>2 DEF WriteBatch, AppendRaw, Inv, TypeOK
<1>5. cursor' # None
  <2>1. cursor' \in [next : Nat, hash : Block]
    BY <1>1, <1>4
  <2>2. QED  BY <2>1, CursorAssumption DEF Cursor
<1>6. block \notin Stored
  BY <1>1, NumberIsNext
<1>7. Stored' = Stored \cup {block}
  BY <1>1, <1>3, <1>4 DEF Stored
<1>8. ASSUME cursor # None
      PROVE  /\ cursor.hash = Parent(block) /\ cursor.next = number
             /\ number = Number(cursor.hash) + 1
  <2>1. last = cursor.hash /\ number = cursor.next /\ cursor.hash \in Block
    BY <1>1, <1>8 DEF Inv, ContinueInv, TypeOK, Cursor
  <2>2. last # None
    BY <2>1, NodeAssumption
  <2>3. Parent(block) = last
    BY <1>1, <2>2 DEF Inv, FetchInv
  <2>4. cursor.next = Number(cursor.hash) + 1
    BY <1>8 DEF Inv, StoreInv, StoredIsOneBranch
  <2>5. QED  BY <2>1, <2>3, <2>4
<1>9. QED  BY <1>1, <1>2, <1>3, <1>4, <1>5, <1>6, <1>7, <1>8

\* The stored branch grows by the block.
LEMMA WriteBatchKeepsStore ==
  ASSUME Inv, WriteBatch
  PROVE  StoreInv'
<1>1. BundleIsOneBlock'
  BY BatchFacts DEF Inv, StoreInv, BundleIsOneBlock, Stored
<1>2. OpenGapsAreMissing'
  BY BatchFacts DEF Inv, StoreInv, OpenGapsAreMissing
<1>3. cursor'.next = Number(block) + 1 /\ cursor'.hash = block /\ cursor' # None
  BY BatchFacts
<1>4. BlockAt(block, Number(block)) = block
  BY BatchFacts, BranchFacts
<1>5. CASE cursor = None
  <2>1. first = None /\ Stored = {} /\ first' = Number(block)
    BY <1>5, BatchFacts DEF Inv, StoreInv, StoredIsOneBranch
  <2>2. Number(block) \in Nat /\ Stored' = {block}
    BY <2>1, BatchFacts
  <2>3. Stored' = {BlockAt(block, n) : n \in Number(block) .. Number(block)}
    BY <1>4, <2>2
  <2>4. Number(block) # None
    BY BatchFacts, NodeAssumption DEF Height
  <2>5. first' # None /\ first' \in 0 .. Number(cursor'.hash)
    BY <1>3, <2>1, <2>2, <2>4
  <2>6. StoredIsOneBranch'
    BY <1>3, <2>1, <2>3 DEF StoredIsOneBranch
  <2>7. QED  BY <1>1, <1>2, <1>3, <2>5, <2>6 DEF StoreInv
<1>6. CASE cursor # None
  <2>1. /\ first \in 0 .. Number(block) - 1 /\ first' = first
        /\ Number(block) \in Nat /\ Number(block) # 0
        /\ cursor.hash = Parent(block) /\ Number(cursor.hash) = Number(block) - 1
    <3>1. first # None /\ first \in 0 .. Number(cursor.hash)
      BY <1>6 DEF Inv, StoreInv
    <3>2. cursor.hash \in Block
      BY <1>6 DEF Inv, TypeOK, Cursor
    <3>3. Number(cursor.hash) \in Nat
      BY <3>2, BlockFacts
    <3>4. cursor.hash = Parent(block) /\ Number(block) = Number(cursor.hash) + 1 /\ first' = first
      BY <1>6, <3>1, BatchFacts
    <3>5. QED  BY <3>1, <3>3, <3>4
  <2>2. Stored = {BlockAt(Parent(block), n) : n \in first .. Number(block) - 1}
    BY <1>6, <2>1 DEF Inv, StoreInv, StoredIsOneBranch
  <2>3. \A n \in first .. Number(block) - 1 : BlockAt(Parent(block), n) = BlockAt(block, n)
    BY <2>1, BatchFacts, BranchFacts
  <2>4. Stored' = {BlockAt(block, n) : n \in first .. Number(block)}
    <3>1. Stored = {BlockAt(block, n) : n \in first .. Number(block) - 1}
      BY <2>2, <2>3
    <3>2. first .. Number(block) = (first .. Number(block) - 1) \cup {Number(block)}
      BY <2>1
    <3>3. Stored' = Stored \cup {block}
      BY BatchFacts
    <3>4. QED  BY <1>4, <3>1, <3>2, <3>3
  <2>5. first' \in 0 .. Number(block) /\ first' # None
    BY <1>6, <2>1 DEF Inv, StoreInv
  <2>6. QED  BY <1>1, <1>2, <1>3, <2>1, <2>4, <2>5 DEF StoreInv, StoredIsOneBranch
<1>7. QED  BY <1>5, <1>6

\* A batch is written, and the command goes on or ends.
LEMMA WriteBatchKeeps ==
  ASSUME Inv, WriteBatch
  PROVE  Inv'
<1>1. StoreInv'
  BY WriteBatchKeepsStore
<1>2. /\ NodeTypeOK' /\ raw' \in [Block -> Bundle \cup {None}]
      /\ cursor' \in [next : Nat, hash : Block] /\ gaps' \subseteq Height
      /\ first' \in Height \cup {None}
  <2>1. NodeTypeOK' /\ gaps \subseteq Height /\ first \in Height \cup {None}
    BY DEF WriteBatch, Inv, TypeOK, NodeTypeOK, node
  <2>2. number \in Height
    BY DEF Inv, TypeOK, Cursor
  <2>3. QED  BY <2>1, <2>2, BatchFacts
<1>3. CASE number < to
  <2>1. /\ pc' = "block" /\ number' = number + 1 /\ last' = block /\ to' = to
        /\ block' = None /\ receipts' = {} /\ logs' = {}
    BY <1>3 DEF WriteBatch
  <2>2. number \in Nat /\ to \in Height /\ to \in Nat
    BY HeightFacts DEF Inv, TypeOK, Cursor
  <2>3. number' \in Height /\ number' <= to'
    BY <1>3, <2>1, <2>2, HeightFacts
  <2>4. TypeOK'
    BY <1>2, <2>1, <2>2, <2>3, BatchFacts, ForgottenIsTyped DEF TypeOK, Cursor, Control
  <2>5. FetchInv' /\ ContinueInv'
    BY <2>1, BatchFacts DEF FetchInv, ContinueInv
  <2>6. QED  BY <1>1, <2>4, <2>5 DEF Inv
<1>4. CASE ~(number < to)
  <2>1. Ends
    BY <1>4 DEF WriteBatch
  <2>2. TypeOK' /\ FetchInv' /\ ContinueInv'
    BY <1>2, <2>1, EndsKeepsOwn DEF Inv, TypeOK, Cursor
  <2>3. QED  BY <1>1, <2>2 DEF Inv
<1>5. QED  BY <1>3, <1>4

\* The invariant of every behaviour.
LEMMA Invariance == Spec => []Inv
<1>1. Inv /\ [Next]_vars => Inv'
  <2> SUFFICES ASSUME Inv, [Next]_vars  PROVE Inv'
    OBVIOUS
  <2>1. CASE Next
    BY <2>1, NodeMovesKeeps, RunKeeps, AskBlockKeeps, AskReceiptsKeeps, AskLogsKeeps,
       OtherAnswersKeep, WriteBatchKeeps, WriteGapKeeps, CrashKeeps DEF Next, Command
  <2>2. CASE UNCHANGED vars
    <3>1. StoreInv'
      BY <2>2, TablesKept DEF Inv, vars
    <3>2. FetchInv' /\ ContinueInv'
      BY <2>2 DEF Inv, FetchInv, ContinueInv, vars, tables, own, answers
    <3>3. TypeOK'
      BY <2>2 DEF Inv, TypeOK, NodeTypeOK, vars, node, tables, own, answers
    <3>4. QED  BY <3>1, <3>2, <3>3 DEF Inv
  <2>3. QED  BY <2>1, <2>2
<1>2. QED  BY <1>1, InitInv, PTL DEF Spec

(***************************************************************************)
(* What holds of every behaviour                                           *)
(***************************************************************************)

\* The types of the tables and of the command's memory.
THEOREM TypeCorrect == Spec => []TypeOK
<1>1. Inv => TypeOK
  BY DEF Inv
<1>2. QED  BY <1>1, Invariance, PTL

\* A stored bundle is the whole of one block's, however the node switches between the
\* requests and whatever it leaves out of an answer.
THEOREM BundlesAreWhole == Spec => []BundleIsOneBlock
<1>1. Inv => BundleIsOneBlock
  BY DEF Inv, StoreInv
<1>2. QED  BY <1>1, Invariance, PTL

\* What all commands together stored is one branch without holes that ends at the cursor.
THEOREM OneBranchIsStored == Spec => []StoredIsOneBranch
<1>1. Inv => StoredIsOneBranch
  BY DEF Inv, StoreInv
<1>2. QED  BY <1>1, Invariance, PTL

\* No height that was collected has an open gap.
THEOREM GapsAreMissing == Spec => []OpenGapsAreMissing
<1>1. Inv => OpenGapsAreMissing
  BY DEF Inv, StoreInv
<1>2. QED  BY <1>1, Invariance, PTL

\* No step changes a bundle, passes a gap over or moves the cursor other than by one.
THEOREM CollectedIsKept == Spec => CollectedStays
<1>1. Inv /\ [Next]_vars =>
        \/ UNCHANGED tables
        \/ /\ \A b \in Stored : raw'[b] = raw[b]
           /\ \A g \in gaps \ gaps' : \E b \in Block : Number(b) = g /\ raw[b] = None /\ raw'[b] # None
           /\ cursor # None => cursor'.next \in {cursor.next, cursor.next + 1}
  <2> SUFFICES ASSUME Inv, Next
               PROVE  \/ UNCHANGED tables
                      \/ /\ \A b \in Stored : raw'[b] = raw[b]
                         /\ \A g \in gaps \ gaps' : \E b \in Block :
                              Number(b) = g /\ raw[b] = None /\ raw'[b] # None
                         /\ cursor # None => cursor'.next \in {cursor.next, cursor.next + 1}
    BY DEF vars
  <2>1. CASE WriteBatch
    <3>1. \A b \in Stored : raw'[b] = raw[b]
      BY <2>1, BatchFacts DEF Stored
    <3>2. \A g \in gaps \ gaps' : g = number
      BY <2>1, BatchFacts
    <3>3. raw[block] = None /\ raw'[block] # None /\ block \in Block /\ Number(block) = number
      BY <2>1, BatchFacts DEF Stored
    <3>4. cursor # None => cursor'.next = cursor.next + 1
      BY <2>1, BatchFacts
    <3>5. QED  BY <3>1, <3>2, <3>3, <3>4
  <2>2. CASE WriteGap
    BY <2>2 DEF WriteGap
  <2>3. CASE ~WriteBatch /\ ~WriteGap
    <3>1. UNCHANGED tables
      BY <2>3 DEF Next, Command, Run, AskBlock, AskReceipts, AskLogs, AskEnd, AskFails, Crash
    <3>2. QED  BY <3>1
  <2>4. QED  BY <2>1, <2>2, <2>3
<1>2. QED  BY <1>1, Invariance, PTL DEF Spec, CollectedStays


-----------------------------------------------------------------------------
(* The node                                                                *)

\* The node's branch has none of the blocks it left for good.
NodeInv == NodeTypeOK /\ (~returns => \A a \in left : ~OnChain(a, head))

\* The node was on the block's branch at some time.
Was(b) == OnChain(b, head) \/ b \in left

LEMMA NodeMovesOn ==
  ASSUME NodeInv, NodeMoves
  PROVE  /\ NodeInv' /\ UNCHANGED returns
         /\ ~returns => \A b \in Block : /\ Was(b) => Was(b)'
                                         /\ b \in left => b \in left'
<1>1. PICK b \in Block \ {head} :
        /\ ~returns => ~OnChain(b, head) /\ ~\E a \in left : OnChain(a, b)
        /\ head' = b
        /\ left' = IF returns THEN {}
                   ELSE left \cup {a \in Block : OnChain(a, head) /\ ~OnChain(a, b)}
        /\ UNCHANGED returns
  BY DEF NodeMoves
<1>2. NodeTypeOK'
  BY <1>1 DEF NodeInv, NodeTypeOK
<1>3. ASSUME ~returns, NEW a \in left'  PROVE ~OnChain(a, head')
  BY <1>1, <1>3
<1>4. ASSUME ~returns, NEW a \in Block
      PROVE  (Was(a) => Was(a)') /\ (a \in left => a \in left')
  BY <1>1, <1>4 DEF Was
<1>5. QED  BY <1>1, <1>2, <1>3, <1>4 DEF NodeInv

\* What the node says about the height of a block it was on: the block, or it left it.
LEMMA AnswerAtHeight ==
  ASSUME NodeInv, NEW b \in Block, NEW n \in 0 .. Number(b), Reaches(n)
  PROVE  /\ Canonical(n) \in Block /\ Number(Canonical(n)) = n
         /\ Was(b) => Canonical(n) = BlockAt(b, n) \/ b \in left
         /\ ~returns /\ Canonical(Number(b)) = b /\ Reaches(Number(b)) => b \notin left
<1>1. head \in Block /\ Number(head) \in Nat /\ Number(b) \in Nat /\ n \in Nat
  BY BlockFacts DEF NodeInv, NodeTypeOK
<1>2. n \in 0 .. Number(head)
  BY <1>1 DEF Reaches
<1>3. /\ Canonical(n) \in Block /\ Number(Canonical(n)) = n
      /\ \A a \in Block : OnChain(a, head) /\ Number(a) = n => a = Canonical(n)
  BY <1>1, <1>2, BlockAtFacts DEF Canonical
<1>4. /\ BlockAt(b, n) \in Block /\ Number(BlockAt(b, n)) = n
      /\ OnChain(BlockAt(b, n), b)
  BY BlockAtFacts
<1>5. ASSUME OnChain(b, head)  PROVE Canonical(n) = BlockAt(b, n)
  <2>1. OnChain(BlockAt(b, n), head)
    BY <1>1, <1>4, <1>5, OnChainTransitive
  <2>2. QED  BY <1>3, <1>4, <2>1
<1>6. ASSUME Canonical(Number(b)) = b, Reaches(Number(b))
      PROVE  OnChain(b, head)
  <2>1. Number(b) \in 0 .. Number(head)
    BY <1>1, <1>6 DEF Reaches
  <2>2. QED  BY <1>1, <1>6, <2>1, BlockAtFacts DEF Canonical
<1>7. QED  BY <1>3, <1>5, <1>6 DEF Was, NodeInv

\* A block is at its own height, its parent at the one below.
LEMMA OwnHeight ==
  ASSUME NEW b \in Block
  PROVE  /\ Number(b) \in Nat /\ Number(b) \in 0 .. Number(b) /\ BlockAt(b, Number(b)) = b
         /\ Number(b) > 0 => /\ Number(b) - 1 \in 0 .. Number(b)
                             /\ BlockAt(b, Number(b) - 1) = Parent(b)
         /\ Parent(b) \in Block
<1>1. Number(b) \in Nat /\ Parent(b) \in Block
  BY BlockFacts
<1>2. BlockAt(b, Number(b)) = b
  BY BranchFacts
<1>3. BlockAt(b, Number(b) - 1) = Parent(b)
  BY DEF BlockAt, Parent, Number
<1>4. QED  BY <1>1, <1>2, <1>3

-----------------------------------------------------------------------------
(* simulate and wallet_facts                                               *)

Reply == [parent : Block, outcome : Outcome]

\* The stages after the header of the transaction's block was seen.
Looked == {"parent", "before", "after", "wallet code", "final parent", "final header"}

\* What the balances before and after the block are to be of.
Expected(side) == IF side = "after" THEN position ELSE Parent(position)

SimulationInv ==
  /\ stage = "end" => reply \in Reply /\ reply.outcome = Fares[reply.parent]
  /\ SimulationIsOfItsBlock

WalletInv ==
  /\ stage \in Looked \cup {"receipt", "header of it"} =>
       /\ position \in Block /\ Number(position) > 0
       /\ tx \in Tx /\ tx \in Transactions[position]
  /\ stage \in Looked /\ ~returns => Was(position)
  /\ stage \in Looked /\ ~returns =>
       \A side \in Side : \A b \in balances[side] : b = Expected(side) \/ position \in left
  /\ stage \notin Looked => \A side \in Side : balances[side] = {}
  /\ stage \in {"after", "wallet code", "final parent", "final header"} => balances["before"] # {}
  /\ stage \in {"wallet code", "final parent", "final header"} => balances["after"] # {}
  /\ FactsAreOfOneBlock

\* Which of the two queries awaits the answer.
StageInv ==
  /\ stage \in {"header", "code", "call", "end"} => base \in Block /\ tx = None
  /\ base # None => stage \in {"header", "code", "call", "end"}
  /\ base # None => Number(base) > 0

QueryInv == QueryTypeOK /\ StageInv /\ SimulationInv /\ WalletInv

LEMMA QueryInitInv ==
  ASSUME Init, QueryInit
  PROVE  NodeInv /\ QueryInv
<1>1. NodeInv
  BY BlockAssumption DEF Init, NodeInit, NodeInv, NodeTypeOK
<1>2. QueryTypeOK
  BY DEF QueryInit, QueryTypeOK, Stage
<1>3. StageInv /\ SimulationInv /\ WalletInv
  BY DEF QueryInit, StageInv, SimulationInv, WalletInv, SimulationIsOfItsBlock,
         FactsAreOfOneBlock, Looked, Side
<1>4. QED  BY <1>1, <1>2, <1>3 DEF QueryInv

\* The node moves, and what was read so far stays what it was.
LEMMA NodeMovesKeepsQuery ==
  ASSUME NodeInv, QueryInv, NodeMoves, UNCHANGED queries
  PROVE  QueryInv'
<1>1. /\ UNCHANGED returns
      /\ ~returns => \A b \in Block : /\ Was(b) => Was(b)'
                                      /\ b \in left => b \in left'
  BY NodeMovesOn
<1>2. UNCHANGED <<stage, base, reply, tx, position, balances, simulation, facts>>
  BY DEF queries, queryVars
<1>3. QueryTypeOK' /\ StageInv' /\ SimulationInv'
  BY <1>2 DEF QueryInv, QueryTypeOK, StageInv, SimulationInv, SimulationIsOfItsBlock
<1>4. FactsAreOfOneBlock'
  BY <1>1, <1>2 DEF QueryInv, WalletInv, FactsAreOfOneBlock
<1>5. ASSUME stage \in Looked, ~returns
      PROVE  /\ Was(position)'
             /\ \A side \in Side : \A b \in balances[side] : b = Expected(side) \/ position \in left'
  <2>1. /\ position \in Block /\ Was(position)
        /\ \A side \in Side : \A b \in balances[side] : b = Expected(side) \/ position \in left
    BY <1>5 DEF QueryInv, WalletInv
  <2>2. PICK q \in Block : q = position
    BY <2>1
  <2>3. (Was(q) => Was(q)') /\ (q \in left => q \in left')
    BY <1>1, <1>5
  <2>4. Was(position)'
    BY <1>2, <2>1, <2>2, <2>3 DEF Was
  <2>5. QED  BY <2>1, <2>2, <2>3, <2>4
<1>6. WalletInv'
  BY <1>1, <1>2, <1>4, <1>5 DEF QueryInv, WalletInv, Expected
<1>7. QED  BY <1>3, <1>6 DEF QueryInv

\* A simulation that ends with a given outcome.
LEMMA SimulationEndsKeeps ==
  ASSUME QueryInv, NEW outcome \in Outcome \cup {"Unknown", "Unavailable"}, base # None,
         SimulationEnds(outcome),
         outcome \in Outcome => outcome = Fares[base]
  PROVE  QueryInv'
<1>1. /\ simulation' = [position |-> base, outcome |-> outcome]
      /\ stage' = "idle" /\ base' = None /\ reply' = None
      /\ tx' = None /\ position' = None /\ balances' = [s \in Side |-> {}]
      /\ UNCHANGED <<node, facts>>
  BY DEF SimulationEnds, Forget
<1>2. base \in Block
  BY DEF QueryInv, QueryTypeOK
<1>3. simulation'.position = base /\ simulation'.outcome = outcome
      /\ simulation' \in [position : Block, outcome : Outcome \cup {"Unknown", "Unavailable"}]
  BY <1>1, <1>2
<1>4. QueryTypeOK'
  BY <1>1, <1>3 DEF QueryInv, QueryTypeOK, Stage, Side
<1>5. SimulationInv' /\ StageInv'
  BY <1>1, <1>3 DEF SimulationInv, SimulationIsOfItsBlock, StageInv
<1>6. WalletInv'
  BY <1>1 DEF QueryInv, WalletInv, FactsAreOfOneBlock, Looked, Side, node
<1>7. QED  BY <1>4, <1>5, <1>6 DEF QueryInv

LEMMA SimulatingKeeps ==
  ASSUME NodeInv, QueryInv, Simulating
  PROVE  QueryInv' /\ UNCHANGED node
<1>1. UNCHANGED node
  BY DEF Simulating, Simulate, SimulationHeader, SimulationCode, SimulationCall, SimulationEnd,
         SimulationFails, SimulationEnds
<1> SUFFICES QueryInv'
  BY <1>1
<1> USE DEF Looked, Stage, Side
<1>2. CASE Simulate
  <2>1. /\ stage = "idle" /\ stage' = "header" /\ base' \in Block /\ Number(base') > 0
        /\ UNCHANGED <<node, reply, tx, position, balances, simulation, facts>>
    BY <1>2 DEF Simulate
  <2>2. tx = None /\ base' # None
    BY <2>1, NodeAssumption DEF QueryInv, QueryTypeOK
  <2>3. QueryTypeOK'
    BY <2>1, <2>2 DEF QueryInv, QueryTypeOK
  <2>4. StageInv' /\ SimulationInv' /\ WalletInv'
    BY <2>1, <2>2 DEF QueryInv, StageInv, SimulationInv, WalletInv,
       SimulationIsOfItsBlock, FactsAreOfOneBlock, node
  <2>5. QED  BY <2>3, <2>4 DEF QueryInv
<1>3. ASSUME stage \in {"header", "code"}, stage' \in {"code", "call"},
             UNCHANGED <<node, base, reply, tx, position, balances, simulation, facts>>
      PROVE  QueryInv'
  <2>1. QueryTypeOK' /\ SimulationInv'
    BY <1>3 DEF QueryInv, QueryTypeOK, SimulationInv, SimulationIsOfItsBlock
  <2>2. StageInv'
    BY <1>3 DEF QueryInv, StageInv
  <2>3. WalletInv'
    BY <1>3 DEF QueryInv, StageInv, WalletInv, FactsAreOfOneBlock, node
  <2>4. QED  BY <2>1, <2>2, <2>3 DEF QueryInv
<1>4. ASSUME base # None, SimulationEnds("Unknown") \/ SimulationEnds("Unavailable")
      PROVE  QueryInv'
  BY <1>4, SimulationEndsKeeps DEF Outcome
<1>5. stage \in {"header", "code", "call", "end"} => base \in Block /\ base # None
  BY NodeAssumption DEF QueryInv, StageInv
<1>6. CASE SimulationHeader
  BY <1>3, <1>4, <1>5, <1>6 DEF SimulationHeader
<1>7. CASE SimulationCode
  BY <1>3, <1>4, <1>5, <1>7 DEF SimulationCode
<1>8. CASE SimulationCall
  <2>1. CASE ~Reaches(Number(base))
    BY <1>4, <1>5, <1>8, <2>1 DEF SimulationCall
  <2>2. CASE Reaches(Number(base))
    <3>1. Canonical(Number(base)) \in Block
      BY <1>5, <1>8, <2>2, AnswerAtHeight, OwnHeight DEF SimulationCall
    <3>2. PICK b \in Block : b = Canonical(Number(base))
      BY <3>1
    <3>3. Fares[b] \in Outcome
      BY QueryAssumption
    <3>4. /\ reply' = [parent |-> b, outcome |-> Fares[b]]
          /\ stage = "call" /\ stage' = "end"
          /\ UNCHANGED <<node, base, tx, position, balances, simulation, facts>>
      BY <1>8, <2>2, <3>2 DEF SimulationCall
    <3>5. reply' \in Reply /\ reply'.outcome = Fares[reply'.parent]
      BY <3>3, <3>4 DEF Reply
    <3>6. QueryTypeOK'
      BY <3>4, <3>5 DEF QueryInv, QueryTypeOK, Reply
    <3>7. StageInv' /\ SimulationInv' /\ WalletInv'
      BY <3>4, <3>5 DEF QueryInv, StageInv, SimulationInv, WalletInv,
         SimulationIsOfItsBlock, FactsAreOfOneBlock, node
    <3>8. QED  BY <3>6, <3>7 DEF QueryInv
  <2>3. QED  BY <2>1, <2>2
<1>9. CASE SimulationEnd
  <2>1. /\ stage = "end"
        /\ SimulationEnds(IF At(Number(base)) = base /\ Parsed(base) THEN reply.outcome ELSE "Unknown")
    BY <1>9 DEF SimulationEnd
  <2>2. reply \in Reply /\ reply.outcome = Fares[reply.parent]
    BY <2>1 DEF QueryInv, SimulationInv
  <2>3. CASE At(Number(base)) = base /\ Parsed(base)
    <3>1. reply.outcome \in Outcome /\ reply.outcome = Fares[base]
      BY <2>2, <2>3 DEF Parsed, Reply
    <3>2. SimulationEnds(reply.outcome)
      BY <2>1, <2>3
    <3>3. QED  BY <2>1, <1>5, <3>1, <3>2, SimulationEndsKeeps
  <2>4. CASE ~(At(Number(base)) = base /\ Parsed(base))
    <3>1. SimulationEnds("Unknown")
      BY <2>1, <2>4
    <3>2. base # None
      BY <1>5, <2>1
    <3>3. QED  BY <1>4, <3>1, <3>2
  <2>5. QED  BY <2>3, <2>4
<1>10. CASE SimulationFails
  <2>1. base # None /\ (SimulationEnds("Unknown") \/ SimulationEnds("Unavailable"))
    BY <1>10 DEF SimulationFails
  <2>2. QED  BY <1>4, <2>1
<1>11. QED
  BY <1>1, <1>2, <1>6, <1>7, <1>8, <1>9, <1>10 DEF Simulating

\* A block that has the transaction on the node's branch.
LEMMA BlockOfFacts ==
  ASSUME NodeInv, NEW t, NEW b \in BlockOf(t)
  PROVE  b \in Block /\ Number(b) > 0 /\ t \in Transactions[b]
<1>1. head \in Block /\ Number(head) \in Nat
  BY BlockFacts DEF NodeInv, NodeTypeOK
<1>2. PICK m \in 1 .. Number(head) : t \in Transactions[BlockAt(head, m)] /\ b = BlockAt(head, m)
  BY DEF BlockOf
<1>3. BlockAt(head, m) \in Block /\ Number(BlockAt(head, m)) = m
  BY <1>1, <1>2, BlockAtFacts
<1>4. QED  BY <1>2, <1>3

\* While a query runs there is its transaction, and no candidate.
LEMMA QueryRuns ==
  ASSUME QueryInv, stage \notin {"idle", "header", "code", "call", "end"}
  PROVE  base = None /\ tx \in Tx
BY DEF QueryInv, QueryTypeOK, StageInv

\* A header that is the block's own.
LEMMA HeaderIsOf ==
  ASSUME NodeInv, NEW b \in Block, At(Number(b)) = b
  PROVE  Was(b) /\ (~returns => b \notin left)
<1>1. Reaches(Number(b)) /\ Canonical(Number(b)) = b
  BY NodeAssumption DEF At
<1>2. head \in Block /\ Number(head) \in Nat /\ Number(b) \in Nat
  BY BlockFacts DEF NodeInv, NodeTypeOK
<1>3. Number(b) \in 0 .. Number(head)
  BY <1>1, <1>2 DEF Reaches
<1>4. OnChain(b, head)
  BY <1>1, <1>2, <1>3, BlockAtFacts DEF Canonical
<1>5. QED  BY <1>4 DEF Was, NodeInv

\* A request that is only passed.
LEMMA WalletAsksKeeps ==
  ASSUME QueryInv, NEW now, NEW next, WalletAsks(now, next),
         \/ <<now, next>> = <<"receipt", "header of it">>
         \/ <<now, next>> = <<"header of it", "parent">> /\ Was(position)
         \/ <<now, next>> \in {<<"parent", "before">>, <<"wallet code", "final parent">>,
                               <<"final parent", "final header">>}
  PROVE  QueryInv'
<1>1. /\ stage = now /\ stage' = next
      /\ UNCHANGED <<node, base, reply, tx, position, balances, simulation, facts>>
  BY DEF WalletAsks
<1>2. \/ now = "receipt" /\ next = "header of it"
      \/ now = "header of it" /\ next = "parent" /\ Was(position)
      \/ now = "parent" /\ next = "before"
      \/ now = "wallet code" /\ next = "final parent"
      \/ now = "final parent" /\ next = "final header"
  OBVIOUS
<1>3. base = None /\ tx \in Tx /\ tx # None
  BY <1>1, <1>2, QueryRuns, QueryAssumption
<1>4. QueryTypeOK'
  BY <1>1, <1>2, <1>3 DEF QueryInv, QueryTypeOK, Stage
<1>5. StageInv' /\ SimulationInv'
  BY <1>1, <1>2, <1>3 DEF QueryInv, StageInv, SimulationInv, SimulationIsOfItsBlock
<1>6. FactsAreOfOneBlock'
  BY <1>1 DEF QueryInv, WalletInv, FactsAreOfOneBlock, node
<1>7. stage' \in Looked /\ ~returns' => Was(position)'
  BY <1>1, <1>2 DEF QueryInv, WalletInv, Looked, Was, node
<1>8. WalletInv'
  BY <1>1, <1>2, <1>6, <1>7 DEF QueryInv, WalletInv, Looked, Expected, node
<1>9. QED  BY <1>4, <1>5, <1>8 DEF QueryInv

\* A balance of either side.
LEMMA AskBalanceKeeps ==
  ASSUME NodeInv, QueryInv, NEW side \in Side, AskBalance(side)
  PROVE  QueryInv'
<1> DEFINE n == Number(position) - (IF side = "before" THEN 1 ELSE 0)
<1>1. /\ stage = side /\ Reaches(n)
      /\ balances' = [balances EXCEPT ![side] = @ \cup {Canonical(n)}]
      /\ stage' \in IF side = "before" THEN {"after"} ELSE {"before", "wallet code"}
      /\ UNCHANGED <<node, base, reply, tx, position, simulation, facts>>
  BY DEF AskBalance
<1>2. /\ side = "before" \/ side = "after"
      /\ stage \in Looked /\ stage' \in Looked
  BY <1>1 DEF Side, Looked
<1>3. /\ position \in Block /\ Number(position) > 0 /\ tx \in Tx /\ tx # None /\ base = None
      /\ balances \in [Side -> SUBSET Block]
  BY <1>1, <1>2, QueryRuns, QueryAssumption DEF QueryInv, QueryTypeOK, WalletInv
<1>4. /\ n \in 0 .. Number(position)
      /\ BlockAt(position, n) = Expected(side)
  BY <1>2, <1>3, OwnHeight DEF Expected
<1>5. /\ Canonical(n) \in Block
      /\ Was(position) => Canonical(n) = Expected(side) \/ position \in left
  BY <1>1, <1>3, <1>4, AnswerAtHeight
<1> HIDE DEF n
<1>6. /\ balances'[side] = balances[side] \cup {Canonical(n)}
      /\ \A s \in Side \ {side} : balances'[s] = balances[s]
      /\ balances' \in [Side -> SUBSET Block]
  BY <1>1, <1>3, <1>5
<1>7. QueryTypeOK'
  BY <1>1, <1>2, <1>3, <1>6 DEF QueryInv, QueryTypeOK, Stage
<1>8. StageInv' /\ SimulationInv'
  BY <1>1, <1>2, <1>3 DEF QueryInv, StageInv, SimulationInv, SimulationIsOfItsBlock
<1>9. FactsAreOfOneBlock'
  BY <1>1 DEF QueryInv, WalletInv, FactsAreOfOneBlock, node
<1>10. ~returns => /\ Was(position)'
                   /\ \A s \in Side : \A b \in balances'[s] : b = Expected(s) \/ position \in left
  BY <1>1, <1>2, <1>5, <1>6 DEF QueryInv, WalletInv, Was, node
<1>11. \A s \in Side : Expected(s)' = Expected(s)
  BY <1>1 DEF Expected
<1>12. /\ stage' \in {"after", "wallet code", "final parent", "final header"} => balances'["before"] # {}
       /\ stage' \in {"wallet code", "final parent", "final header"} => balances'["after"] # {}
  BY <1>1, <1>2, <1>6 DEF QueryInv, WalletInv, Side
<1>13. WalletInv'
  BY <1>1, <1>2, <1>3, <1>9, <1>10, <1>11, <1>12 DEF QueryInv, WalletInv, node
<1>14. QED  BY <1>7, <1>8, <1>13 DEF QueryInv

\* The query ends, with facts or without.
LEMMA QueryEndsKeeps ==
  ASSUME QueryInv, stage \notin {"idle", "header", "code", "call", "end"}, Forget,
         UNCHANGED <<node, simulation>>, FactsAreOfOneBlock',
         facts' = None \/ facts' \in [tx : Tx, position : Block, balances : [Side -> SUBSET Block]]
  PROVE  QueryInv'
<1>1. /\ stage' = "idle" /\ base' = None /\ reply' = None
      /\ tx' = None /\ position' = None /\ balances' = [s \in Side |-> {}]
  BY DEF Forget
<1>2. QueryTypeOK'
  BY <1>1 DEF QueryInv, QueryTypeOK, Stage, Side
<1>3. StageInv' /\ SimulationInv'
  BY <1>1 DEF QueryInv, StageInv, SimulationInv, SimulationIsOfItsBlock
<1>4. WalletInv'
  BY <1>1 DEF WalletInv, Looked
<1>5. QED  BY <1>2, <1>3, <1>4 DEF QueryInv

LEMMA FinalHeaderKeeps ==
  ASSUME NodeInv, QueryInv, FinalHeader
  PROVE  QueryInv'
<1>1. /\ stage = "final header" /\ At(Number(position)) = position
      /\ facts' = [tx |-> tx, position |-> position, balances |-> balances]
      /\ Forget /\ UNCHANGED <<node, simulation>>
  BY DEF FinalHeader
<1>2. /\ position \in Block /\ tx \in Tx /\ tx \in Transactions[position]
      /\ balances \in [Side -> SUBSET Block]
      /\ balances["before"] # {} /\ balances["after"] # {}
  BY <1>1 DEF QueryInv, QueryTypeOK, WalletInv, Looked
<1>3. ~returns => position \notin left
  BY <1>1, <1>2, HeaderIsOf
<1>4. ASSUME ~returns, NEW s \in Side  PROVE balances[s] = {Expected(s)}
  <2>1. \A b \in balances[s] : b = Expected(s)
    BY <1>1, <1>3, <1>4 DEF QueryInv, WalletInv, Looked
  <2>2. balances[s] # {}
    BY <1>2, <1>4 DEF Side
  <2>3. QED  BY <2>1, <2>2
<1>5. ~returns => balances = [side \in Side |->
         IF side = "after" THEN {position} ELSE {Parent(position)}]
  BY <1>2, <1>4 DEF Expected
<1>6. /\ facts'.tx = tx /\ facts'.position = position /\ facts'.balances = balances
      /\ facts' \in [tx : Tx, position : Block, balances : [Side -> SUBSET Block]]
  BY <1>1, <1>2
<1>7. FactsAreOfOneBlock'
  BY <1>1, <1>2, <1>5, <1>6 DEF FactsAreOfOneBlock, node
<1>8. QED  BY <1>1, <1>6, <1>7, QueryEndsKeeps

LEMMA WalletFactsKeeps ==
  ASSUME NodeInv, QueryInv, WalletFacts
  PROVE  QueryInv' /\ UNCHANGED node
<1>1. UNCHANGED node
  BY DEF WalletFacts, AskFacts, AskTransaction, AskReceipt, AskHeader, AskParent, AskBalance,
         AskCode, FinalParent, FinalHeader, WalletFails, WalletAsks
<1> SUFFICES QueryInv'
  BY <1>1
<1>2. CASE AskFacts
  <2>1. /\ stage = "idle" /\ stage' = "transaction" /\ tx' \in Tx /\ tx' # None
        /\ UNCHANGED <<node, base, reply, position, balances, simulation, facts>>
    BY <1>2, QueryAssumption DEF AskFacts
  <2>2. base = None
    BY <2>1 DEF QueryInv, QueryTypeOK
  <2>3. QueryTypeOK'
    BY <2>1, <2>2 DEF QueryInv, QueryTypeOK, Stage
  <2>4. StageInv' /\ SimulationInv' /\ WalletInv'
    BY <2>1, <2>2 DEF QueryInv, StageInv, SimulationInv, WalletInv, Looked,
       SimulationIsOfItsBlock, FactsAreOfOneBlock, node
  <2>5. QED  BY <2>3, <2>4 DEF QueryInv
<1>3. CASE AskTransaction
  <2>1. /\ stage = "transaction" /\ stage' = "receipt" /\ position' \in BlockOf(tx)
        /\ UNCHANGED <<node, base, reply, tx, balances, simulation, facts>>
    BY <1>3 DEF AskTransaction
  <2>2. PICK b \in BlockOf(tx) : b = position'
    BY <2>1
  <2>3. b \in Block /\ Number(b) > 0 /\ tx \in Transactions[b]
    BY BlockOfFacts
  <2>4. base = None /\ tx \in Tx /\ tx # None
    BY <2>1, QueryRuns, QueryAssumption
  <2>5. QueryTypeOK'
    BY <2>1, <2>2, <2>3, <2>4 DEF QueryInv, QueryTypeOK, Stage
  <2>6. StageInv' /\ SimulationInv' /\ WalletInv'
    BY <2>1, <2>2, <2>3, <2>4 DEF QueryInv, StageInv, SimulationInv, WalletInv, Looked,
       SimulationIsOfItsBlock, FactsAreOfOneBlock, node
  <2>7. QED  BY <2>5, <2>6 DEF QueryInv
<1>4. CASE AskReceipt \/ AskParent \/ AskCode \/ FinalParent
  BY <1>4, WalletAsksKeeps DEF AskReceipt, AskParent, AskCode, FinalParent
<1>5. CASE AskHeader
  <2>1. WalletAsks("header of it", "parent") /\ At(Number(position)) = position
    BY <1>5 DEF AskHeader
  <2>2. position \in Block
    BY <2>1 DEF QueryInv, WalletInv, WalletAsks
  <2>3. Was(position)
    BY <2>1, <2>2, HeaderIsOf
  <2>4. QED  BY <2>1, <2>3, WalletAsksKeeps
<1>6. CASE \E side \in Side : AskBalance(side)
  BY <1>6, AskBalanceKeeps
<1>7. CASE FinalHeader
  BY <1>7, FinalHeaderKeeps
<1>8. CASE WalletFails
  <2>1. tx # None /\ Forget /\ UNCHANGED <<node, simulation, facts>>
    BY <1>8 DEF WalletFails
  <2>2. stage \notin {"idle", "header", "code", "call", "end"}
    BY <2>1 DEF QueryInv, QueryTypeOK, StageInv
  <2>3. FactsAreOfOneBlock'
    BY <2>1 DEF QueryInv, WalletInv, FactsAreOfOneBlock, node
  <2>4. facts' = None \/ facts' \in [tx : Tx, position : Block, balances : [Side -> SUBSET Block]]
    BY <2>1 DEF QueryInv, QueryTypeOK
  <2>5. QED  BY <2>1, <2>2, <2>3, <2>4, QueryEndsKeeps
<1>9. QED
  BY <1>2, <1>3, <1>4, <1>5, <1>6, <1>7, <1>8 DEF WalletFacts

-----------------------------------------------------------------------------
(* The run, its registry and its bootstrap                                 *)

\* The words that were read are of the block, or the node left it.
ReadInv ==
  /\ reading # "idle" => at \in Block /\ at = tip
  /\ reading \in {"code", "pools", "end"} => header = at
  /\ reading \in {"code", "pools", "end"} /\ ~returns => Was(at)
  /\ reading \in {"pools", "end"} /\ ~returns =>
       \A p \in Pool : \A b \in read[p] : b = at \/ at \in left
  /\ reading \in {"pools", "end"} /\ ~returns =>
       \A p \in Followed, k \in DOMAIN Asked :
         k <= Words - wanted[p] => Happened(Asked[k], p, at) \/ at \in left
  /\ reading \notin {"pools", "end"} => \A p \in Pool : read[p] = {}
  /\ reading = "end" => \A p \in Pool : wanted[p] = 0

\* The first snapshot is on the branch the database is on, and the run still has its pools.
SnapshotInv ==
  snapshot # None =>
    /\ OnChain(snapshot.first, tip)
    /\ ~returns => /\ \A p \in snapshot.pools : snapshot.words[p] = {snapshot.position}
                   /\ snapshot.pools \subseteq Live(snapshot.first)

RunInv == BootstrapTypeOK /\ ReadInv /\ SnapshotInv /\ RegistryKnowsBranch

\* The first calls cover a launch, and there are as many.
LEMMA AskedFacts ==
  /\ DOMAIN Asked = 1 .. 3 /\ 3 <= Words /\ Words \in Nat
  /\ \A k \in Launch : \E i \in DOMAIN Asked : Asked[i] = k
BY ReadAssumption DEF Asked, Launch

LEMMA RunInitInv ==
  ASSUME BootstrapInit
  PROVE  RunInv
<1>1. ASSUME NEW b \in Block, OnChain(b, <<>>)  PROVE b = <<>>
  <2>1. Number(b) <= Number(<<>>)
    BY <1>1, BlockAssumption, OnChainPointwise
  <2>2. Len(b) <= 0 /\ b \in Seq(Nat) /\ Len(b) \in Nat
    BY <2>1, BlockFacts, EmptySeq DEF Number
  <2>3. QED  BY <2>2, EmptySeq
<1>2. BootstrapTypeOK
  <2>1. RegistryTypeOK
    BY BlockAssumption DEF BootstrapInit, RegistryInit, RegistryTypeOK
  <2>2. 0 \in 0 .. Words
    BY AskedFacts
  <2>3. wanted \in [Pool -> 0 .. Words] /\ read \in [Pool -> SUBSET Block]
    BY <2>2 DEF BootstrapInit
  <2>4. QED  BY <2>1, <2>3 DEF BootstrapInit, BootstrapTypeOK, Reading
<1>3. ReadInv /\ SnapshotInv
  BY DEF BootstrapInit, ReadInv, SnapshotInv
<1>4. RegistryKnowsBranch
  <2>1. tip = <<>> /\ Discovered(<<>>) = {}
    BY LaunchAssumption DEF BootstrapInit, RegistryInit, Discovered
  <2>2. QED  BY <1>1, <2>1 DEF RegistryKnowsBranch
<1>5. QED  BY <1>2, <1>3, <1>4 DEF RunInv

\* The lowest of some blocks.
LEMMA LowestBlock ==
  ASSUME NEW S \in SUBSET Block, S # {}
  PROVE  \E b \in S : \A a \in S : Number(b) <= Number(a)
<1> DEFINE Heights == {Number(b) : b \in S}
           Less == OpToRel(<, Nat)
<1>1. Heights \subseteq Nat /\ Heights # {}
  BY BlockFacts
<1>2. \E x \in Heights : \A y \in Heights : ~ (<<y, x>> \in Less)
  <2> HIDE DEF Heights
  <2>1. IsWellFoundedOn(Less, Nat)
    BY NatLessThanWellFounded
  <2> HIDE DEF Less
  <2>2. QED  BY <1>1, <2>1, WFMin
<1>3. PICK x \in Heights : \A y \in Heights : ~ (<<y, x>> \in Less)
  BY <1>2
<1>4. \A y \in Heights : x <= y
  <2> HIDE DEF Heights
  <2>1. ASSUME NEW y \in Heights, ~(x <= y)  PROVE FALSE
    <3>1. x \in Nat /\ y \in Nat /\ y < x
      BY <1>1, <2>1
    <3>2. <<y, x>> \in Less
      BY <3>1 DEF OpToRel
    <3>3. QED  BY <1>3, <2>1, <3>2
  <2>2. QED  BY <2>1
<1>5. PICK b \in S : x = Number(b)
  BY <1>3
<1>6. QED  BY <1>4, <1>5

\* Rows are never taken back, so what the branch had and the new blocks had is there.
RowsStay == \A p \in Pool : registry[p] # None => registry'[p] = registry[p]

LEMMA AppendBlockKeeps ==
  ASSUME RegistryTypeOK, RegistryKnowsBranch, NEW b \in Block,
         Number(b) = Number(tip) + 1, AppendBlock(b)
  PROVE  /\ RegistryTypeOK' /\ RegistryKnowsBranch' /\ RowsStay
         /\ OnChain(tip, tip') /\ tip' \in Block /\ Number(tip) < Number(tip')
<1>1. /\ tip \in Block /\ tip' = b /\ Parent(b) = tip
      /\ registry' = [p \in Pool |-> IF p \in Discovered(b) /\ registry[p] = None
                                       THEN b ELSE registry[p]]
      /\ registry \in [Pool -> Block \cup {None}] /\ gap' = FALSE
  BY DEF AppendBlock, RegistryTypeOK, Register
<1>2. Number(tip) \in Nat /\ Number(b) \in Nat /\ None \notin Block
  BY <1>1, BlockFacts, NodeAssumption
<1>3. OnChain(tip, b)
  <2>1. Number(b) - 1 \in 0 .. Number(b) /\ BlockAt(b, Number(b) - 1) = tip
    BY <1>1, <1>2, OwnHeight
  <2>2. QED  BY <2>1, BlockAtFacts
<1>4. RegistryTypeOK' /\ RowsStay
  BY <1>1 DEF RegistryTypeOK, RowsStay
<1>5. ASSUME NEW c \in Block, OnChain(c, b), c # b  PROVE OnChain(c, tip)
  <2>1. Number(c) \in Nat /\ Number(c) <= Number(b)
    BY <1>5, BlockFacts, OnChainPointwise
  <2>2. Number(c) # Number(b)
    <3>1. Number(b) \in 0 .. Number(b) /\ BlockAt(b, Number(b)) = b
      BY OwnHeight
    <3>2. QED  BY <1>5, <3>1, BlockAtFacts
  <2>3. Number(c) <= Number(tip)
    BY <1>2, <2>1, <2>2
  <2>4. QED  BY <1>1, <1>3, <1>5, <2>3, AncestorsAreOrdered
<1>6. ASSUME NEW c \in Block, OnChain(c, tip'), NEW p \in Discovered(c)
      PROVE  registry'[p] # None
  <2>1. p \in Pool
    BY DEF Discovered
  <2>2. CASE c = b
    BY <1>1, <1>2, <1>6, <2>1, <2>2
  <2>3. CASE c # b
    <3>1. registry[p] # None
      BY <1>1, <1>5, <1>6, <2>1, <2>3 DEF RegistryKnowsBranch, Registered
    <3>2. QED  BY <1>1, <2>1, <3>1
  <2>4. QED  BY <2>2, <2>3
<1>7. RegistryKnowsBranch'
  <2> SUFFICES ASSUME NEW c \in Block, OnChain(c, tip'), NEW p \in Discovered(c)
               PROVE  p \in Pool /\ registry'[p] # None
    BY DEF RegistryKnowsBranch, Registered
  <2>1. QED  BY <1>6 DEF Discovered
<1>8. QED  BY <1>1, <1>2, <1>3, <1>4, <1>7

\* The pools of some blocks are added, whichever blocks of a new branch they are.
LEMMA RegisterAllKeeps ==
  ASSUME registry \in [Pool -> Block \cup {None}], NEW blocks \in SUBSET Block,
         registry' = RegisterAll(registry, blocks)
  PROVE  /\ registry' \in [Pool -> Block \cup {None}] /\ RowsStay
         /\ \A p \in Pool, c \in blocks : p \in Discovered(c) => registry'[p] # None
<1>1. None \notin Block
  BY NodeAssumption
<1>2. ASSUME NEW p \in Pool, registry[p] = None, NEW c \in blocks, p \in Discovered(c)
      PROVE  registry'[p] \in Block
  <2> DEFINE Of == {b \in blocks : p \in Discovered(b)}
  <2>1. Of \subseteq Block /\ Of # {}
    BY <1>2
  <2>2. \E b \in Of : \A a \in Of : Number(b) <= Number(a)
    BY <2>1, LowestBlock
  <2>3. PICK b \in blocks : /\ p \in Discovered(b)
                            /\ \A a \in blocks : p \in Discovered(a) => Number(b) <= Number(a)
    BY <2>2
  <2>4. registry'[p] = CHOOSE x \in blocks :
                          /\ p \in Discovered(x)
                          /\ \A a \in blocks : p \in Discovered(a) => Number(x) <= Number(a)
    BY <1>2 DEF RegisterAll
  <2>5. registry'[p] \in blocks
    BY <2>3, <2>4
  <2>6. QED  BY <2>5
<1>3. ASSUME NEW p \in Pool, registry[p] # None \/ \A c \in blocks : p \notin Discovered(c)
      PROVE  registry'[p] = registry[p]
  BY <1>3 DEF RegisterAll
<1>4. \A p \in Pool : registry'[p] \in Block \cup {None}
  BY <1>2, <1>3
<1>5. registry' = [p \in Pool |-> registry'[p]]
  BY DEF RegisterAll
<1>6. registry' \in [Pool -> Block \cup {None}]
  BY <1>4, <1>5
<1>7. QED  BY <1>1, <1>2, <1>3, <1>6 DEF RowsStay

LEMMA AppendBranchKeeps ==
  ASSUME NodeInv, RegistryTypeOK, RegistryKnowsBranch, AppendBranch
  PROVE  /\ RegistryTypeOK' /\ RegistryKnowsBranch' /\ RowsStay
         /\ tip' \in Block /\ OnChain(tip', head) /\ Number(tip) < Number(tip')
<1>1. /\ tip \in Block /\ head \in Block /\ Number(head) > Number(tip)
      /\ tip' = BlockAt(head, Number(tip) + 1) /\ gap' = FALSE
      /\ registry' = RegisterAll(registry, Replacement)
      /\ registry \in [Pool -> Block \cup {None}]
  BY DEF AppendBranch, LeftBranch, RegistryTypeOK, NodeInv, NodeTypeOK
<1>2. Number(tip) \in Nat /\ Number(head) \in Nat
  BY <1>1, BlockFacts
<1>3. tip' \in Block /\ Number(tip') = Number(tip) + 1 /\ OnChain(tip', head)
  BY <1>1, <1>2, BlockAtFacts
<1>4. Replacement \subseteq Block
  BY <1>1, <1>2, BlockAtFacts DEF Replacement
<1>5. /\ registry' \in [Pool -> Block \cup {None}] /\ RowsStay
      /\ \A p \in Pool, c \in Replacement : p \in Discovered(c) => registry'[p] # None
  BY <1>1, <1>4, RegisterAllKeeps
<1>6. RegistryTypeOK'
  BY <1>1, <1>3, <1>5 DEF RegistryTypeOK
<1>7. ASSUME NEW c \in Block, OnChain(c, tip'), NEW p \in Discovered(c)
      PROVE  p \in Pool /\ registry'[p] # None
  <2>1. p \in Pool
    BY DEF Discovered
  <2>2. CASE OnChain(c, tip)
    <3>1. registry[p] # None
      BY <1>7, <2>1, <2>2 DEF RegistryKnowsBranch, Registered
    <3>2. QED  BY <1>5, <2>1, <3>1 DEF RowsStay
  <2>3. CASE ~OnChain(c, tip)
    <3>1. Number(c) \in Nat /\ Number(c) <= Number(tip) + 1 /\ OnChain(c, head)
      BY <1>1, <1>3, <1>7, BlockFacts, OnChainPointwise, OnChainTransitive
    <3>2. c = BlockAt(head, Number(c))
      BY <1>1, <1>2, <3>1, BlockAtFacts
    <3>3. Number(c) # 0
      <4>1. SUFFICES ASSUME Number(c) = 0  PROVE FALSE
        OBVIOUS
      <4>2. c = <<>>
        BY <4>1, BlockFacts, EmptySeq DEF Number
      <4>3. QED  BY <4>2, LaunchAssumption DEF Discovered
    <3>4. c \in Replacement
      <4>1. Number(c) \in 1 .. Number(tip) + 1
        BY <1>2, <3>1, <3>3
      <4>2. QED  BY <2>3, <3>2, <4>1 DEF Replacement
    <3>5. QED  BY <1>5, <2>1, <3>4
  <2>4. QED  BY <2>2, <2>3
<1>8. RegistryKnowsBranch'
  BY <1>7 DEF RegistryKnowsBranch, Registered
<1>9. QED  BY <1>2, <1>3, <1>5, <1>6, <1>8

LEMMA AppendPartKeeps ==
  ASSUME NodeInv, RegistryTypeOK, RegistryKnowsBranch, AppendPart
  PROVE  RegistryTypeOK' /\ RegistryKnowsBranch' /\ tip' = tip
<1>1. /\ tip \in Block /\ head \in Block /\ Number(head) > Number(tip)
      /\ tip' = tip /\ gap' = TRUE /\ registry \in [Pool -> Block \cup {None}]
  BY DEF AppendPart, LeftBranch, RegistryTypeOK, NodeInv, NodeTypeOK
<1>2. PICK n \in 0 .. Number(tip) + 1 :
        registry' = RegisterAll(registry, {b \in Replacement : Number(b) <= n})
  BY DEF AppendPart
<1>3. Replacement \subseteq Block
  BY <1>1, BlockFacts, BlockAtFacts DEF Replacement
<1>4. {b \in Replacement : Number(b) <= n} \subseteq Block
  BY <1>3
<1>5. registry' \in [Pool -> Block \cup {None}] /\ RowsStay
  BY <1>1, <1>2, <1>4, RegisterAllKeeps
<1>6. RegistryTypeOK'
  BY <1>1, <1>5 DEF RegistryTypeOK
<1>7. RegistryKnowsBranch'
  BY <1>1, <1>5 DEF RegistryKnowsBranch, Registered, RowsStay, Discovered
<1>8. QED  BY <1>1, <1>6, <1>7

LEMMA NodeMovesKeepsRun ==
  ASSUME NodeInv, RunInv, NodeMoves, UNCHANGED run
  PROVE  RunInv'
<1>1. /\ tip' = tip /\ registry' = registry /\ gap' = gap /\ reading' = reading /\ at' = at
      /\ header' = header /\ wanted' = wanted /\ read' = read /\ snapshot' = snapshot
  BY DEF run, progress, database
<1>2. /\ UNCHANGED returns
      /\ ~returns => \A b \in Block : (Was(b) => Was(b)') /\ (b \in left => b \in left')
  BY NodeMovesOn
<1>3. BootstrapTypeOK' /\ RegistryKnowsBranch'
  BY <1>1 DEF RunInv, BootstrapTypeOK, RegistryTypeOK, Followed, Registered, RegistryKnowsBranch
<1>4. ReadInv'
  <2>1. reading # "idle" => at \in Block
    BY DEF RunInv, ReadInv
  <2>2. ASSUME reading # "idle", ~returns
        PROVE  /\ Was(at) => OnChain(at, head') \/ at \in left'
               /\ at \in left => at \in left'
    <3>1. PICK a \in Block : a = at
      BY <2>1, <2>2
    <3>2. (Was(a) => OnChain(a, head') \/ a \in left') /\ (a \in left => a \in left')
      BY <1>2, <2>2 DEF Was
    <3>3. QED  BY <3>1, <3>2 DEF Was
  <2>3. Followed' = Followed
    BY <1>1 DEF Followed, Registered
  <2>4. QED  BY <1>1, <1>2, <2>1, <2>2, <2>3 DEF RunInv, ReadInv, Was, Happened
<1>5. SnapshotInv'
  BY <1>1, <1>2 DEF RunInv, SnapshotInv
<1>6. QED  BY <1>3, <1>4, <1>5 DEF RunInv

LEMMA CollectBlockKeeps ==
  ASSUME NodeInv, RunInv, CollectBlock
  PROVE  RunInv'
<1> DEFINE pools == IF snapshot = None THEN {p \in Pool : registry'[p] # None} ELSE snapshot.pools
           b == BlockAt(head, Number(tip) + 1)
<1>1. /\ reading = "idle" /\ Number(head) > Number(tip) /\ AppendBlock(b) /\ UNCHANGED node
      /\ \/ UNCHANGED <<progress, snapshot>>
         \/ /\ reading' = "header" /\ at' = tip'
            /\ wanted' = [p \in Pool |-> IF p \in pools THEN Words ELSE 0]
            /\ UNCHANGED <<header, read, snapshot>>
  BY DEF CollectBlock
<1>2. snapshot' = snapshot
  BY <1>1
<1>3. tip \in Block /\ head \in Block /\ Number(tip) \in Nat /\ Number(head) \in Nat
  BY BlockFacts DEF RunInv, BootstrapTypeOK, RegistryTypeOK, NodeInv, NodeTypeOK
<1>4. b \in Block /\ Number(b) = Number(tip) + 1
  BY <1>1, <1>3, BlockAtFacts
<1>5. /\ RegistryTypeOK' /\ RegistryKnowsBranch' /\ RowsStay
      /\ OnChain(tip, tip') /\ tip' \in Block
  <2> HIDE DEF b
  <2>1. QED  BY <1>1, <1>4, AppendBlockKeeps DEF RunInv, BootstrapTypeOK
<1>6. SnapshotInv'
  <2>1. snapshot # None => OnChain(snapshot.first, tip')
    BY <1>3, <1>5, OnChainTransitive DEF RunInv, SnapshotInv, BootstrapTypeOK, Snapshot
  <2>2. UNCHANGED returns
    BY <1>1 DEF node
  <2>3. QED  BY <1>2, <2>1, <2>2 DEF RunInv, SnapshotInv
<1>7. read' = read /\ \A p \in Pool : read[p] = {}
  BY <1>1 DEF RunInv, ReadInv, progress
<1>8. CASE UNCHANGED <<progress, snapshot>>
  <2>1. BootstrapTypeOK'
    BY <1>1, <1>5, <1>8 DEF RunInv, BootstrapTypeOK, progress
  <2>2. ReadInv'
    BY <1>1, <1>7, <1>8 DEF RunInv, ReadInv, progress
  <2>3. QED  BY <1>5, <1>6, <2>1, <2>2 DEF RunInv
<1>9. CASE reading' = "header" /\ at' = tip' /\ header' = header
           /\ wanted' = [p \in Pool |-> IF p \in pools THEN Words ELSE 0]
  <2>1. Followed' = pools
    BY <1>2 DEF Followed, Registered
  <2>2. wanted' \in [Pool -> 0 .. Words] /\ \A p \in Followed' : p \in Pool => wanted'[p] = Words
    <3> HIDE DEF pools
    <3>1. QED  BY <1>9, <2>1, ReadAssumption
  <2>3. Followed' \subseteq Pool
    BY <1>2, <2>1 DEF RunInv, BootstrapTypeOK, Snapshot
  <2>4. BootstrapTypeOK'
    BY <1>2, <1>5, <1>7, <1>9, <2>2, <2>3 DEF RunInv, BootstrapTypeOK, Reading
  <2>5. ReadInv'
    BY <1>5, <1>7, <1>9 DEF RunInv, ReadInv
  <2>6. QED  BY <1>5, <1>6, <2>4, <2>5 DEF RunInv
<1>10. QED  BY <1>1, <1>8, <1>9

LEMMA OtherRunsKeep ==
  ASSUME NodeInv, RunInv, RecoverBranch \/ NewRun \/ Waits
  PROVE  RunInv'
<1>1. CASE RecoverBranch
  <2>1. /\ reading = "idle" /\ snapshot # None /\ OnChain(snapshot.first, head)
        /\ AppendBranch \/ AppendPart
        /\ UNCHANGED <<node, progress, snapshot>>
    BY <1>1 DEF RecoverBranch
  <2>2. /\ RegistryTypeOK' /\ RegistryKnowsBranch' /\ tip' \in Block
        /\ tip' = tip \/ (OnChain(tip', head) /\ Number(tip) < Number(tip'))
    BY <2>1, AppendBranchKeeps, AppendPartKeeps DEF RunInv, BootstrapTypeOK, RegistryTypeOK
  <2>3. snapshot.first \in Block /\ head \in Block /\ tip \in Block /\ OnChain(snapshot.first, tip)
    BY <2>1 DEF RunInv, SnapshotInv, BootstrapTypeOK, RegistryTypeOK, Snapshot, NodeInv, NodeTypeOK
  <2>4. OnChain(snapshot.first, tip')
    <3>1. CASE tip' = tip
      BY <2>3, <3>1
    <3>2. CASE OnChain(tip', head) /\ Number(tip) < Number(tip')
      <4>1. Number(snapshot.first) <= Number(tip')
        BY <2>2, <2>3, <3>2, BlockFacts, OnChainPointwise
      <4>2. QED  BY <2>1, <2>2, <2>3, <3>2, <4>1, AncestorsAreOrdered
    <3>3. QED  BY <2>2, <3>1, <3>2
  <2>5. SnapshotInv'
    BY <2>1, <2>4 DEF RunInv, SnapshotInv, node
  <2>6. BootstrapTypeOK' /\ ReadInv'
    BY <2>1, <2>2 DEF RunInv, BootstrapTypeOK, ReadInv, progress
  <2>7. QED  BY <2>2, <2>5, <2>6 DEF RunInv
<1>2. CASE NewRun
  <2>1. reading = "idle" /\ snapshot' = None /\ UNCHANGED <<node, database, progress>>
    BY <1>2 DEF NewRun
  <2>2. QED
    BY <2>1 DEF RunInv, BootstrapTypeOK, RegistryTypeOK, ReadInv, SnapshotInv,
       RegistryKnowsBranch, Registered, progress, database
<1>3. CASE Waits
  <2>1. UNCHANGED <<node, run>>
    BY <1>3 DEF Waits
  <2>2. QED
    BY <2>1 DEF RunInv, BootstrapTypeOK, RegistryTypeOK, ReadInv, SnapshotInv, Followed,
       RegistryKnowsBranch, Registered, progress, database, run, node, Was, Happened
<1>4. QED  BY <1>1, <1>2, <1>3

\* A step of bootstrap that leaves the tables, the snapshot and what was read.
LEMMA LooksKeep ==
  ASSUME NodeInv, RunInv, Header \/ Code
  PROVE  RunInv'
<1>1. /\ reading \in {"header", "code"}
      /\ UNCHANGED <<node, tip, registry, gap, at, wanted, read, snapshot>>
      /\ reading' \in {"code", "pools"}
      /\ header' = at
  BY DEF Header, Code, RunInv, ReadInv, database
<1>2. at \in Block /\ at = tip
  BY <1>1 DEF RunInv, ReadInv
<1>3. ~returns => Was(at)
  <2>1. CASE reading = "code"
    BY <2>1 DEF RunInv, ReadInv
  <2>2. CASE Header
    <3>1. Reaches(Number(at)) /\ Canonical(Number(at)) = at
      BY <1>2, <2>2, NodeAssumption DEF Header, Answers
    <3>2. head \in Block /\ Number(at) \in 0 .. Number(head)
      BY <1>2, <3>1, BlockFacts DEF Reaches, NodeInv, NodeTypeOK
    <3>3. QED  BY <3>1, <3>2, BlockAtFacts DEF Canonical, Was
  <2>3. QED  BY <2>1, <2>2 DEF Code
<1>4. BootstrapTypeOK'
  BY <1>1, <1>2 DEF RunInv, BootstrapTypeOK, RegistryTypeOK, Followed, Registered, Reading
<1>5. ReadInv'
  <2>1. Followed' = Followed /\ Followed \subseteq Pool
    BY <1>1 DEF Followed, Registered, RunInv, BootstrapTypeOK, Snapshot
  <2>2. \A p \in Followed : wanted[p] = Words
    BY <1>1, <2>1 DEF RunInv, ReadInv, BootstrapTypeOK
  <2>3. \A p \in Followed', k \in DOMAIN Asked : ~(k <= Words - wanted'[p])
    BY <1>1, <2>1, <2>2, AskedFacts
  <2>4. QED  BY <1>1, <1>2, <1>3, <2>3 DEF RunInv, ReadInv, Was, node
<1>6. SnapshotInv' /\ RegistryKnowsBranch'
  BY <1>1 DEF RunInv, SnapshotInv, RegistryKnowsBranch, Registered, node
<1>7. QED  BY <1>4, <1>5, <1>6 DEF RunInv

LEMMA ReadWordKeeps ==
  ASSUME NodeInv, RunInv, NEW p \in Pool, ReadWord(p)
  PROVE  RunInv'
<1> DEFINE c == Canonical(Number(at))
<1>1. /\ reading = "pools" /\ wanted[p] > 0 /\ Reaches(Number(at))
      /\ LET k == Words - wanted[p] + 1 IN k \in DOMAIN Asked => Happened(Asked[k], p, c)
      /\ wanted' = [wanted EXCEPT ![p] = wanted[p] - 1]
      /\ read' = [read EXCEPT ![p] = @ \cup {c}]
      /\ reading' = IF \A q \in Pool : wanted'[q] = 0 THEN "end" ELSE "pools"
      /\ UNCHANGED <<node, tip, registry, gap, at, header, snapshot>>
  BY DEF ReadWord, database
<1>2. at \in Block /\ at = tip /\ header = at /\ (~returns => Was(at))
  BY <1>1 DEF RunInv, ReadInv
<1>3. /\ c \in Block
      /\ ~returns => c = at \/ at \in left
  <2>1. Number(at) \in 0 .. Number(at) /\ BlockAt(at, Number(at)) = at
    BY <1>2, OwnHeight
  <2>2. QED  BY <1>1, <1>2, <2>1, AnswerAtHeight
<1>4. /\ wanted \in [Pool -> 0 .. Words] /\ read \in [Pool -> SUBSET Block] /\ Words \in Nat
  BY ReadAssumption DEF RunInv, BootstrapTypeOK
<1> HIDE DEF c
<1>5. /\ wanted' \in [Pool -> 0 .. Words] /\ wanted'[p] # Words
      /\ \A q \in Pool \ {p} : wanted'[q] = wanted[q]
  <2>1. wanted[p] \in 0 .. Words
    BY <1>4
  <2>2. wanted[p] - 1 \in 0 .. Words /\ wanted[p] - 1 # Words
    BY <1>1, <1>4, <2>1
  <2>3. QED  BY <1>1, <1>4, <2>2
<1>6. /\ read' \in [Pool -> SUBSET Block] /\ read'[p] = read[p] \cup {c} /\ read'[p] # {}
      /\ \A q \in Pool \ {p} : read'[q] = read[q]
  BY <1>1, <1>3, <1>4
<1>7. BootstrapTypeOK'
  <2>1. Followed' = Followed /\ Followed \subseteq Pool
    BY <1>1 DEF Followed, Registered, RunInv, BootstrapTypeOK, Snapshot
  <2>2. \A q \in Followed' : read'[q] = {} <=> wanted'[q] = Words
    BY <1>1, <1>5, <1>6, <2>1 DEF RunInv, BootstrapTypeOK
  <2>3. RegistryTypeOK' /\ reading' \in Reading
    BY <1>1 DEF RunInv, BootstrapTypeOK, RegistryTypeOK, Reading
  <2>4. QED  BY <1>1, <1>5, <1>6, <2>2, <2>3 DEF RunInv, BootstrapTypeOK
<1>8. ReadInv'
  <2>1. UNCHANGED <<returns, left>> /\ reading' \in {"pools", "end"}
    BY <1>1 DEF node
  <2>2. ASSUME ~returns, NEW q \in Pool
        PROVE  \A b \in read'[q] : b = at \/ at \in left
    <3>1. \A b \in read[q] : b = at \/ at \in left
      BY <1>1, <2>2 DEF RunInv, ReadInv
    <3>2. QED  BY <1>3, <1>6, <2>2, <3>1
  <2>6. Followed' = Followed /\ Followed \subseteq Pool
    BY <1>1 DEF Followed, Registered, RunInv, BootstrapTypeOK, Snapshot
  <2>7. ASSUME ~returns, NEW q \in Followed, NEW k \in DOMAIN Asked, k <= Words - wanted'[q]
        PROVE  Happened(Asked[k], q, at) \/ at \in left
    <3>1. k <= Words - wanted[q] => Happened(Asked[k], q, at) \/ at \in left
      BY <1>1, <2>7 DEF RunInv, ReadInv
    <3>2. CASE q # p
      BY <1>5, <2>6, <2>7, <3>1, <3>2
    <3>3. CASE q = p
      <4>1. wanted'[p] = wanted[p] - 1 /\ wanted[p] \in 0 .. Words /\ k \in Nat
        BY <1>1, <1>4, AskedFacts
      <4>2. k <= Words - wanted[p] \/ k = Words - wanted[p] + 1
        BY <1>4, <2>7, <3>3, <4>1
      <4>3. k = Words - wanted[p] + 1 => Happened(Asked[k], p, c)
        BY <1>1, <2>7
      <4>4. QED  BY <1>3, <2>7, <3>1, <3>3, <4>2, <4>3
    <3>4. QED  BY <3>2, <3>3
  <2>3. reading' = "end" => \A q \in Pool : wanted'[q] = 0
    BY <1>1
  <2>4. ~returns' => Was(at)'
    BY <1>1, <1>2 DEF Was, node
  <2>8. \A q \in Pool, k \in DOMAIN Asked : Happened(Asked[k], q, at)' <=> Happened(Asked[k], q, at)
    BY <1>1 DEF Happened
  <2>9. QED  BY <1>1, <1>2, <2>1, <2>2, <2>3, <2>4, <2>6, <2>7, <2>8 DEF ReadInv
<1>9. SnapshotInv' /\ RegistryKnowsBranch'
  BY <1>1 DEF RunInv, SnapshotInv, RegistryKnowsBranch, Registered, node
<1>10. QED  BY <1>7, <1>8, <1>9 DEF RunInv

LEMMA EndKeeps ==
  ASSUME NodeInv, RunInv, End
  PROVE  RunInv'
<1>1. /\ reading = "end" /\ Answers(Number(at)) = header
      /\ snapshot' = [position |-> at, first |-> IF snapshot = None THEN at ELSE snapshot.first,
                      pools |-> Followed, words |-> read]
      /\ reading' = "idle" /\ Forgotten
  BY DEF End
<1>2. UNCHANGED <<node, tip, registry, gap>>
  BY DEF End, node, database
<1>3. at \in Block /\ at = tip /\ header = at
  BY <1>1 DEF RunInv, ReadInv
<1>4. ~returns => at \notin left
  <2>1. Reaches(Number(at)) /\ Canonical(Number(at)) = at
    BY <1>1, <1>3, NodeAssumption DEF Answers
  <2>2. Number(at) \in 0 .. Number(at)
    BY <1>3, OwnHeight
  <2>3. QED  BY <1>3, <2>1, <2>2, AnswerAtHeight
<1>5. /\ Followed \subseteq Pool /\ read \in [Pool -> SUBSET Block]
      /\ \A p \in Followed : read[p] # {}
  BY <1>1, AskedFacts DEF RunInv, BootstrapTypeOK, ReadInv, Snapshot, Followed, Registered
<1>6. snapshot' \in Snapshot
  <2>1. (IF snapshot = None THEN at ELSE snapshot.first) \in Block
    BY <1>3 DEF RunInv, BootstrapTypeOK, Snapshot
  <2>2. QED  BY <1>1, <1>3, <1>5, <2>1 DEF Snapshot
<1>7. ASSUME ~returns, NEW p \in Followed  PROVE read[p] = {at} /\ p \in Live(at)
  <2>1. (\A b \in read[p] : b = at) /\ wanted[p] = 0 /\ at \notin left
    BY <1>1, <1>4, <1>5, <1>7 DEF RunInv, ReadInv
  <2>2. \A k \in DOMAIN Asked : Happened(Asked[k], p, at)
    <3>1. \A k \in DOMAIN Asked : k <= Words - wanted[p]
      BY <2>1, AskedFacts
    <3>2. QED  BY <1>1, <1>7, <2>1, <3>1 DEF RunInv, ReadInv
  <2>3. p \in Live(at)
    BY <1>5, <2>2, AskedFacts DEF Live
  <2>4. QED  BY <1>5, <2>1, <2>3
<1>8. SnapshotInv'
  <2>1. /\ snapshot'.position = at /\ snapshot'.pools = Followed /\ snapshot'.words = read
        /\ snapshot'.first = IF snapshot = None THEN at ELSE snapshot.first
    BY <1>1
  <2>2. OnChain(at, tip') /\ returns' = returns /\ tip' = tip
    BY <1>2, <1>3, OnChainOrder DEF node
  <2>3. CASE snapshot = None
    BY <1>7, <2>1, <2>2, <2>3 DEF SnapshotInv
  <2>4. CASE snapshot # None
    <3>1. /\ OnChain(snapshot.first, tip)
          /\ ~returns => snapshot.pools \subseteq Live(snapshot.first)
      BY <2>4 DEF RunInv, SnapshotInv
    <3>2. Followed = snapshot.pools
      BY <2>4 DEF Followed
    <3>3. QED  BY <1>7, <2>1, <2>2, <2>4, <3>1, <3>2 DEF SnapshotInv
  <2>5. QED  BY <2>3, <2>4
<1>9. BootstrapTypeOK'
  <2>1. RegistryTypeOK' /\ wanted' \in [Pool -> 0 .. Words] /\ read' \in [Pool -> SUBSET Block]
    BY <1>1, <1>2, ReadAssumption DEF Forgotten, RunInv, BootstrapTypeOK, RegistryTypeOK
  <2>2. QED  BY <1>1, <1>6, <2>1 DEF Forgotten, BootstrapTypeOK, Reading
<1>10. ReadInv' /\ RegistryKnowsBranch'
  BY <1>1, <1>2 DEF Forgotten, RunInv, ReadInv, RegistryKnowsBranch, Registered
<1>11. QED  BY <1>8, <1>9, <1>10 DEF RunInv

LEMMA FailsKeeps ==
  ASSUME RunInv, Fails
  PROVE  RunInv'
<1>1. reading' = "idle" /\ Forgotten /\ UNCHANGED <<tip, registry, gap, snapshot>>
  BY DEF Fails, database
<1>2. UNCHANGED node
  BY DEF Fails, node
<1>3. BootstrapTypeOK'
  BY <1>1, ReadAssumption DEF Forgotten, RunInv, BootstrapTypeOK, RegistryTypeOK, Reading
<1>4. ReadInv' /\ SnapshotInv' /\ RegistryKnowsBranch'
  BY <1>1, <1>2 DEF Forgotten, RunInv, ReadInv, SnapshotInv, RegistryKnowsBranch, Registered, node
<1>5. QED  BY <1>3, <1>4 DEF RunInv

-----------------------------------------------------------------------------
(* All clients                                                             *)

ClientInv == NodeInv /\ QueryInv /\ RunInv

LEMMA ReadersKeepNode ==
  ASSUME Runs \/ Bootstrap \/ Simulating \/ WalletFacts
  PROVE  UNCHANGED node
<1>1. CASE Runs
  BY <1>1 DEF Runs, CollectBlock, RecoverBranch, NewRun, Waits
<1>2. CASE Bootstrap
  BY <1>2 DEF Bootstrap, Header, Code, ReadWord, End, Fails
<1>3. CASE Simulating
  BY <1>3 DEF Simulating, Simulate, SimulationHeader, SimulationCode, SimulationCall,
     SimulationEnd, SimulationFails, SimulationEnds
<1>4. CASE WalletFacts
  BY <1>4 DEF WalletFacts, AskFacts, AskTransaction, AskReceipt, AskHeader, AskParent,
     AskBalance, AskCode, FinalParent, FinalHeader, WalletFails, WalletAsks
<1>5. QED  BY <1>1, <1>2, <1>3, <1>4

\* To collect, the other clients are not there: every step of one of them is a stutter.
LEMMA ClientStepCollects == [ClientNext]_clientVars => [Next]_vars
<1>1. CASE NodeMoves /\ UNCHANGED collection
  BY <1>1 DEF Next, collection, own
<1>2. CASE Collecting(Run) \/ Collecting(Command) \/ Collecting(Crash)
  BY <1>2 DEF Collecting, Next
<1>3. CASE (Runs \/ Bootstrap \/ Simulating \/ WalletFacts) /\ UNCHANGED collection
  BY <1>3, ReadersKeepNode DEF collection, vars
<1>4. CASE UNCHANGED clientVars
  BY <1>4 DEF clientVars, collection, vars
<1>5. QED  BY <1>1, <1>2, <1>3, <1>4 DEF ClientNext

\* The clients, seen by their collecting alone, behave as CollectCommand: whatever was
\* proved of it holds beside every other reader of the node.
THEOREM ClientsCollect == ClientSpec => Spec
<1>1. ClientInit => Init
  BY DEF ClientInit
<1>2. QED  BY <1>1, ClientStepCollects, PTL DEF ClientSpec, Spec

LEMMA NodeKeptInv ==
  ASSUME NodeInv, UNCHANGED node
  PROVE  NodeInv'
BY DEF NodeInv, NodeTypeOK, node

LEMMA QueryKept ==
  ASSUME QueryInv, UNCHANGED <<node, queries>>
  PROVE  QueryInv'
<1>1. /\ stage' = stage /\ base' = base /\ reply' = reply /\ simulation' = simulation
      /\ tx' = tx /\ position' = position /\ balances' = balances /\ facts' = facts
      /\ head' = head /\ returns' = returns /\ left' = left
  BY DEF queries, queryVars, node
<1>2. QueryTypeOK' /\ StageInv'
  BY <1>1 DEF QueryInv, QueryTypeOK, StageInv
<1>3. SimulationInv'
  BY <1>1 DEF QueryInv, SimulationInv, SimulationIsOfItsBlock
<1>4. FactsAreOfOneBlock'
  BY <1>1 DEF QueryInv, WalletInv, FactsAreOfOneBlock
<1>5. \A side \in Side : Expected(side)' = Expected(side)
  BY <1>1 DEF Expected
<1>6. WalletInv'
  BY <1>1, <1>4, <1>5 DEF QueryInv, WalletInv, Was, Expected
<1>7. QED  BY <1>2, <1>3, <1>6 DEF QueryInv

LEMMA RunKept ==
  ASSUME RunInv, UNCHANGED <<node, run>>
  PROVE  RunInv'
BY DEF RunInv, BootstrapTypeOK, RegistryTypeOK, ReadInv, SnapshotInv, Followed,
   RegistryKnowsBranch, Registered, progress, database, run, node, Was, Happened

LEMMA CollectingKeepsNode ==
  ASSUME Run \/ Command \/ Crash
  PROVE  UNCHANGED node
BY DEF Run, Command, Crash, AskBlock, AskReceipts, AskLogs, AskEnd, AskFails, WriteBatch, WriteGap

LEMMA ClientInvariance == ClientSpec => []ClientInv
<1>1. ClientInit => ClientInv
  <2>1. NodeInit => NodeInv
    BY BlockAssumption DEF NodeInit, NodeInv, NodeTypeOK
  <2>2. QED  BY <2>1, QueryInitInv, RunInitInv DEF ClientInit, Init, ClientInv
<1>2. ClientInv /\ [ClientNext]_clientVars => ClientInv'
  <2> SUFFICES ASSUME ClientInv, [ClientNext]_clientVars  PROVE ClientInv'
    OBVIOUS
  <2>1. NodeInv /\ QueryInv /\ RunInv
    BY DEF ClientInv
  <2>2. CASE NodeMoves /\ UNCHANGED <<collection, run, queries, client>>
    BY <2>1, <2>2, NodeMovesOn, NodeMovesKeepsQuery, NodeMovesKeepsRun DEF ClientInv
  <2>3. CASE (Run \/ Command \/ Crash) /\ UNCHANGED <<run, queries, client>>
    BY <2>1, <2>3, CollectingKeepsNode, NodeKeptInv, QueryKept, RunKept DEF ClientInv
  <2>4. CASE (Runs \/ Bootstrap) /\ UNCHANGED <<collection, queries, client>>
    <3>1. NodeInv' /\ QueryInv'
      BY <2>1, <2>4, ReadersKeepNode, NodeKeptInv, QueryKept
    <3>2. RunInv'
      BY <2>1, <2>4, CollectBlockKeeps, OtherRunsKeep, LooksKeep, ReadWordKeeps, EndKeeps,
         FailsKeeps DEF Runs, Bootstrap
    <3>3. QED  BY <3>1, <3>2 DEF ClientInv
  <2>5. CASE (Simulating \/ WalletFacts) /\ UNCHANGED <<collection, run, client>>
    <3>1. NodeInv' /\ RunInv'
      BY <2>1, <2>5, ReadersKeepNode, NodeKeptInv, RunKept
    <3>2. QueryInv'
      BY <2>1, <2>5, SimulatingKeeps, WalletFactsKeeps
    <3>3. QED  BY <3>1, <3>2 DEF ClientInv
  <2>6. CASE UNCHANGED clientVars
    BY <2>1, <2>6, NodeKeptInv, QueryKept, RunKept DEF ClientInv, clientVars
  <2>7. QED  BY <2>2, <2>3, <2>4, <2>5, <2>6 DEF ClientNext, Collecting
<1>3. QED  BY <1>1, <1>2, PTL DEF ClientSpec

\* Every variable of every client keeps its type.
THEOREM ClientTypesCorrect == ClientSpec => []ClientTypeOK
<1>1. ClientSpec => [](client \in Client)
  <2>1. ClientInit => client \in Client
    BY DEF ClientInit
  <2>2. client \in Client /\ [ClientNext]_clientVars => (client \in Client)'
    BY DEF ClientNext, Collecting, clientVars
  <2>3. QED  BY <2>1, <2>2, PTL DEF ClientSpec
<1>2. ClientInv => BootstrapTypeOK /\ QueryTypeOK
  BY DEF ClientInv, RunInv, QueryInv
<1>3. TypeOK /\ BootstrapTypeOK /\ QueryTypeOK /\ client \in Client => ClientTypeOK
  BY DEF ClientTypeOK
<1>4. QED  BY <1>1, <1>2, <1>3, ClientsCollect, TypeCorrect, ClientInvariance, PTL

\* What collect stores is one branch without holes that ends at its cursor, whatever the
\* node does and whoever else reads it.
THEOREM ClientsStoreOneBranch == ClientSpec => []StoredIsOneBranch
BY ClientsCollect, OneBranchIsStored, PTL

\* Simulations and wallet facts are of one block; for a simulation this holds also for a
\* node that comes back to blocks it left.
THEOREM AnswersAreWhole == ClientSpec => []AnswersAreOfOneBlock
<1>1. ClientInv => AnswersAreOfOneBlock
  BY DEF ClientInv, QueryInv, SimulationInv, WalletInv, AnswersAreOfOneBlock
<1>2. QED  BY <1>1, ClientInvariance, PTL

\* The pools of the branch the database is on are all in the registry, after any number
\* of runs and recoveries.
THEOREM RegistryIsComplete == ClientSpec => []RegistryKnowsBranch
<1>1. ClientInv => RegistryKnowsBranch
  BY DEF ClientInv, RunInv
<1>2. QED  BY <1>1, ClientInvariance, PTL

\* A snapshot is of the one block it names, for a node that does not come back.
THEOREM SnapshotsAreWhole == ClientSpec => []SteadySnapshotIsOfOneBlock
<1>1. ClientInv => SteadySnapshotIsOfOneBlock
  BY DEF ClientInv, RunInv, SnapshotInv, SteadySnapshotIsOfOneBlock, SnapshotIsOfOneBlock
<1>2. QED  BY <1>1, ClientInvariance, PTL

\* What a run follows was launched on the branch the database is on, whatever pools of
\* other branches the registry still has.
THEOREM FollowedPoolsWereLaunched == ClientSpec => []FollowedPoolsAreLive
<1>1. ClientInv => FollowedPoolsAreLive
  <2> SUFFICES ASSUME ClientInv, ~returns, snapshot # None, NEW p \in snapshot.pools
               PROVE  p \in Live(tip)
    BY DEF FollowedPoolsAreLive
  <2>1. /\ snapshot.first \in Block /\ tip \in Block
        /\ OnChain(snapshot.first, tip) /\ p \in Live(snapshot.first)
    BY DEF ClientInv, RunInv, SnapshotInv, BootstrapTypeOK, RegistryTypeOK, Snapshot
  <2>2. p \in Pool /\ \A k \in Launch : \E a \in Block :
          OnChain(a, snapshot.first) /\ \E t \in Launches[a] : [kind |-> k, pool |-> p] \in t
    BY <2>1 DEF Live, Happened
  <2>3. \A a \in Block : OnChain(a, snapshot.first) => OnChain(a, tip)
    BY <2>1, OnChainTransitive
  <2>4. QED  BY <2>2, <2>3 DEF Live, Happened
<1>2. QED  BY <1>1, ClientInvariance, PTL

=============================================================================
