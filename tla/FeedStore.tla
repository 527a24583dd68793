----------------------------- MODULE FeedStore -----------------------------
(***************************************************************************)
(* The feed's tables (feed_seen, feed_gaps, feed_cursors and the frames in *)
(* raw_records) and append_feed, the one transaction that writes them, one *)
(* message of its packet after the other (store/raw.rs).  The transaction  *)
(* works on its own copy: nothing of it is seen before it commits, and a   *)
(* refused one leaves nothing.                                             *)
(***************************************************************************)
EXTENDS Integers, Sequences

CONSTANTS
  None,
  Sequence,   \* the sequence numbers decode accepts: u64::MAX is not one
  Digest      \* contents of a message

VARIABLES
  seen,    \* feed_seen: the digest by sequence number
  gaps,    \* feed_gaps, in id order
  next,    \* feed_cursors.next_sequence
  kept,    \* the messages of the frames in raw_records
  first,   \* history: the sequence number the observation began with
  tx       \* the transaction that has the write lock, or None

tables == <<seen, gaps, next, kept, first>>

Message == [sequence : Sequence, digest : Digest]
Gap == [first : Nat, last : Nat]

ASSUME FeedAssumption ==
  /\ Sequence \subseteq Nat
  /\ None \notin Nat \cup Digest

Seen == [Sequence -> Digest \cup {None}]
Position == Nat \cup {None}

FeedTypeOK ==
  /\ seen \in Seen
  /\ gaps \in Seq(Gap)
  /\ next \in Position
  /\ kept \subseteq Message
  /\ first \in Position

FeedInit ==
  /\ seen = [s \in Sequence |-> None]
  /\ gaps = <<>> /\ next = None /\ kept = {} /\ first = None
  /\ tx = None

\* Immediate: there is one writer at a time.
BeginFeed(owner, packet) ==
  /\ tx = None
  /\ tx' = [owner |-> owner, packet |-> packet, rest |-> packet,
            seen |-> seen, gaps |-> gaps, next |-> next, first |-> first]

SkipDuplicate ==
  /\ tx.rest # <<>>
  /\ tx.seen[Head(tx.rest).sequence] = Head(tx.rest).digest
  /\ tx' = [tx EXCEPT !.rest = Tail(@)]

IsConflict ==
  /\ tx.rest # <<>>
  /\ tx.seen[Head(tx.rest).sequence] \notin {None, Head(tx.rest).digest}

\* mutant: a single missing number is taken for the expected one.
GapsAfter_OffByOne(sequence) ==
  IF tx.next # None /\ sequence > tx.next + 1
    THEN Append(tx.gaps, [first |-> tx.next, last |-> sequence - 1])
    ELSE tx.gaps

\* A message beyond the expected one leaves a gap row for what lies between.
GapsAfter(sequence) ==
  IF tx.next # None /\ sequence > tx.next
    THEN Append(tx.gaps, [first |-> tx.next, last |-> sequence - 1])
    ELSE tx.gaps

NextAfter(sequence) ==
  IF tx.next # None /\ tx.next > sequence + 1 THEN tx.next ELSE sequence + 1

\* mutant: a message that comes late takes its gap row away.
TakeNew_FillsGap ==
  /\ tx.rest # <<>>
  /\ tx.seen[Head(tx.rest).sequence] = None
  /\ LET m == Head(tx.rest)
         Other(gap) == gap # [first |-> m.sequence, last |-> m.sequence] IN
     tx' = [owner |-> tx.owner, packet |-> tx.packet, rest |-> Tail(tx.rest),
            seen |-> [tx.seen EXCEPT ![m.sequence] = m.digest],
            gaps |-> SelectSeq(GapsAfter(m.sequence), Other),
            next |-> NextAfter(m.sequence),
            first |-> IF tx.first = None THEN m.sequence ELSE tx.first]

TakeNew ==
  /\ tx.rest # <<>>
  /\ tx.seen[Head(tx.rest).sequence] = None
  /\ LET m == Head(tx.rest) IN
     tx' = [owner |-> tx.owner, packet |-> tx.packet, rest |-> Tail(tx.rest),
            seen |-> [tx.seen EXCEPT ![m.sequence] = m.digest],
            gaps |-> GapsAfter(m.sequence),
            next |-> NextAfter(m.sequence),
            first |-> IF tx.first = None THEN m.sequence ELSE tx.first]

Rollback == tx' = None /\ UNCHANGED tables

\* The frame is kept with its messages, duplicates too.
CommitFeed ==
  /\ tx.rest = <<>>
  /\ seen' = tx.seen /\ gaps' = tx.gaps /\ next' = tx.next /\ first' = tx.first
  /\ kept' = kept \cup {tx.packet[i] : i \in DOMAIN tx.packet}
  /\ tx' = None

=============================================================================
