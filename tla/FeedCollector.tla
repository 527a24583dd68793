--------------------------- MODULE FeedCollector ---------------------------
(***************************************************************************)
(* collect_feed (arb-app ingest.rs) over FeedSource (arb-adapters feed.rs) *)
(* and the feed's tables.  Every collector is a process of its own; the    *)
(* command takes no lock, so several may share the database.  The relay is *)
(* external: it has messages 0, 1, ... and sends packets of them.          *)
(***************************************************************************)
EXTENDS FeedStore

CONSTANTS
  Collector,
  MaxFrames,    \* --frames
  RetryLimit,   \* FeedSource.retries
  MaxPacket,    \* bound: messages of a packet
  Genuine       \* the digest of what the sequencer said

VARIABLES
  head,       \* the relay has the messages below this number
  reliable,   \* it keeps every message it ever sent, and never alters one
  position,   \* what a reliable relay sends next, by session
  pc,         \* where collect_feed is
  requested,  \* the sequence number its session asked for
  packet,     \* the packet it received
  count, reconnects

relay == <<head, reliable>>
external == <<relay, position>>
own == <<pc, requested, packet, count, reconnects>>
vars == <<tables, tx, external, own>>

\* "idle": no such process, or its run has ended.
Control == {"idle", "connecting", "receiving", "appending", "committing"}

ASSUME CollectorAssumption ==
  /\ MaxFrames \in Nat \ {0} /\ RetryLimit \in Nat /\ MaxPacket \in Nat
  /\ Genuine \in Digest

TxTypeOK ==
  tx = None \/ tx \in [owner : Collector, packet : Seq(Message), rest : Seq(Message),
                       seen : Seen, gaps : Seq(Gap), next : Position, first : Position]

TypeOK ==
  /\ FeedTypeOK /\ TxTypeOK
  /\ head \in Nat /\ reliable \in BOOLEAN /\ position \in [Collector -> Nat]
  /\ pc \in [Collector -> Control]
  /\ requested \in [Collector -> Position]
  /\ packet \in [Collector -> Seq(Message)]
  /\ count \in [Collector -> 0 .. MaxFrames - 1]
  /\ reconnects \in [Collector -> 0 .. RetryLimit]

Init ==
  /\ FeedInit
  /\ head = 0 /\ reliable \in BOOLEAN /\ position = [c \in Collector |-> 0]
  /\ pc = [c \in Collector |-> "idle"]
  /\ requested = [c \in Collector |-> None]
  /\ packet = [c \in Collector |-> <<>>]
  /\ count = [c \in Collector |-> 0] /\ reconnects = [c \in Collector |-> 0]

-----------------------------------------------------------------------------
(* The relay                                                               *)

RelayPublish ==
  /\ head \in Sequence
  /\ head' = head + 1
  /\ UNCHANGED <<tables, tx, reliable, position, own>>

\* What a session may be sent: the next messages or, by a relay that is not reliable,
\* any it has, again, out of order or altered.  A packet that only confirms has none.
Packets(c) ==
  {p \in UNION {[1 .. n -> Message] : n \in 0 .. MaxPacket} :
     \A i \in DOMAIN p :
       /\ p[i].sequence < head
       /\ reliable => p[i] = [sequence |-> position[c] + i - 1, digest |-> Genuine]}

-----------------------------------------------------------------------------
(* collect_feed                                                            *)

\* The process ends, with its result or without: what it had in memory is gone.
\* The relay's side of its session ends with it.
Ends(c) ==
  /\ pc' = [pc EXCEPT ![c] = "idle"]
  /\ requested' = [requested EXCEPT ![c] = None]
  /\ packet' = [packet EXCEPT ![c] = <<>>]
  /\ count' = [count EXCEPT ![c] = 0]
  /\ reconnects' = [reconnects EXCEPT ![c] = 0]
  /\ position' = [position EXCEPT ![c] = 0]

\* The cursor in the database says what to ask for, at every connection.
AsksForNext(c) == requested' = [requested EXCEPT ![c] = next]

Start(c) ==
  /\ pc[c] = "idle"
  /\ pc' = [pc EXCEPT ![c] = "connecting"]
  /\ AsksForNext(c)
  /\ UNCHANGED <<tables, tx, external, packet, count, reconnects>>

\* connect(): a reliable relay starts with the message it was asked for; one that
\* was asked for none starts where it will.
Connect(c) ==
  /\ pc[c] = "connecting"
  /\ pc' = [pc EXCEPT ![c] = "receiving"]
  /\ \E p \in 0 .. head :
       /\ reliable /\ requested[c] # None => p = requested[c]
       /\ position' = [position EXCEPT ![c] = p]
  /\ UNCHANGED <<tables, tx, relay, requested, packet, count, reconnects>>

Receive(c) ==
  /\ pc[c] = "receiving"
  /\ pc' = [pc EXCEPT ![c] = "appending"]
  /\ \E p \in Packets(c) :
       /\ packet' = [packet EXCEPT ![c] = p]
       /\ position' = [position EXCEPT ![c] = position[c] + Len(p)]
  /\ UNCHANGED <<tables, tx, relay, requested, count, reconnects>>

\* mutant: the retries are not counted.
Reconnect_Unlimited(c) ==
  /\ pc[c] = "receiving"
  /\ pc' = [pc EXCEPT ![c] = "connecting"]
  /\ reconnects' = [reconnects EXCEPT ![c] = reconnects[c] + 1]
  /\ AsksForNext(c)
  /\ UNCHANGED <<tables, tx, external, packet, count>>

\* mutant: the cursor is read once in a run.
Reconnect_SameRequest(c) ==
  /\ pc[c] = "receiving"
  /\ reconnects[c] < RetryLimit
  /\ pc' = [pc EXCEPT ![c] = "connecting"]
  /\ reconnects' = [reconnects EXCEPT ![c] = reconnects[c] + 1]
  /\ UNCHANGED <<tables, tx, external, requested, packet, count>>

\* A read error, a refused frame or a closed socket: connect again, a limited
\* number of times in a run.
Reconnect(c) ==
  /\ pc[c] = "receiving"
  /\ reconnects[c] < RetryLimit
  /\ pc' = [pc EXCEPT ![c] = "connecting"]
  /\ reconnects' = [reconnects EXCEPT ![c] = reconnects[c] + 1]
  /\ AsksForNext(c)
  /\ UNCHANGED <<tables, tx, external, packet, count>>

\* No connection, the end of the window, or an error too many.
GivesUp(c) ==
  /\ pc[c] \in {"connecting", "receiving"}
  /\ Ends(c)
  /\ UNCHANGED <<tables, tx, relay>>

-----------------------------------------------------------------------------
(* append_feed                                                             *)

\* mutant: the process keeps the cursor it read when it connected.
Begin_CachedCursor(c) ==
  /\ pc[c] = "appending"
  /\ tx = None
  /\ tx' = [owner |-> c, packet |-> packet[c], rest |-> packet[c],
            seen |-> seen, gaps |-> gaps, next |-> requested[c], first |-> first]
  /\ pc' = [pc EXCEPT ![c] = "committing"]
  /\ UNCHANGED <<tables, external, requested, packet, count, reconnects>>

Begin(c) ==
  /\ pc[c] = "appending"
  /\ BeginFeed(c, packet[c])
  /\ pc' = [pc EXCEPT ![c] = "committing"]
  /\ UNCHANGED <<tables, external, requested, packet, count, reconnects>>

\* The lock was not to be had, or the disk failed.
AppendFails(c) ==
  /\ pc[c] = "appending"
  /\ Ends(c)
  /\ UNCHANGED <<tables, tx, relay>>

AppendMessage(c) ==
  /\ tx # None /\ tx.owner = c
  /\ SkipDuplicate \/ TakeNew
  /\ UNCHANGED <<tables, external, own>>

\* Another content for a number that was seen: all of the packet is refused.
Conflict(c) ==
  /\ tx # None /\ tx.owner = c
  /\ IsConflict
  /\ Rollback
  /\ Ends(c)
  /\ UNCHANGED relay

Commit(c) ==
  /\ tx # None /\ tx.owner = c
  /\ CommitFeed
  /\ IF count[c] + 1 < MaxFrames
       THEN /\ pc' = [pc EXCEPT ![c] = "receiving"]
            /\ packet' = [packet EXCEPT ![c] = <<>>]
            /\ count' = [count EXCEPT ![c] = count[c] + 1]
            /\ UNCHANGED <<requested, reconnects, position>>
       ELSE Ends(c)
  /\ UNCHANGED relay

\* The process is killed; SQLite rolls back what it had begun.
Crash(c) ==
  /\ pc[c] # "idle"
  /\ Ends(c)
  /\ tx' = IF tx # None /\ tx.owner = c THEN None ELSE tx
  /\ UNCHANGED <<tables, relay>>

-----------------------------------------------------------------------------
Next ==
  \/ RelayPublish
  \/ \E c \in Collector :
       \/ Start(c) \/ Connect(c) \/ Receive(c) \/ Reconnect(c) \/ GivesUp(c)
       \/ Begin(c) \/ AppendFails(c) \/ AppendMessage(c) \/ Conflict(c) \/ Commit(c)
       \/ Crash(c)

Spec == Init /\ [][Next]_vars

-----------------------------------------------------------------------------
(* Properties                                                              *)

\* Every number between the first observed one and the cursor was seen, or is in a
\* gap row: no reconnection, crash, conflict or jump of the relay makes one vanish.
EverySequenceIsExplained ==
  first # None =>
    /\ next # None
    /\ \A s \in Sequence : first <= s /\ s < next =>
         seen[s] # None \/ \E i \in DOMAIN gaps : gaps[i].first <= s /\ s <= gaps[i].last

\* Gap rows are ascending and apart: the report's count counts no number twice.
GapsAreApart ==
  /\ \A i \in DOMAIN gaps :
       next # None /\ gaps[i].first <= gaps[i].last /\ gaps[i].last < next
  /\ \A i, j \in DOMAIN gaps : i < j => gaps[i].last < gaps[j].first

\* feed_seen is exactly what the kept frames say: a refused packet left neither a
\* frame nor a digest, and no two kept frames disagree about a number.
FramesExplainSeen ==
  kept = {[sequence |-> s, digest |-> seen[s]] : s \in {r \in Sequence : seen[r] # None}}

\* A gap row stays, also when the messages come late, and says what had not been
\* seen before the commit that wrote it; a digest stays as it was first seen.
ObservationIsHistory ==
  [][/\ \A i \in DOMAIN gaps : i \in DOMAIN gaps' /\ gaps'[i] = gaps[i]
     /\ \A i \in DOMAIN gaps' \ DOMAIN gaps : \A s \in Sequence :
          gaps'[i].first <= s /\ s <= gaps'[i].last => seen[s] = None
     /\ \A s \in Sequence : seen[s] # None => seen'[s] = seen[s]]_tables

\* A lone collector that is restarted and connected again misses nothing of a relay
\* that keeps its messages, because it asks for what it has not committed.
ReliableRelayLeavesNoGap == reliable => gaps = <<>>

=============================================================================
