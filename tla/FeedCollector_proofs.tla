------------------------ MODULE FeedCollector_proofs ------------------------
(***************************************************************************)
(* Proofs about the feed's tables, for any set of sequence numbers and of  *)
(* collectors, packets of any length and any behaviour of the relay.       *)
(***************************************************************************)
EXTENDS FeedCollector, SequenceTheorems, TLAPS

(***************************************************************************)
(* The inductive invariant.  What holds of the tables holds of the copy a  *)
(* transaction works on, after each of its messages.                       *)
(***************************************************************************)

\* Only numbers below the cursor were seen.
Below(sn, nx) == \A s \in Sequence : sn[s] # None => nx # None /\ s < nx

InGap(s, gp) == \E i \in DOMAIN gp : gp[i].first <= s /\ s <= gp[i].last

Explained(sn, gp, nx, fs) ==
  /\ fs = None <=> nx = None
  /\ fs # None => \A s \in Sequence : fs <= s /\ s < nx => sn[s] # None \/ InGap(s, gp)

Apart(gp, nx) ==
  /\ \A i \in DOMAIN gp : nx # None /\ gp[i].first <= gp[i].last /\ gp[i].last < nx
  /\ \A i, j \in DOMAIN gp : i < j => gp[i].last < gp[j].first

CopyInv(sn, gp, nx, fs) == Below(sn, nx) /\ Explained(sn, gp, nx, fs) /\ Apart(gp, nx)

\* The copy has all the tables have; a gap it added was not seen in the tables.
Continues(sn, gp) ==
  /\ \A i \in DOMAIN gaps : i \in DOMAIN gp /\ gp[i] = gaps[i]
  /\ \A i \in DOMAIN gp \ DOMAIN gaps : \A s \in Sequence :
       gp[i].first <= s /\ s <= gp[i].last => seen[s] = None
  /\ \A s \in Sequence : seen[s] # None => sn[s] = seen[s]

Of(p) == {p[i] : i \in DOMAIN p}

\* The copy's digests are those of the tables and of the messages it has taken.
FrameInv ==
  /\ Of(tx.rest) \subseteq Of(tx.packet)
  /\ \A m \in Of(tx.packet) : m \in Of(tx.rest) \/ tx.seen[m.sequence] = m.digest
  /\ \A s \in Sequence : tx.seen[s] # None =>
       tx.seen[s] = seen[s] \/ [sequence |-> s, digest |-> tx.seen[s]] \in Of(tx.packet)

TxInv ==
  tx # None =>
    /\ CopyInv(tx.seen, tx.gaps, tx.next, tx.first)
    /\ Continues(tx.seen, tx.gaps)
    /\ FrameInv

KeptInv ==
  /\ \A m \in kept : seen[m.sequence] = m.digest
  /\ \A s \in Sequence : seen[s] # None => [sequence |-> s, digest |-> seen[s]] \in kept

DataInv ==
  /\ FeedTypeOK /\ TxTypeOK
  /\ CopyInv(seen, gaps, next, first) /\ KeptInv /\ TxInv

ControlInv ==
  /\ head \in Nat /\ reliable \in BOOLEAN /\ position \in [Collector -> Nat]
  /\ pc \in [Collector -> Control]
  /\ requested \in [Collector -> Position]
  /\ packet \in [Collector -> Seq(Message)]
  /\ count \in [Collector -> 0 .. MaxFrames - 1]
  /\ reconnects \in [Collector -> 0 .. RetryLimit]

Inv == DataInv /\ ControlInv

(***************************************************************************)
(* One message                                                             *)
(***************************************************************************)

\* A gap row is a pair of numbers.
LEMMA GapFields ==
  ASSUME NEW gp \in Seq(Gap), NEW i \in DOMAIN gp
  PROVE  gp[i].first \in Nat /\ gp[i].last \in Nat
<1>1. gp[i] \in Gap
  OBVIOUS
<1>2. QED  BY <1>1 DEF Gap

\* A packet is made of messages.
LEMMA PacketHasMessages ==
  ASSUME NEW p \in Seq(Message)
  PROVE  Of(p) \subseteq Message
BY DEF Of

\* A packet is its first message and the rest of it.
LEMMA HeadAndRest ==
  ASSUME NEW p \in Seq(Message), p # <<>>
  PROVE  /\ Head(p) \in Message /\ Tail(p) \in Seq(Message)
         /\ Of(p) = {Head(p)} \cup Of(Tail(p))
<1>1. /\ Len(p) \in Nat \ {0} /\ DOMAIN p = 1 .. Len(p) /\ Head(p) = p[1]
      /\ \A i \in 1 .. Len(p) : p[i] \in Message
  OBVIOUS
<1>2. /\ Tail(p) \in Seq(Message) /\ DOMAIN Tail(p) = 1 .. Len(p) - 1
      /\ \A i \in 1 .. Len(p) - 1 : Tail(p)[i] = p[i + 1]
  BY <1>1
<1>3. Of(p) \subseteq {Head(p)} \cup Of(Tail(p))
  <2> SUFFICES ASSUME NEW i \in 1 .. Len(p), i # 1
               PROVE  p[i] \in Of(Tail(p))
    BY <1>1 DEF Of
  <2>1. i - 1 \in DOMAIN Tail(p) /\ Tail(p)[i - 1] = p[i]
    BY <1>1, <1>2
  <2>2. QED  BY <2>1 DEF Of
<1>4. {Head(p)} \cup Of(Tail(p)) \subseteq Of(p)
  <2>1. Head(p) \in Of(p)
    BY <1>1 DEF Of
  <2>2. ASSUME NEW i \in DOMAIN Tail(p)  PROVE Tail(p)[i] \in Of(p)
    <3>1. i + 1 \in DOMAIN p /\ Tail(p)[i] = p[i + 1]
      BY <1>1, <1>2
    <3>2. QED  BY <3>1 DEF Of
  <2>3. QED  BY <2>1, <2>2 DEF Of
<1>5. QED  BY <1>1, <1>2, <1>3, <1>4

\* What one new message makes of a copy.
Takes(sn, gp, nx, fs, q, d, sn2, gp2, nx2, fs2) ==
  /\ sn \in Seen /\ gp \in Seq(Gap) /\ nx \in Position /\ fs \in Position
  /\ q \in Sequence /\ d \in Digest /\ sn[q] = None
  /\ sn2 = [sn EXCEPT ![q] = d]
  /\ gp2 = IF nx # None /\ q > nx THEN Append(gp, [first |-> nx, last |-> q - 1]) ELSE gp
  /\ nx2 = IF nx # None /\ nx > q + 1 THEN nx ELSE q + 1
  /\ fs2 = IF fs = None THEN q ELSE fs

\* After a new message, the copy still explains every number.
LEMMA NewMessageKeepsCopy ==
  ASSUME NEW sn, NEW gp, NEW nx, NEW fs, NEW q, NEW d,
         NEW sn2, NEW gp2, NEW nx2, NEW fs2,
         Takes(sn, gp, nx, fs, q, d, sn2, gp2, nx2, fs2), CopyInv(sn, gp, nx, fs)
  PROVE  /\ sn2 \in Seen /\ gp2 \in Seq(Gap) /\ nx2 \in Position /\ fs2 \in Position
         /\ CopyInv(sn2, gp2, nx2, fs2)
<1> USE DEF Takes
<1>1. q \in Nat /\ None \notin Nat /\ d # None /\ d \in Digest
  BY FeedAssumption
<1>2. nx2 \in Nat /\ q < nx2 /\ (nx # None => nx <= nx2) /\ fs2 \in Nat
  BY <1>1 DEF Position
<1>3. /\ sn2 \in Seen /\ sn2[q] = d
      /\ \A s \in Sequence : s # q => sn2[s] = sn[s]
  BY DEF Seen
<1>4. CASE nx = None
  <2>1. gp2 = gp /\ DOMAIN gp = {} /\ fs2 = q /\ nx2 = q + 1
    BY <1>4 DEF CopyInv, Apart, Explained
  <2>2. \A s \in Sequence : sn[s] = None
    BY <1>4 DEF CopyInv, Below
  <2>3. Below(sn2, nx2)
    BY <1>1, <1>2, <1>3, <2>2 DEF Below
  <2>4. Explained(sn2, gp2, nx2, fs2)
    BY <1>1, <1>3, <2>1, FeedAssumption DEF Explained
  <2>5. Apart(gp2, nx2)
    BY <2>1 DEF Apart
  <2>6. QED  BY <1>2, <1>3, <2>1, <2>3, <2>4, <2>5 DEF CopyInv, Position
<1>5. CASE nx # None /\ q > nx
  <2> DEFINE gap == [first |-> nx, last |-> q - 1]
  <2>1. nx \in Nat /\ fs \in Nat /\ fs2 = fs /\ nx2 = q + 1 /\ gp2 = Append(gp, gap)
    BY <1>1, <1>5 DEF Position, CopyInv, Explained
  <2>2. gap \in Gap /\ gap.first = nx /\ gap.last = q - 1
    BY <1>1, <1>5, <2>1 DEF Gap
  <2> HIDE DEF gap
  <2>3. /\ gp2 \in Seq(Gap) /\ Len(gp) \in Nat /\ DOMAIN gp = 1 .. Len(gp)
        /\ DOMAIN gp2 = 1 .. Len(gp) + 1
        /\ gp2[Len(gp) + 1] = gap
        /\ \A i \in DOMAIN gp : gp2[i] = gp[i]
    BY <2>1, <2>2
  <2>4. \A i \in DOMAIN gp : gp[i].first \in Nat /\ gp[i].last \in Nat
    BY GapFields
  <2>5. Below(sn2, nx2)
    BY <1>1, <1>2, <1>3, <1>5, <2>1, FeedAssumption DEF Below, CopyInv
  <2>6. Explained(sn2, gp2, nx2, fs2)
    <3> SUFFICES ASSUME NEW s \in Sequence, fs <= s, s < q + 1
                 PROVE  sn2[s] # None \/ InGap(s, gp2)
      BY <1>1, <1>2, <2>1 DEF Explained
    <3>0. s \in Nat
      BY FeedAssumption
    <3>1. CASE s < nx
      <4>1. sn[s] # None \/ InGap(s, gp)
        BY <1>5, <2>1, <3>1 DEF CopyInv, Explained
      <4>2. CASE sn[s] # None
        BY <1>1, <1>3, <4>2
      <4>3. CASE InGap(s, gp)
        <5>1. PICK i \in DOMAIN gp : gp[i].first <= s /\ s <= gp[i].last
          BY <4>3 DEF InGap
        <5>2. i \in DOMAIN gp2 /\ gp2[i] = gp[i]
          BY <2>3
        <5>3. QED  BY <5>1, <5>2 DEF InGap
      <4>4. QED  BY <4>1, <4>2, <4>3
    <3>2. CASE nx <= s /\ s <= q - 1
      <4>1. Len(gp) + 1 \in DOMAIN gp2
        BY <2>3
      <4>2. gp2[Len(gp) + 1].first <= s /\ s <= gp2[Len(gp) + 1].last
        BY <2>2, <2>3, <3>2
      <4>3. QED  BY <4>1, <4>2 DEF InGap
    <3>3. CASE s = q
      BY <1>1, <1>3, <3>3
    <3>4. QED  BY <1>1, <2>1, <3>0, <3>1, <3>2, <3>3
  <2>7. Apart(gp2, nx2)
    <3>1. ASSUME NEW i \in DOMAIN gp2
          PROVE  nx2 # None /\ gp2[i].first <= gp2[i].last /\ gp2[i].last < nx2
      <4>1. CASE i \in DOMAIN gp
        BY <1>1, <1>2, <2>1, <2>3, <2>4, <4>1 DEF CopyInv, Apart
      <4>2. CASE i = Len(gp) + 1
        BY <1>1, <1>2, <1>5, <2>1, <2>2, <2>3, <4>2
      <4>3. QED  BY <2>3, <3>1, <4>1, <4>2
    <3>2. ASSUME NEW i \in DOMAIN gp2, NEW j \in DOMAIN gp2, i < j
          PROVE  gp2[i].last < gp2[j].first
      <4>1. i \in DOMAIN gp
        BY <2>3, <3>2
      <4>2. CASE j \in DOMAIN gp
        BY <2>3, <3>2, <4>1, <4>2 DEF CopyInv, Apart
      <4>3. CASE j = Len(gp) + 1
        BY <2>2, <2>3, <4>1, <4>3 DEF CopyInv, Apart
      <4>4. QED  BY <2>3, <4>2, <4>3
    <3>3. QED  BY <3>1, <3>2 DEF Apart
  <2>8. QED  BY <1>2, <1>3, <2>3, <2>5, <2>6, <2>7 DEF CopyInv, Position
<1>6. CASE nx # None /\ ~(q > nx)
  <2>1. nx \in Nat /\ fs \in Nat /\ fs2 = fs /\ gp2 = gp /\ nx2 = IF nx > q + 1 THEN nx ELSE q + 1
    BY <1>1, <1>6 DEF Position, CopyInv, Explained
  <2>2. Below(sn2, nx2)
    BY <1>1, <1>2, <1>3, <1>6, <2>1, FeedAssumption DEF Below, CopyInv
  <2>3. Explained(sn2, gp2, nx2, fs2)
    <3> SUFFICES ASSUME NEW s \in Sequence, fs <= s, s < nx2
                 PROVE  sn2[s] # None \/ InGap(s, gp)
      BY <1>1, <1>2, <2>1 DEF Explained
    <3>1. CASE s = q
      BY <1>1, <1>3, <3>1
    <3>2. CASE s # q
      <4>0. s \in Nat /\ (nx > q + 1 => nx2 = nx) /\ (~(nx > q + 1) => nx2 = q + 1)
        BY <2>1, FeedAssumption
      <4>1. s < nx
        BY <1>1, <1>6, <2>1, <3>2, <4>0
      <4>2. QED  BY <1>1, <1>3, <1>6, <2>1, <3>2, <4>1 DEF CopyInv, Explained
    <3>3. QED  BY <3>1, <3>2
  <2>4. Apart(gp2, nx2)
    <3>1. \A i \in DOMAIN gp : gp[i].first \in Nat /\ gp[i].last \in Nat
      BY GapFields
    <3>2. QED  BY <1>1, <1>2, <1>6, <2>1, <3>1 DEF CopyInv, Apart
  <2>5. QED  BY <1>2, <1>3, <2>1, <2>2, <2>3, <2>4 DEF CopyInv, Position
<1>7. QED  BY <1>4, <1>5, <1>6

\* What a new message adds to the copy is new: it stays a continuation of the tables.
LEMMA NewMessageContinues ==
  ASSUME DataInv, NEW sn, NEW gp, NEW nx, NEW fs, NEW q, NEW d,
         NEW sn2, NEW gp2, NEW nx2, NEW fs2,
         Takes(sn, gp, nx, fs, q, d, sn2, gp2, nx2, fs2), Below(sn, nx), Continues(sn, gp)
  PROVE  Continues(sn2, gp2)
<1> USE DEF Takes
<1>1. \A s \in Sequence : seen[s] # None => s # q /\ sn2[s] = seen[s]
  BY DEF Seen, Continues
<1>2. CASE gp2 = gp
  BY <1>1, <1>2 DEF Continues
<1>3. CASE nx # None /\ q > nx
  <2> DEFINE gap == [first |-> nx, last |-> q - 1]
  <2>1. nx \in Nat /\ q \in Nat /\ gp2 = Append(gp, gap)
    BY <1>3, FeedAssumption DEF Position
  <2>2. gap.first = nx
    OBVIOUS
  <2> HIDE DEF gap
  <2>3. /\ Len(gp) \in Nat /\ DOMAIN gp = 1 .. Len(gp)
        /\ DOMAIN gp2 = 1 .. Len(gp) + 1 /\ gp2[Len(gp) + 1] = gap
        /\ \A i \in DOMAIN gp : gp2[i] = gp[i]
    BY <2>1
  <2>4. \A i \in DOMAIN gaps : i \in DOMAIN gp2 /\ gp2[i] = gaps[i]
    BY <2>3 DEF Continues
  <2>5. ASSUME NEW i \in DOMAIN gp2 \ DOMAIN gaps, NEW s \in Sequence,
               gp2[i].first <= s, s <= gp2[i].last
        PROVE  seen[s] = None
    <3>1. CASE i \in DOMAIN gp
      BY <2>3, <2>5, <3>1 DEF Continues
    <3>2. CASE i = Len(gp) + 1
      <4>1. nx <= s /\ s \in Nat
        BY <2>2, <2>3, <2>5, <3>2, FeedAssumption
      <4>2. sn[s] = None
        BY <1>3, <2>1, <4>1 DEF Below
      <4>3. QED  BY <4>2 DEF Continues
    <3>3. QED  BY <2>3, <3>1, <3>2
  <2>6. QED  BY <1>1, <2>4, <2>5 DEF Continues
<1>4. QED  BY <1>2, <1>3

(***************************************************************************)
(* The transaction's steps                                                 *)
(***************************************************************************)

\* A step that writes neither the tables nor the copy.
LEMMA OthersKeepData ==
  ASSUME DataInv, UNCHANGED <<tables, tx>>
  PROVE  DataInv'
<1>1. /\ seen' = seen /\ gaps' = gaps /\ next' = next /\ kept' = kept /\ first' = first
      /\ tx' = tx
  BY DEF tables
<1>2. FeedTypeOK' /\ TxTypeOK'
  BY <1>1 DEF DataInv, FeedTypeOK, TxTypeOK
<1>3. CopyInv(seen, gaps, next, first)' /\ KeptInv'
  BY <1>1 DEF DataInv, KeptInv, CopyInv, Below, Explained, InGap, Apart
<1>4. TxInv'
  <2>1. (tx # None => CopyInv(tx.seen, tx.gaps, tx.next, tx.first))'
    BY <1>1 DEF DataInv, TxInv, CopyInv, Below, Explained, InGap, Apart
  <2>2. (tx # None => Continues(tx.seen, tx.gaps))'
    BY <1>1 DEF DataInv, TxInv, Continues
  <2>3. (tx # None => FrameInv)'
    BY <1>1 DEF DataInv, TxInv, FrameInv, Of
  <2>4. QED  BY <2>1, <2>2, <2>3 DEF TxInv
<1>5. QED  BY <1>2, <1>3, <1>4 DEF DataInv

\* A step that ends a transaction without a trace.
LEMMA RollbackKeepsData ==
  ASSUME DataInv, tx' = None, UNCHANGED tables
  PROVE  DataInv'
<1>1. FeedTypeOK' /\ TxTypeOK'
  BY DEF DataInv, FeedTypeOK, TxTypeOK, tables
<1>2. CopyInv(seen, gaps, next, first)' /\ KeptInv'
  BY DEF DataInv, KeptInv, CopyInv, Below, Explained, InGap, Apart, tables
<1>3. TxInv'
  BY DEF TxInv
<1>4. QED  BY <1>1, <1>2, <1>3 DEF DataInv

\* The copy a transaction begins with is the tables.
LEMMA BeginKeepsData ==
  ASSUME DataInv, NEW c \in Collector, NEW p \in Seq(Message), BeginFeed(c, p), UNCHANGED tables
  PROVE  DataInv'
<1>1. /\ seen' = seen /\ gaps' = gaps /\ next' = next /\ kept' = kept /\ first' = first
      /\ tx'.owner = c /\ tx'.packet = p /\ tx'.rest = p
      /\ tx'.seen = seen /\ tx'.gaps = gaps /\ tx'.next = next /\ tx'.first = first
  BY DEF BeginFeed, tables
<1>2. FeedTypeOK' /\ TxTypeOK'
  BY <1>1 DEF BeginFeed, DataInv, FeedTypeOK, TxTypeOK
<1>3. CopyInv(seen, gaps, next, first)' /\ KeptInv'
  BY <1>1 DEF DataInv, KeptInv, CopyInv, Below, Explained, InGap, Apart
<1>4. TxInv'
  <2>1. CopyInv(tx.seen, tx.gaps, tx.next, tx.first)'
    BY <1>1 DEF DataInv, CopyInv, Below, Explained, InGap, Apart
  <2>2. Continues(tx.seen, tx.gaps)'
    BY <1>1 DEF Continues
  <2>3. FrameInv'
    BY <1>1 DEF FrameInv, Of
  <2>4. QED  BY <2>1, <2>2, <2>3 DEF TxInv
<1>5. QED  BY <1>2, <1>3, <1>4 DEF DataInv

\* The fields of the copy.
LEMMA TxFields ==
  ASSUME DataInv, tx # None
  PROVE  /\ tx.owner \in Collector /\ tx.packet \in Seq(Message) /\ tx.rest \in Seq(Message)
         /\ tx.seen \in Seen /\ tx.gaps \in Seq(Gap) /\ tx.next \in Position
         /\ tx.first \in Position
BY DEF DataInv, TxTypeOK

\* A message that was seen with this content changes nothing.
LEMMA SkipDuplicateKeepsData ==
  ASSUME DataInv, tx # None, SkipDuplicate, UNCHANGED tables
  PROVE  DataInv'
<1>1. /\ seen' = seen /\ gaps' = gaps /\ next' = next /\ kept' = kept /\ first' = first
      /\ tx.rest # <<>> /\ tx.seen[Head(tx.rest).sequence] = Head(tx.rest).digest
      /\ tx' = [tx EXCEPT !.rest = Tail(@)]
  BY DEF SkipDuplicate, tables
<1>2. /\ tx'.packet = tx.packet /\ tx'.rest = Tail(tx.rest) /\ tx'.seen = tx.seen
      /\ tx'.gaps = tx.gaps /\ tx'.next = tx.next /\ tx'.first = tx.first
      /\ tx'.owner = tx.owner
  BY <1>1 DEF DataInv, TxTypeOK
<1>3. /\ Head(tx.rest) \in Message /\ Tail(tx.rest) \in Seq(Message)
      /\ Of(tx.rest) = {Head(tx.rest)} \cup Of(Tail(tx.rest))
  BY <1>1, TxFields, HeadAndRest
<1>4. FeedTypeOK' /\ TxTypeOK'
  <2>1. FeedTypeOK'
    BY <1>1 DEF DataInv, FeedTypeOK
  <2>2. TxTypeOK'
    BY <1>1, <1>3 DEF DataInv, TxTypeOK
  <2>3. QED  BY <2>1, <2>2
<1>5. CopyInv(seen, gaps, next, first)' /\ KeptInv'
  BY <1>1 DEF DataInv, KeptInv, CopyInv, Below, Explained, InGap, Apart
<1>6. TxInv'
  <2>1. CopyInv(tx.seen, tx.gaps, tx.next, tx.first)'
    BY <1>1, <1>2 DEF DataInv, TxInv, CopyInv, Below, Explained, InGap, Apart
  <2>2. Continues(tx.seen, tx.gaps)'
    BY <1>1, <1>2 DEF DataInv, TxInv, Continues
  <2>3. FrameInv'
    <3>1. FrameInv
      BY DEF DataInv, TxInv
    <3>2. Of(tx'.rest) = Of(Tail(tx.rest)) /\ Of(tx'.packet) = Of(tx.packet)
      BY <1>2
    <3>3. QED  BY <1>1, <1>2, <1>3, <3>1, <3>2 DEF FrameInv, Of
  <2>4. QED  BY <2>1, <2>2, <2>3 DEF TxInv
<1>7. QED  BY <1>4, <1>5, <1>6 DEF DataInv

\* A message with a number that was not seen.
LEMMA TakeNewKeepsData ==
  ASSUME DataInv, tx # None, TakeNew, UNCHANGED tables
  PROVE  DataInv'
<1> DEFINE m == Head(tx.rest)
           q == m.sequence
<1>1. /\ seen' = seen /\ gaps' = gaps /\ next' = next /\ kept' = kept /\ first' = first
      /\ tx.rest # <<>> /\ tx.seen[q] = None
  BY DEF TakeNew, tables
<1>2. /\ tx'.packet = tx.packet /\ tx'.rest = Tail(tx.rest) /\ tx'.owner = tx.owner
      /\ tx'.seen = [tx.seen EXCEPT ![q] = m.digest]
      /\ tx'.gaps = IF tx.next # None /\ q > tx.next
                      THEN Append(tx.gaps, [first |-> tx.next, last |-> q - 1]) ELSE tx.gaps
      /\ tx'.next = IF tx.next # None /\ tx.next > q + 1 THEN tx.next ELSE q + 1
      /\ tx'.first = IF tx.first = None THEN q ELSE tx.first
      /\ tx' = [owner |-> tx'.owner, packet |-> tx'.packet, rest |-> tx'.rest,
                seen |-> tx'.seen, gaps |-> tx'.gaps, next |-> tx'.next, first |-> tx'.first]
  BY DEF TakeNew, GapsAfter, NextAfter
<1>3. /\ m \in Message /\ Tail(tx.rest) \in Seq(Message)
      /\ Of(tx.rest) = {m} \cup Of(Tail(tx.rest))
      /\ q \in Sequence /\ m.digest \in Digest /\ m = [sequence |-> q, digest |-> m.digest]
  <2>1. /\ m \in Message /\ Tail(tx.rest) \in Seq(Message)
        /\ Of(tx.rest) = {m} \cup Of(Tail(tx.rest))
    BY <1>1, TxFields, HeadAndRest
  <2> HIDE DEF m
  <2>2. QED  BY <2>1 DEF Message
<1> HIDE DEF q, m
<1>4. TxInv /\ tx.seen \in Seen /\ tx.gaps \in Seq(Gap) /\ tx.next \in Position
      /\ tx.first \in Position /\ tx.packet \in Seq(Message) /\ tx.owner \in Collector
  BY TxFields DEF DataInv
<1>11. /\ Takes(tx.seen, tx.gaps, tx.next, tx.first, q, m.digest,
               tx'.seen, tx'.gaps, tx'.next, tx'.first)
      /\ CopyInv(tx.seen, tx.gaps, tx.next, tx.first)
      /\ Below(tx.seen, tx.next) /\ Continues(tx.seen, tx.gaps)
  BY <1>1, <1>2, <1>3, <1>4 DEF TxInv, CopyInv, Takes
<1>5. /\ tx'.seen \in Seen /\ tx'.gaps \in Seq(Gap) /\ tx'.next \in Position
      /\ tx'.first \in Position
      /\ CopyInv(tx'.seen, tx'.gaps, tx'.next, tx'.first)
  BY <1>11, NewMessageKeepsCopy
<1>6. Continues(tx'.seen, tx'.gaps)
  BY <1>11, NewMessageContinues
<1>7. FeedTypeOK' /\ TxTypeOK'
  <2>1. FeedTypeOK'
    BY <1>1 DEF DataInv, FeedTypeOK
  <2>2. TxTypeOK'
    BY <1>2, <1>3, <1>4, <1>5 DEF TxTypeOK
  <2>3. QED  BY <2>1, <2>2
<1>8. CopyInv(seen, gaps, next, first)' /\ KeptInv'
  BY <1>1 DEF DataInv, KeptInv, CopyInv, Below, Explained, InGap, Apart
<1>9. TxInv'
  <2>1. CopyInv(tx.seen, tx.gaps, tx.next, tx.first)'
    BY <1>5 DEF CopyInv, Below, Explained, InGap, Apart
  <2>2. Continues(tx.seen, tx.gaps)'
    BY <1>1, <1>6 DEF Continues
  <2>3. FrameInv'
    <3>1. FrameInv /\ None \notin Digest
      BY <1>4, FeedAssumption DEF TxInv
    <3>2. /\ tx'.seen[q] = m.digest
          /\ \A s \in Sequence : s # q => tx'.seen[s] = tx.seen[s]
      BY <1>2, <1>3, <1>4 DEF Seen
    <3>3. Of(tx'.rest) = Of(Tail(tx.rest)) /\ Of(tx'.packet) = Of(tx.packet)
      BY <1>2
    <3>4. Of(tx'.rest) \subseteq Of(tx'.packet)
      BY <1>3, <3>1, <3>3 DEF FrameInv
    <3>5. ASSUME NEW n \in Of(tx'.packet), n \notin Of(tx'.rest)
          PROVE  tx'.seen[n.sequence] = n.digest
      <4>1. CASE n = m
        BY <3>2, <4>1 DEF q
      <4>2. CASE n # m
        <5>1. tx.seen[n.sequence] = n.digest
          BY <1>3, <3>1, <3>3, <3>5, <4>2 DEF FrameInv
        <5>2. n \in Message
          BY <1>4, <3>3, PacketHasMessages
        <5>3. n.sequence \in Sequence /\ n.digest # None
          BY <3>1, <5>2 DEF Message
        <5>4. QED  BY <1>1, <3>2, <5>1, <5>3
      <4>3. QED  BY <4>1, <4>2
    <3>6. ASSUME NEW s \in Sequence, tx'.seen[s] # None
          PROVE  \/ tx'.seen[s] = seen[s]
                 \/ [sequence |-> s, digest |-> tx'.seen[s]] \in Of(tx'.packet)
      <4>1. CASE s = q
        <5>1. m \in Of(tx'.packet)
          BY <1>3, <3>1, <3>3 DEF FrameInv
        <5>2. QED  BY <1>3, <3>2, <4>1, <5>1
      <4>2. CASE s # q
        BY <3>1, <3>2, <3>3, <3>6, <4>2 DEF FrameInv
      <4>3. QED  BY <4>1, <4>2
    <3>7. QED  BY <1>1, <3>4, <3>5, <3>6 DEF FrameInv, Of
  <2>4. QED  BY <2>1, <2>2, <2>3 DEF TxInv
<1>10. QED  BY <1>7, <1>8, <1>9 DEF DataInv

\* The commit makes the copy the tables, and keeps the frame.
LEMMA CommitKeepsData ==
  ASSUME DataInv, tx # None, CommitFeed
  PROVE  DataInv'
<1>1. /\ tx.rest = <<>>
      /\ seen' = tx.seen /\ gaps' = tx.gaps /\ next' = tx.next /\ first' = tx.first
      /\ kept' = kept \cup Of(tx.packet) /\ tx' = None
  BY DEF CommitFeed, Of
<1>2. /\ CopyInv(tx.seen, tx.gaps, tx.next, tx.first) /\ Continues(tx.seen, tx.gaps)
      /\ FrameInv /\ KeptInv /\ kept \subseteq Message /\ None \notin Digest
  BY FeedAssumption DEF DataInv, TxInv, FeedTypeOK
<1>3. Of(tx.packet) \subseteq Message
  BY TxFields, PacketHasMessages
<1>4. FeedTypeOK' /\ TxTypeOK'
  BY <1>1, <1>2, <1>3, TxFields DEF FeedTypeOK, TxTypeOK
<1>5. CopyInv(seen, gaps, next, first)'
  BY <1>1, <1>2 DEF CopyInv, Below, Explained, InGap, Apart
<1>6. KeptInv'
  <2>1. ASSUME NEW m \in kept'  PROVE tx.seen[m.sequence] = m.digest
    <3>1. CASE m \in kept
      <4>1. m.sequence \in Sequence /\ m.digest # None
        BY <1>2, <3>1 DEF Message
      <4>2. seen[m.sequence] = m.digest
        BY <1>2, <3>1 DEF KeptInv
      <4>3. QED  BY <1>2, <4>1, <4>2 DEF Continues
    <3>2. CASE m \in Of(tx.packet)
      <4>1. Of(tx.rest) = {}
        BY <1>1 DEF Of
      <4>2. QED  BY <1>2, <3>2, <4>1 DEF FrameInv
    <3>3. QED  BY <1>1, <3>1, <3>2
  <2>2. ASSUME NEW s \in Sequence, tx.seen[s] # None
        PROVE  [sequence |-> s, digest |-> tx.seen[s]] \in kept'
    BY <1>1, <1>2, <2>2 DEF FrameInv, KeptInv
  <2>3. QED  BY <1>1, <2>1, <2>2 DEF KeptInv
<1>7. TxInv'
  BY <1>1 DEF TxInv
<1>8. QED  BY <1>4, <1>5, <1>6, <1>7 DEF DataInv

(***************************************************************************)
(* Every step                                                              *)
(***************************************************************************)

\* The initial states satisfy the invariant.
LEMMA InitInv == Init => Inv
<1> SUFFICES ASSUME Init  PROVE Inv
  OBVIOUS
<1> USE DEF Init, FeedInit
<1>1. FeedTypeOK /\ TxTypeOK
  BY DEF FeedTypeOK, TxTypeOK, Seen, Position
<1>2. CopyInv(seen, gaps, next, first)
  BY DEF CopyInv, Below, Explained, Apart
<1>3. KeptInv /\ TxInv
  BY DEF KeptInv, TxInv
<1>4. ControlInv
  BY CollectorAssumption DEF ControlInv, Control, Position
<1>5. QED  BY <1>1, <1>2, <1>3, <1>4 DEF Inv, DataInv

\* A run that ends leaves nothing in memory.
LEMMA EndsKeepsControl ==
  ASSUME Inv, NEW c \in Collector, Ends(c), UNCHANGED relay
  PROVE  ControlInv'
BY CollectorAssumption DEF Inv, ControlInv, Control, Position, Ends, relay

\* The tables and the transactions on them, action by action.
LEMMA NextKeepsData ==
  ASSUME Inv, Next
  PROVE  DataInv'
<1>1. DataInv
  BY DEF Inv
<1>2. CASE RelayPublish
  BY <1>1, <1>2, OthersKeepData DEF RelayPublish
<1>3. ASSUME NEW c \in Collector,
             \/ Start(c) \/ Connect(c) \/ Receive(c) \/ Reconnect(c) \/ GivesUp(c)
             \/ AppendFails(c)
      PROVE  DataInv'
  <2>1. UNCHANGED <<tables, tx>>
    BY <1>3 DEF Start, Connect, Receive, Reconnect, GivesUp, AppendFails
  <2>2. QED  BY <1>1, <2>1, OthersKeepData
<1>4. ASSUME NEW c \in Collector, Begin(c)
      PROVE  DataInv'
  <2>1. packet[c] \in Seq(Message)
    BY DEF Inv, ControlInv
  <2>2. BeginFeed(c, packet[c]) /\ UNCHANGED tables
    BY <1>4 DEF Begin
  <2>3. QED  BY <1>1, <2>1, <2>2, BeginKeepsData
<1>5. ASSUME NEW c \in Collector, AppendMessage(c)
      PROVE  DataInv'
  <2>1. tx # None /\ (SkipDuplicate \/ TakeNew) /\ UNCHANGED tables
    BY <1>5 DEF AppendMessage
  <2>2. QED  BY <1>1, <2>1, SkipDuplicateKeepsData, TakeNewKeepsData
<1>6. ASSUME NEW c \in Collector, Conflict(c)
      PROVE  DataInv'
  BY <1>1, <1>6, RollbackKeepsData DEF Conflict, Rollback
<1>7. ASSUME NEW c \in Collector, Commit(c)
      PROVE  DataInv'
  BY <1>1, <1>7, CommitKeepsData DEF Commit
<1>8. ASSUME NEW c \in Collector, Crash(c)
      PROVE  DataInv'
  <2>1. UNCHANGED tables /\ (tx' = None \/ tx' = tx)
    BY <1>8 DEF Crash
  <2>2. CASE tx' = None
    BY <1>1, <2>1, <2>2, RollbackKeepsData
  <2>3. CASE tx' = tx
    BY <1>1, <2>1, <2>3, OthersKeepData
  <2>4. QED  BY <2>1, <2>2, <2>3
<1>9. QED  BY <1>2, <1>3, <1>4, <1>5, <1>6, <1>7, <1>8 DEF Next

\* What the collectors have in memory, action by action.
LEMMA NextKeepsControl ==
  ASSUME Inv, Next
  PROVE  ControlInv'
<1>1. ControlInv /\ next \in Position
  BY DEF Inv, DataInv, FeedTypeOK
<1>2. CASE RelayPublish
  BY <1>1, <1>2 DEF RelayPublish, own, ControlInv
<1>3. ASSUME NEW c \in Collector, Start(c) \/ Reconnect(c)
      PROVE  ControlInv'
  <2>1. /\ UNCHANGED relay /\ position' = position /\ packet' = packet /\ count' = count
        /\ pc' = [pc EXCEPT ![c] = "connecting"]
        /\ requested' = [requested EXCEPT ![c] = next]
    BY <1>3 DEF Start, Reconnect, AsksForNext, external
  <2>2. reconnects' \in [Collector -> 0 .. RetryLimit]
    <3>1. CASE Start(c)
      BY <1>1, <3>1 DEF Start, ControlInv
    <3>2. CASE Reconnect(c)
      <4>1. reconnects[c] + 1 \in 0 .. RetryLimit
        BY <1>1, <3>2, CollectorAssumption DEF Reconnect, ControlInv
      <4>2. QED  BY <1>1, <3>2, <4>1 DEF Reconnect, ControlInv
    <3>3. QED  BY <1>3, <3>1, <3>2
  <2>3. QED  BY <1>1, <2>1, <2>2 DEF ControlInv, Control, relay
<1>4. ASSUME NEW c \in Collector, Connect(c)
      PROVE  ControlInv'
  BY <1>1, <1>4 DEF Connect, ControlInv, Control, relay
<1>5. ASSUME NEW c \in Collector, Receive(c)
      PROVE  ControlInv'
  <2>1. PICK p \in Packets(c) :
          /\ packet' = [packet EXCEPT ![c] = p]
          /\ position' = [position EXCEPT ![c] = position[c] + Len(p)]
    BY <1>5 DEF Receive
  <2>2. p \in Seq(Message) /\ Len(p) \in Nat
    <3>1. PICK n \in 0 .. MaxPacket : p \in [1 .. n -> Message]
      BY DEF Packets
    <3>2. QED  BY <3>1, CollectorAssumption
  <2>3. QED  BY <1>1, <1>5, <2>1, <2>2 DEF Receive, ControlInv, Control, relay
<1>6. ASSUME NEW c \in Collector, GivesUp(c) \/ AppendFails(c) \/ Conflict(c) \/ Crash(c)
      PROVE  ControlInv'
  <2>1. Ends(c) /\ UNCHANGED relay
    BY <1>6 DEF GivesUp, AppendFails, Conflict, Crash
  <2>2. QED  BY <2>1, EndsKeepsControl
<1>7. ASSUME NEW c \in Collector, Begin(c)
      PROVE  ControlInv'
  BY <1>1, <1>7 DEF Begin, external, relay, ControlInv, Control
<1>8. ASSUME NEW c \in Collector, AppendMessage(c)
      PROVE  ControlInv'
  BY <1>1, <1>8 DEF AppendMessage, external, relay, own, ControlInv
<1>9. ASSUME NEW c \in Collector, Commit(c)
      PROVE  ControlInv'
  <2>1. UNCHANGED relay
    BY <1>9 DEF Commit
  <2>2. CASE count[c] + 1 < MaxFrames
    <3>1. count[c] + 1 \in 0 .. MaxFrames - 1
      BY <1>1, <2>2, CollectorAssumption DEF ControlInv
    <3>2. /\ pc' = [pc EXCEPT ![c] = "receiving"] /\ packet' = [packet EXCEPT ![c] = <<>>]
          /\ count' = [count EXCEPT ![c] = count[c] + 1] /\ UNCHANGED relay
          /\ requested' = requested /\ reconnects' = reconnects /\ position' = position
      BY <1>9, <2>1, <2>2 DEF Commit
    <3>3. QED  BY <1>1, <3>1, <3>2 DEF ControlInv, Control, relay
  <2>3. CASE ~(count[c] + 1 < MaxFrames)
    BY <1>9, <2>1, <2>3, EndsKeepsControl DEF Commit
  <2>4. QED  BY <2>2, <2>3
<1>10. QED  BY <1>2, <1>3, <1>4, <1>5, <1>6, <1>7, <1>8, <1>9 DEF Next

\* The invariant of every behaviour.
LEMMA Invariance == Spec => []Inv
<1>1. Inv /\ [Next]_vars => Inv'
  <2> SUFFICES ASSUME Inv, [Next]_vars  PROVE Inv'
    OBVIOUS
  <2>1. CASE Next
    BY <2>1, NextKeepsData, NextKeepsControl DEF Inv
  <2>2. CASE UNCHANGED vars
    <3>1. DataInv'
      BY <2>2, OthersKeepData DEF Inv, vars
    <3>2. ControlInv'
      BY <2>2 DEF Inv, ControlInv, vars, external, relay, own
    <3>3. QED  BY <3>1, <3>2 DEF Inv
  <2>3. QED  BY <2>1, <2>2
<1>2. QED  BY <1>1, InitInv, PTL DEF Spec

(***************************************************************************)
(* What holds of every behaviour                                           *)
(***************************************************************************)

\* The types of the tables, of a transaction's copy and of the collectors' memory.
THEOREM TypeCorrect == Spec => []TypeOK
<1>1. Inv => TypeOK
  BY DEF Inv, DataInv, ControlInv, TypeOK
<1>2. QED  BY <1>1, Invariance, PTL

\* Whatever the relay sends, and however many collectors share the database, every
\* number between the first observed one and the cursor was seen or is in a gap row.
THEOREM NothingVanishes == Spec => []EverySequenceIsExplained
<1>1. Inv => EverySequenceIsExplained
  BY DEF Inv, DataInv, CopyInv, Explained, InGap, EverySequenceIsExplained
<1>2. QED  BY <1>1, Invariance, PTL

\* The gap rows are ascending, disjoint and below the cursor.
THEOREM GapRowsAreApart == Spec => []GapsAreApart
<1>1. Inv => GapsAreApart
  BY DEF Inv, DataInv, CopyInv, Apart, GapsAreApart
<1>2. QED  BY <1>1, Invariance, PTL

\* feed_seen is exactly what the kept frames say.
THEOREM FramesAgreeWithSeen == Spec => []FramesExplainSeen
<1>1. Inv => FramesExplainSeen
  <2> SUFFICES ASSUME Inv  PROVE FramesExplainSeen
    OBVIOUS
  <2>1. KeptInv /\ kept \subseteq Message /\ None \notin Digest
    BY FeedAssumption DEF Inv, DataInv, FeedTypeOK
  <2>2. ASSUME NEW m \in kept
        PROVE  m \in {[sequence |-> s, digest |-> seen[s]] : s \in {r \in Sequence : seen[r] # None}}
    <3>1. m = [sequence |-> m.sequence, digest |-> m.digest] /\ m.sequence \in Sequence
          /\ m.digest \in Digest
      BY <2>1 DEF Message
    <3>2. seen[m.sequence] = m.digest
      BY <2>1 DEF KeptInv
    <3>3. QED  BY <2>1, <3>1, <3>2
  <2>3. QED  BY <2>1, <2>2 DEF KeptInv, FramesExplainSeen
<1>2. QED  BY <1>1, Invariance, PTL

\* No step takes a gap row or a digest back, and a new row is of numbers nobody had
\* seen: only the commit writes, and its copy continues the tables.
THEOREM HistoryStays == Spec => ObservationIsHistory
<1>1. Inv /\ [Next]_vars => UNCHANGED tables \/ Continues(seen', gaps')
  <2> SUFFICES ASSUME Inv, Next  PROVE UNCHANGED tables \/ Continues(seen', gaps')
    BY DEF vars
  <2>1. ASSUME NEW c \in Collector, Commit(c)
        PROVE  Continues(seen', gaps')
    BY <2>1 DEF Commit, CommitFeed, Inv, DataInv, TxInv
  <2>2. ASSUME NEW c \in Collector,
               \/ Start(c) \/ Connect(c) \/ Receive(c) \/ Reconnect(c) \/ GivesUp(c)
               \/ Begin(c) \/ AppendFails(c) \/ AppendMessage(c) \/ Conflict(c) \/ Crash(c)
        PROVE  UNCHANGED tables
    BY <2>2 DEF Start, Connect, Receive, Reconnect, GivesUp, Begin, AppendFails,
                AppendMessage, Conflict, Rollback, Crash
  <2>3. CASE RelayPublish
    BY <2>3 DEF RelayPublish
  <2>4. QED  BY <2>1, <2>2, <2>3 DEF Next
<1>2. QED  BY <1>1, Invariance, PTL DEF Spec, ObservationIsHistory, Continues

(***************************************************************************)
(* One collector at a time and a relay that keeps its messages             *)
(***************************************************************************)

\* Collectors may follow one another; none is started while another one runs.
OneAtATime == \A c, d \in Collector : pc[c] # "idle" /\ pc[d] # "idle" => c = d

\* p is the relay's messages up to the one before the number end.
UpTo(p, end) == \A i \in DOMAIN p : p[i].sequence = end - Len(p) + i - 1

NotBeyond(q, nx) == nx # None => q <= nx

\* What the transaction has left to take begins at its cursor or before.
TxAlone ==
  tx # None =>
    /\ pc[tx.owner] = "committing" /\ tx.gaps = <<>>
    /\ UpTo(tx.rest, position[tx.owner])
    /\ NotBeyond(position[tx.owner] - Len(tx.rest), tx.next)

\* What the session brings next begins at the cursor or before.
SessionAlone(c) ==
  /\ pc[c] = "connecting" => requested[c] = next
  /\ pc[c] = "receiving" => NotBeyond(position[c], next)
  /\ pc[c] = "appending" =>
       UpTo(packet[c], position[c]) /\ NotBeyond(position[c] - Len(packet[c]), next)

AloneInv == reliable => gaps = <<>> /\ TxAlone /\ \A c \in Collector : SessionAlone(c)

\* The rest of a run of messages is a run that ends where it ended.
LEMMA RestOfRun ==
  ASSUME NEW p \in Seq(Message), p # <<>>, NEW end \in Nat, UpTo(p, end)
  PROVE  /\ Head(p).sequence = end - Len(p)
         /\ Tail(p) \in Seq(Message) /\ UpTo(Tail(p), end) /\ Len(Tail(p)) = Len(p) - 1
<1>1. /\ Len(p) \in Nat \ {0} /\ DOMAIN p = 1 .. Len(p) /\ Head(p) = p[1]
  OBVIOUS
<1>2. /\ Tail(p) \in Seq(Message) /\ DOMAIN Tail(p) = 1 .. Len(p) - 1
      /\ Len(Tail(p)) = Len(p) - 1
      /\ \A i \in 1 .. Len(p) - 1 : Tail(p)[i] = p[i + 1]
  BY <1>1
<1>3. \A i \in 1 .. Len(p) : p[i].sequence = end - Len(p) + i - 1
  BY <1>1 DEF UpTo
<1>4. Head(p).sequence = end - Len(p)
  BY <1>1, <1>3
<1>5. ASSUME NEW i \in 1 .. Len(p) - 1
      PROVE  Tail(p)[i].sequence = end - (Len(p) - 1) + i - 1
  <2>1. i + 1 \in 1 .. Len(p) /\ i \in Int
    BY <1>1
  <2>2. p[i + 1].sequence = end - Len(p) + (i + 1) - 1
    BY <1>3, <2>1
  <2>3. QED  BY <1>1, <1>2, <2>1, <2>2
<1>6. UpTo(Tail(p), end)
  BY <1>2, <1>5 DEF UpTo
<1>7. QED  BY <1>2, <1>4, <1>6

\* A packet of a reliable relay is the next messages of the session.
LEMMA PacketIsNext ==
  ASSUME Inv, reliable, NEW c \in Collector, NEW p \in Packets(c)
  PROVE  p \in Seq(Message) /\ Len(p) \in Nat /\ UpTo(p, position[c] + Len(p))
<1>1. p \in Seq(Message) /\ Len(p) \in Nat
  <2>1. PICK n \in 0 .. MaxPacket : p \in [1 .. n -> Message]
    BY DEF Packets
  <2>2. QED  BY <2>1, CollectorAssumption
<1>2. position[c] \in Nat
  BY DEF Inv, ControlInv
<1> DEFINE end == position[c] + Len(p)
<1>3. end \in Nat /\ position[c] = end - Len(p)
  BY <1>1, <1>2
<1> HIDE DEF end
<1>4. \A i \in DOMAIN p : p[i].sequence = end - Len(p) + i - 1
  BY <1>3 DEF Packets
<1>5. UpTo(p, end)
  BY <1>4 DEF UpTo
<1>6. QED  BY <1>1, <1>5 DEF end

\* The steps of a session keep the cursor at what it brings next, or beyond it.
LEMMA SessionStaysAlone ==
  ASSUME Inv, AloneInv, reliable, NEW c \in Collector, UNCHANGED <<tables, tx>>,
         Start(c) \/ Connect(c) \/ Receive(c) \/ Reconnect(c)
  PROVE  /\ SessionAlone(c)' /\ pc[c] # "committing"
         /\ \A d \in Collector \ {c} :
              UNCHANGED <<pc[d], requested[d], packet[d], position[d]>>
<1>1. /\ pc \in [Collector -> Control] /\ requested \in [Collector -> Position]
      /\ packet \in [Collector -> Seq(Message)] /\ position \in [Collector -> Nat]
      /\ next' = next
  BY DEF Inv, ControlInv, tables
<1>2. CASE Start(c) \/ Reconnect(c)
  BY <1>1, <1>2 DEF Start, Reconnect, AsksForNext, external, SessionAlone
<1>3. CASE Connect(c)
  <2>1. PICK p \in 0 .. head :
          /\ requested[c] # None => p = requested[c]
          /\ position' = [position EXCEPT ![c] = p]
    BY <1>3 DEF Connect
  <2>2. /\ pc[c] = "connecting" /\ pc' = [pc EXCEPT ![c] = "receiving"]
        /\ requested' = requested /\ packet' = packet
    BY <1>3 DEF Connect
  <2>3. requested[c] = next
    BY <2>2 DEF AloneInv, SessionAlone
  <2>4. next # None => p <= next
    BY <2>1, <2>3
  <2>5. QED  BY <1>1, <2>1, <2>2, <2>4 DEF SessionAlone, NotBeyond
<1>4. CASE Receive(c)
  <2>1. PICK p \in Packets(c) :
          /\ packet' = [packet EXCEPT ![c] = p]
          /\ position' = [position EXCEPT ![c] = position[c] + Len(p)]
    BY <1>4 DEF Receive
  <2>2. /\ pc[c] = "receiving" /\ pc' = [pc EXCEPT ![c] = "appending"]
        /\ requested' = requested
    BY <1>4 DEF Receive
  <2>3. p \in Seq(Message) /\ Len(p) \in Nat /\ UpTo(p, position[c] + Len(p))
    BY PacketIsNext
  <2>4. NotBeyond(position[c], next)
    BY <2>2 DEF AloneInv, SessionAlone
  <2>5. position[c] + Len(p) - Len(p) = position[c]
    BY <1>1, <2>3
  <2>6. packet'[c] = p /\ position'[c] = position[c] + Len(p) /\ pc'[c] = "appending"
    BY <1>1, <2>1, <2>2
  <2>7. SessionAlone(c)'
    BY <1>1, <2>3, <2>4, <2>5, <2>6 DEF SessionAlone, UpTo, NotBeyond
  <2>8. QED  BY <1>1, <2>1, <2>2, <2>7
<1>5. QED  BY <1>2, <1>3, <1>4

\* A message the transaction takes leaves no gap: it is not beyond its cursor.
LEMMA MessageLeavesNoGap ==
  ASSUME Inv, AloneInv, reliable, NEW c \in Collector, AppendMessage(c)
  PROVE  TxAlone'
<1>1. /\ tx # None /\ tx.owner = c /\ tx.rest # <<>>
      /\ tx.rest \in Seq(Message) /\ tx.next \in Position /\ tx.gaps = <<>>
      /\ tx.seen \in Seen
      /\ pc[c] = "committing" /\ position[c] \in Nat
      /\ UpTo(tx.rest, position[c])
      /\ NotBeyond(position[c] - Len(tx.rest), tx.next)
      /\ Below(tx.seen, tx.next)
  <2>1. /\ tx # None /\ tx.owner = c /\ tx.rest # <<>>
    BY DEF AppendMessage, SkipDuplicate, TakeNew
  <2>2. /\ tx.rest \in Seq(Message) /\ tx.next \in Position /\ tx.seen \in Seen
    BY <2>1 DEF Inv, DataInv, TxTypeOK
  <2>3. position[c] \in Nat
    BY DEF Inv, ControlInv
  <2>4. Below(tx.seen, tx.next)
    BY <2>1 DEF Inv, DataInv, TxInv, CopyInv
  <2>5. QED  BY <2>1, <2>2, <2>3, <2>4 DEF AloneInv, TxAlone
<1> DEFINE m == Head(tx.rest)
<1>2. /\ m.sequence = position[c] - Len(tx.rest) /\ m \in Message
      /\ Tail(tx.rest) \in Seq(Message) /\ UpTo(Tail(tx.rest), position[c])
      /\ Len(Tail(tx.rest)) = Len(tx.rest) - 1 /\ Len(tx.rest) \in Nat
  BY <1>1, RestOfRun
<1>3. m.sequence \in Sequence /\ m.sequence \in Nat /\ m.digest \in Digest /\ m.digest # None
  BY <1>2, FeedAssumption DEF Message
<1>4. tx'.owner = c /\ tx'.rest = Tail(tx.rest)
      /\ tx'.gaps = <<>> /\ NotBeyond(m.sequence + 1, tx'.next)
  <2>1. CASE SkipDuplicate
    <3>1. /\ tx'.owner = c /\ tx'.rest = Tail(tx.rest) /\ tx'.gaps = <<>>
          /\ tx'.next = tx.next
      <4>1. tx \in [owner : Collector, packet : Seq(Message), rest : Seq(Message),
                    seen : Seen, gaps : Seq(Gap), next : Position, first : Position]
        BY <1>1 DEF Inv, DataInv, TxTypeOK
      <4>2. tx' = [tx EXCEPT !.rest = Tail(@)]
        BY <2>1 DEF SkipDuplicate
      <4>3. QED  BY <1>1, <4>1, <4>2
    <3>2. tx.seen[m.sequence] # None
      BY <1>3, <2>1 DEF SkipDuplicate
    <3>3. tx.next # None /\ m.sequence < tx.next
      BY <1>1, <1>3, <3>2 DEF Below
    <3>4. m.sequence + 1 <= tx.next
      BY <1>1, <1>3, <3>3 DEF Position
    <3>5. QED  BY <3>1, <3>4 DEF NotBeyond
  <2>2. CASE TakeNew
    <3>1. tx' = [owner |-> tx.owner, packet |-> tx.packet, rest |-> Tail(tx.rest),
                 seen |-> [tx.seen EXCEPT ![m.sequence] = m.digest],
                 gaps |-> GapsAfter(m.sequence), next |-> NextAfter(m.sequence),
                 first |-> IF tx.first = None THEN m.sequence ELSE tx.first]
      BY <2>2 DEF TakeNew
    <3>2. ~(tx.next # None /\ m.sequence > tx.next)
      BY <1>1, <1>2, <1>3 DEF NotBeyond, Position
    <3>3. GapsAfter(m.sequence) = <<>>
      BY <1>1, <3>2 DEF GapsAfter
    <3>4. NotBeyond(m.sequence + 1, NextAfter(m.sequence))
      BY <1>1, <1>3 DEF NotBeyond, NextAfter, Position
    <3>5. QED  BY <1>1, <3>1, <3>3, <3>4
  <2>3. QED  BY <2>1, <2>2 DEF AppendMessage
<1>5. pc'[c] = "committing" /\ position'[c] = position[c]
  BY <1>1 DEF AppendMessage, external, own
<1>6. m.sequence + 1 = position[c] - Len(Tail(tx.rest))
  BY <1>1, <1>2
<1> HIDE DEF m
<1>7. QED  BY <1>2, <1>4, <1>5, <1>6 DEF TxAlone, UpTo, NotBeyond

\* A session that has ended, or that nothing moved, is as it was.
LEMMA EndedIsAlone ==
  ASSUME ControlInv, NEW c \in Collector, Ends(c)
  PROVE  /\ SessionAlone(c)'
         /\ \A d \in Collector \ {c} :
              UNCHANGED <<pc[d], requested[d], packet[d], position[d]>>
BY DEF ControlInv, Ends, SessionAlone

LEMMA UntouchedIsAlone ==
  ASSUME NEW d \in Collector, SessionAlone(d),
         UNCHANGED <<pc[d], requested[d], packet[d], position[d]>>,
         next' = next \/ pc[d] = "idle"
  PROVE  SessionAlone(d)'
BY DEF SessionAlone, UpTo, NotBeyond

\* A transaction that nothing but its own process touches is as it was.
LEMMA UntouchedTxIsAlone ==
  ASSUME TxAlone, tx' = tx,
         tx # None => UNCHANGED <<pc[tx.owner], position[tx.owner]>>
  PROVE  TxAlone'
BY DEF TxAlone, UpTo, NotBeyond

\* With one collector at a time, every step leaves no gap.
LEMMA NextStaysAlone ==
  ASSUME Inv, OneAtATime, AloneInv, [Next]_vars
  PROVE  AloneInv'
<1> SUFFICES ASSUME reliable'  PROVE (gaps = <<>> /\ TxAlone /\ \A c \in Collector : SessionAlone(c))'
  BY DEF AloneInv
<1>1. reliable
  BY DEF Next, RelayPublish, Start, Connect, Receive, Reconnect, GivesUp, Begin, AppendFails,
         AppendMessage, Conflict, Commit, Crash, vars, external, relay
<1>2. /\ gaps = <<>> /\ TxAlone /\ \A c \in Collector : SessionAlone(c)
      /\ DataInv /\ ControlInv
      /\ tx # None => tx.owner \in Collector /\ pc[tx.owner] = "committing"
  BY <1>1, TxFields DEF AloneInv, TxAlone, Inv
<1>3. CASE RelayPublish \/ UNCHANGED vars
  <2>1. UNCHANGED <<tables, tx, position, own>>
    BY <1>3 DEF RelayPublish, vars, external
  <2>2. TxAlone'
    BY <1>2, <2>1, UntouchedTxIsAlone DEF own
  <2>3. ASSUME NEW d \in Collector  PROVE SessionAlone(d)'
    BY <1>2, <2>1, UntouchedIsAlone DEF own, tables
  <2>4. QED  BY <1>2, <2>1, <2>2, <2>3 DEF tables
<1>4. ASSUME NEW c \in Collector, Start(c) \/ Connect(c) \/ Receive(c) \/ Reconnect(c)
      PROVE  (gaps = <<>> /\ TxAlone /\ \A d \in Collector : SessionAlone(d))'
  <2>1. UNCHANGED <<tables, tx>>
    BY <1>4 DEF Start, Connect, Receive, Reconnect
  <2>2. /\ SessionAlone(c)' /\ pc[c] # "committing"
        /\ \A d \in Collector \ {c} :
             UNCHANGED <<pc[d], requested[d], packet[d], position[d]>>
    BY <1>1, <1>4, <2>1, SessionStaysAlone
  <2>3. TxAlone'
    BY <1>2, <2>1, <2>2, UntouchedTxIsAlone
  <2>4. ASSUME NEW d \in Collector \ {c}  PROVE SessionAlone(d)'
    BY <1>2, <2>1, <2>2, UntouchedIsAlone DEF tables
  <2>5. QED  BY <1>2, <2>1, <2>2, <2>3, <2>4 DEF tables
<1>5. ASSUME NEW c \in Collector, GivesUp(c) \/ AppendFails(c) \/ Conflict(c) \/ Crash(c)
      PROVE  (gaps = <<>> /\ TxAlone /\ \A d \in Collector : SessionAlone(d))'
  <2>1. Ends(c) /\ UNCHANGED tables
    BY <1>5 DEF GivesUp, AppendFails, Conflict, Crash, Rollback
  <2>2. tx' = None \/ (tx' = tx /\ (tx # None => tx.owner # c))
    BY <1>2, <1>5 DEF GivesUp, AppendFails, Conflict, Crash, Rollback
  <2>3. /\ SessionAlone(c)'
        /\ \A d \in Collector \ {c} :
             UNCHANGED <<pc[d], requested[d], packet[d], position[d]>>
    BY <1>2, <2>1, EndedIsAlone
  <2>4. TxAlone'
    <3>1. CASE tx' = None
      BY <3>1 DEF TxAlone
    <3>2. CASE tx' = tx /\ (tx # None => tx.owner # c)
      BY <1>2, <2>3, <3>2, UntouchedTxIsAlone
    <3>3. QED  BY <2>2, <3>1, <3>2
  <2>5. ASSUME NEW d \in Collector \ {c}  PROVE SessionAlone(d)'
    BY <1>2, <2>1, <2>3, UntouchedIsAlone DEF tables
  <2>6. QED  BY <1>2, <2>1, <2>3, <2>4, <2>5 DEF tables
<1>6. ASSUME NEW c \in Collector, Begin(c)
      PROVE  (gaps = <<>> /\ TxAlone /\ \A d \in Collector : SessionAlone(d))'
  <2>1. /\ pc[c] = "appending" /\ pc' = [pc EXCEPT ![c] = "committing"]
        /\ UNCHANGED <<tables, external, requested, packet, count, reconnects>>
        /\ tx' = [owner |-> c, packet |-> packet[c], rest |-> packet[c],
                  seen |-> seen, gaps |-> gaps, next |-> next, first |-> first]
    BY <1>6 DEF Begin, BeginFeed
  <2>2. /\ position' = position /\ gaps' = gaps /\ next' = next /\ packet' = packet
        /\ requested' = requested
        /\ pc'[c] = "committing" /\ \A d \in Collector \ {c} : pc'[d] = pc[d]
    BY <1>2, <2>1 DEF ControlInv, external, tables
  <2>3. /\ tx'.owner = c /\ tx'.rest = packet[c] /\ tx'.gaps = gaps /\ tx'.next = next
    BY <2>1
  <2>4. UpTo(packet[c], position[c]) /\ NotBeyond(position[c] - Len(packet[c]), next)
    BY <1>2, <2>1 DEF SessionAlone
  <2>5. TxAlone'
    BY <1>2, <2>2, <2>3, <2>4 DEF TxAlone, UpTo, NotBeyond
  <2>6. SessionAlone(c)'
    BY <2>2 DEF SessionAlone
  <2>7. ASSUME NEW d \in Collector \ {c}  PROVE SessionAlone(d)'
    BY <1>2, <2>2, UntouchedIsAlone
  <2>8. QED  BY <1>2, <2>2, <2>5, <2>6, <2>7
<1>7. ASSUME NEW c \in Collector, AppendMessage(c)
      PROVE  (gaps = <<>> /\ TxAlone /\ \A d \in Collector : SessionAlone(d))'
  <2>1. UNCHANGED <<tables, external, own>>
    BY <1>7 DEF AppendMessage
  <2>2. TxAlone'
    BY <1>1, <1>7, MessageLeavesNoGap
  <2>3. ASSUME NEW d \in Collector  PROVE SessionAlone(d)'
    BY <1>2, <2>1, UntouchedIsAlone DEF own, tables, external
  <2>4. QED  BY <1>2, <2>1, <2>2, <2>3 DEF tables
<1>8. ASSUME NEW c \in Collector, Commit(c)
      PROVE  (gaps = <<>> /\ TxAlone /\ \A d \in Collector : SessionAlone(d))'
  <2>1. /\ tx # None /\ tx.owner = c /\ tx.rest = <<>> /\ pc[c] = "committing"
        /\ gaps' = tx.gaps /\ next' = tx.next /\ tx' = None
    BY <1>2, <1>8 DEF Commit, CommitFeed
  <2>2. gaps' = <<>> /\ NotBeyond(position[c] - Len(tx.rest), tx.next)
    BY <1>2, <2>1 DEF TxAlone
  <2>3. TxAlone'
    BY <2>1 DEF TxAlone
  <2>4. \A d \in Collector \ {c} : pc[d] = "idle"
    BY <2>1 DEF OneAtATime
  <2>5. /\ SessionAlone(c)'
        /\ \A d \in Collector \ {c} :
             UNCHANGED <<pc[d], requested[d], packet[d], position[d]>>
    <3>1. CASE count[c] + 1 < MaxFrames
      <4>1. /\ pc' = [pc EXCEPT ![c] = "receiving"] /\ packet' = [packet EXCEPT ![c] = <<>>]
            /\ requested' = requested /\ position' = position
        BY <1>8, <3>1 DEF Commit
      <4>2. position[c] - Len(tx.rest) = position[c]
        BY <1>2, <2>1 DEF ControlInv
      <4>3. QED  BY <1>2, <2>1, <2>2, <4>1, <4>2 DEF ControlInv, SessionAlone, NotBeyond
    <3>2. CASE ~(count[c] + 1 < MaxFrames)
      BY <1>2, <1>8, <3>2, EndedIsAlone DEF Commit
    <3>3. QED  BY <3>1, <3>2
  <2>6. ASSUME NEW d \in Collector \ {c}  PROVE SessionAlone(d)'
    BY <1>2, <2>4, <2>5, UntouchedIsAlone
  <2>7. QED  BY <2>2, <2>3, <2>5, <2>6
<1>9. QED  BY <1>3, <1>4, <1>5, <1>6, <1>7, <1>8 DEF Next

\* Collectors that follow one another, are killed, give up and connect again miss
\* nothing of a relay that keeps its messages: each asks for what is not committed, and
\* a message the tables have is never beyond the cursor.
THEOREM OneByOneMissesNothing == Spec /\ []OneAtATime => []ReliableRelayLeavesNoGap
<1>1. Init => AloneInv
  BY DEF Init, FeedInit, AloneInv, TxAlone, SessionAlone
<1>2. Inv /\ OneAtATime /\ AloneInv /\ [Next]_vars => AloneInv'
  BY NextStaysAlone
<1>3. AloneInv => ReliableRelayLeavesNoGap
  BY DEF AloneInv, ReliableRelayLeavesNoGap
<1>4. QED  BY <1>1, <1>2, <1>3, Invariance, PTL DEF Spec

=============================================================================
